\* A crash, a SIGTERM and an exception in a worker with a scheduler job, next to a one-shot job and a backfill.
CONSTANTS
    w1 = w1
    w2 = w2
    c1 = c1
    c2 = c2
    Run = {r1, r2}
    Worker = {w1}
    Cron = {c1}
    OneShot = {o1}
    Api = {}
    Backfill = {b1}
    Host <- HostMap
    ApiExecutes = FALSE
    Free = Free
    Orphan = Orphan
    NoRun = NoRun
    MaxFaults <- OneOfEach
SPECIFICATION FairSpec
PROPERTIES LocksComeBack UndisturbedRunsEnd
