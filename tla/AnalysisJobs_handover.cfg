\* A production deployment with queue-only workers (WORKER_SCHEDULES_ENABLED=false), replaced twice by SIGTERM.
CONSTANTS
    w1 = w1
    w2 = w2
    c1 = c1
    c2 = c2
    Run = {r1, r2}
    Worker = {w1, w2}
    Cron = {}
    OneShot = {}
    Api = {a1, a2}
    Backfill = {}
    Host <- HostMap
    ApiExecutes = FALSE
    Free = Free
    Orphan = Orphan
    NoRun = NoRun
    MaxFaults <- TwoTerminations
SPECIFICATION FairSpec
PROPERTIES QueuedRunsEnd
