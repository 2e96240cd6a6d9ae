\* The documented promise about a restarted leader: one worker replaced by SIGTERM while a backfill is about to start.
CONSTANTS
    w1 = w1
    w2 = w2
    c1 = c1
    c2 = c2
    Run = {r1}
    Worker = {w1}
    Cron = {}
    OneShot = {}
    Api = {a1}
    Backfill = {b1}
    Host <- HostMap
    ApiExecutes = FALSE
    Free = Free
    Orphan = Orphan
    NoRun = NoRun
    MaxFaults <- OneTermination
SPECIFICATION FairSpec
PROPERTIES RestartedLeaderRecovers
