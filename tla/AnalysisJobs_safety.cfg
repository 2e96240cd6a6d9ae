\* Two workers replacing each other, one with a scheduler job, an API request that executes its run
\* itself (not production), a backfill, a crash and a SIGTERM.
CONSTANTS
    w1 = w1
    w2 = w2
    c1 = c1
    c2 = c2
    Run = {r1, r2}
    Worker = {w1, w2}
    Cron = {c1}
    OneShot = {}
    Api = {a1}
    Backfill = {b1}
    Host <- HostMap
    ApiExecutes = TRUE
    Free = Free
    Orphan = Orphan
    NoRun = NoRun
    MaxFaults <- CrashAndTerminate
SPECIFICATION Spec
INVARIANTS IInv OneActiveRun OneExecution
PROPERTIES OnlyExecutorEndsRun ImplementsLifecycle
