\* Two commands over the same range, one page each per call, repeated as often as the pages
\* and up to two errors and crashes take.
CONSTANTS
    f1 = f1
    f2 = f2
    f3 = f3
    f4 = f4
    daily = daily
    weekly = weekly
    Fixture = {f1, f2, f3, f4}
    Kind <- KindMap
    Variant = {daily, weekly}
    Pages <- BothCommands
    MaxPages = 1
    PageBound = 2
    MaxCalls = 6
    MaxFaults = 2
CHECK_DEADLOCK FALSE
SPECIFICATION FairSpec
INVARIANTS AtomicPages NothingSkipped
PROPERTIES FirstObservationKept EverythingArchived
