\* Four matches, three of which make samples; two of them of corrected results.
CONSTANTS
    Match = {1, 2, 3, 4}
    Sides <- SidesOf
    Starts <- StartsOf
    Source = {"s", "t"}
    MinHistory = 1
    MinPlayer = 1
    MinSamples = 3
    MinPart = 0
    MinTrain = 1
    TestSize = 1
    MaxTime = 6
    MaxVersions <- VersionsOf
    MaxSnapshots <- SnapshotsOf
    Home <- HomeOf
    Competition <- CompetitionOf
    Season <- SeasonOf
    Sportmonks = "s"
    Duration = 3
    MinVenue = 1
    MinLeague = 1
    Window = 2
CHECK_DEADLOCK FALSE
SPECIFICATION Spec
INVARIANTS PartsApart LabelsKnown FoldsApart RatingsAgree
PROPERTIES PastIsFrozen AuditPasses
