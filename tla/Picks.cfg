\* One coming match, three books, three trained versions, three syncs and two promotions.
CONSTANTS
    old = old
    m1 = m1
    b1 = b1
    b2 = b2
    b3 = b3
    v1 = v1
    v2 = v2
    v3 = v3
    Match = {old, m1}
    Book = {b1, b2, b3}
    Side = {"home", "away"}
    Version = {v1, v2, v3}
    Fixture <- Fixtures
    Trained <- Models
    Board <- Boards
    Archive <- Archived
    Unit = 20
    MinOdds = 145
    MinEdge = 3
    MinEv = 3
    MinConfidence = 65
    MinQuality = 60
    InPlay = 1
    MaxAge = 1
    StaleAge = 1
    ShelfLife = 2
    Horizon = 3
    MinCompared = 1
    MaxTime = 4
    MaxSyncs = 2
    MaxAttempts = 2
CHECK_DEADLOCK FALSE
SPECIFICATION Spec
INVARIANTS OneServing PredictedByPromoted Corroborated ValidIsUndisputed ShownPriceRecent
