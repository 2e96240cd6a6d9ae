\* Every job type that differs, every set of configured providers, one error, an API that starts, and
\* a floor of what two targets at three attempts cost with one credit more than that left.
CONSTANTS
    Jobs = {"daily_analysis", "sync_odds", "settle_events"}
    MaxErrors = 1
    Football = {"sportmonks", "api_football"}
    Quotas = {7}
    Cost = 1
    Floor = 6
    MaxTargets = 2
    MaxFixtures = 2
CHECK_DEADLOCK FALSE
SPECIFICATION FairSpec
INVARIANTS CompletedIsClean PredictionsReported FailureShown RefusalsCostNothing
PROPERTIES PipelineEnds FloorKept
