\* Lines on and off the grid, scores up to 3 : 3, a goal a side in extra time, four picks, and none, one or both of the
\* names spelled alike.
CONSTANTS
    Line <- Lines
    Stake = {1, 3}
    Odds = {101, 190, 350}
    MaxScore = 3
    Client = {"api_football", "sportmonks", "api_tennis"}
    Pick <- Picks
    Bet = 3
    Opening = {NoLedger, 1000}
    Closing <- ClosingPrices
    NoLedger = NoLedger
    Alike = {{}, {"home"}, {"home", "away"}}
    MaxExtra = 1
CHECK_DEADLOCK FALSE
SPECIFICATION BatchSpec
INVARIANTS SidesMirror SplitStake RegulationPaid
PROPERTIES ScoringHelps BatchesBooked
