\* Two fixture providers with the same ids for others, a club that is renamed, two matches of the same
\* clubs at nearly one time.
CONSTANTS
    league = league
    cup = cup
    tennis = tennis
    fixtures = fixtures
    results = results
    odds = odds
    Provider = {fixtures, results}
    Match = {league, cup}
    Scorer = {fixtures, results}
    Swapped <- TennisSwapped
    Plan <- ShortPlans
    IdOf <- Ids
    NamesOf <- Renamed
    CompKeyOf <- Keys
    CompNameOf <- CompNames
SPECIFICATION Spec
CHECK_DEADLOCK FALSE
INVARIANTS NoFalseMerge KeysUnique TeamsApart
