\* Two providers of results and the_odds_api, which lists late and without results; the
\* match moves by exactly ten minutes, then further, and listings settle in the end.
CONSTANTS
    league = league
    cup = cup
    tennis = tennis
    fixtures = fixtures
    results = results
    odds = odds
    Provider = {fixtures, results, odds}
    Match = {league}
    Scorer = {fixtures, results}
    Swapped <- TennisSwapped
    Plan <- Plans
    IdOf <- Ids
    NamesOf <- OneName
    CompKeyOf <- Keys
    CompNameOf <- CompNames
SPECIFICATION FairSpec
CHECK_DEADLOCK FALSE
PROPERTIES FinalStays AgreeingListingsJoin EventuallyCurrent
