\* The matching rule as documented: refuted by the canonical key of a match that was moved.
CONSTANTS
    league = league
    cup = cup
    tennis = tennis
    fixtures = fixtures
    results = results
    odds = odds
    Provider = {fixtures, odds}
    Match = {league, tennis}
    Scorer = {fixtures}
    Swapped <- TennisSwapped
    Plan <- Plans
    IdOf <- Ids
    NamesOf <- OneName
    CompKeyOf <- Keys
    CompNameOf <- CompNames
SPECIFICATION Spec
CHECK_DEADLOCK FALSE
PROPERTIES MatchedWithinTenMinutes
