----------------------------- MODULE PriceRules -----------------------------
(***************************************************************************)
(* analytics/value/engine.py: which prices agree, what a market's prices   *)
(* say once the bookmakers' margin is removed, and when a price is value.  *)
(*                                                                         *)
(* A price is a whole number of Unit-ths, a probability a percentage.      *)
(* Whatever is not finite is a price of 0: the code treats both alike.     *)
(***************************************************************************)
EXTENDS Integers, FiniteSets, FiniteSetsExt, Functions

CONSTANTS
    Unit,                   \* price 1.00
    MinOdds, MinEdge, MinEv, MinConfidence, MinQuality  \* settings; odds in hundredths

ASSUME SettingsAssumption ==
    /\ Unit \in Nat \ {0}
    /\ {MinOdds, MinEdge, MinEv, MinConfidence, MinQuality} \subseteq Nat

\* The k-th smallest value of f, and statistics.median of values that are even.
Nth(f, k) ==
    CHOOSE v \in Range(f) :
        /\ Cardinality({i \in DOMAIN f : f[i] < v}) < k
        /\ Cardinality({i \in DOMAIN f : f[i] <= v}) >= k

Median(f) ==
    LET n == Cardinality(DOMAIN f)
    IN  (Nth(f, (n + 1) \div 2) + Nth(f, n \div 2 + 1)) \div 2

\* statistics.quantiles(n=4, method="inclusive") of values that are multiples of four.
Quartile(f, i) ==
    LET p == i * (Cardinality(DOMAIN f) - 1)
        low == Nth(f, p \div 4 + 1)
    IN  IF p % 4 = 0 THEN low
        ELSE (low * (4 - (p % 4)) + Nth(f, p \div 4 + 2) * (p % 4)) \div 4

Abs(n) == IF n < 0 THEN -n ELSE n

\* Mutant: only impossible prices are kept out.
ClassifyPrices_AnyDeviation(price) ==
    [i \in DOMAIN price |->
        IF 100 * price[i] \in 101 * Unit..10000 * Unit THEN "VALID" ELSE "REJECTED"]

\* classify_odds_prices.  The centre is taken of all prices above 1, in eighths of a Unit so
\* that medians of medians and quartiles are whole.
ClassifyPrices(price) ==
    LET finite == {i \in DOMAIN price : price[i] > Unit}
        x      == [i \in finite |-> 8 * price[i]]
        center == Median(x)
        off(i) == Abs(8 * price[i] - center)
        mad    == Median([i \in finite |-> off(i)])
        q1     == Quartile(x, 1)
        q3     == Quartile(x, 3)
        outsideIqr(i) ==
            /\ Cardinality(finite) >= 4
            /\ q3 > q1
            /\ 8 * price[i] < q1 - 3 * (q3 - q1) \/ 8 * price[i] > q3 + 3 * (q3 - q1)
        beyond(i, z) == mad > 0 /\ 6745 * off(i) > z * 1000 * mad    \* robust_z > z / 10
        possible(i) == 100 * price[i] \in 101 * Unit..10000 * Unit
        extreme(i) == 2 * off(i) > center /\ (beyond(i, 60) \/ outsideIqr(i) \/ mad = 0)
        deviant(i) == 5 * off(i) > center \/ beyond(i, 35)
    IN  [i \in DOMAIN price |->
            IF finite = {} \/ ~possible(i) \/ extreme(i) THEN "REJECTED"
            ELSE IF deviant(i) THEN "SUSPECT" ELSE "VALID"]

Agreeing(price) == {i \in DOMAIN price : ClassifyPrices(price)[i] = "VALID"}

---------------------------------------------------------------------------
\* remove_vig: the share of selection s is Weight(m, s) / Overround(m).
Weight(market, s) == FoldFunctionOnSet(LAMBDA a, b : a * b, 1, market, DOMAIN market \ {s})
Overround(market) == SumFunction([s \in DOMAIN market |-> Weight(market, s)])

\* consensus_no_vig: the mean over the books is ConsensusOf(books, s) / Common(books).
Common(books) ==
    Cardinality(DOMAIN books)
        * FoldFunction(LAMBDA a, b : a * b, 1, [b \in DOMAIN books |-> Overround(books[b])])
ConsensusOf(books, s) ==
    SumFunction([b \in DOMAIN books |->
        Weight(books[b], s)
            * FoldFunctionOnSet(LAMBDA x, y : x * y, 1,
                                [c \in DOMAIN books |-> Overround(books[c])],
                                DOMAIN books \ {b})])

\* evaluate_value: VALUE, or the first rule that fails.
EvaluateValue(probability, books, s, best, confidence, quality) ==
    IF quality < MinQuality THEN "INSUFFICIENT_DATA"
    ELSE IF confidence < MinConfidence THEN "LOW_CONFIDENCE"
    ELSE IF 100 * best < MinOdds * Unit THEN "PRICE_TOO_SHORT"
    ELSE IF (probability - MinEdge) * Common(books) < 100 * ConsensusOf(books, s)
         THEN "EDGE_BELOW_THRESHOLD"
    ELSE IF probability * best < (100 + MinEv) * Unit THEN "EV_BELOW_THRESHOLD"
    ELSE "QUALIFIED_VALUE"

\* round() of n / d, to even when it is half way.
Rounded(n, d) ==
    LET q == n \div d
        r == n % d
    IN  IF 2 * r < d \/ (2 * r = d /\ q % 2 = 0) THEN q ELSE q + 1

===========================================================================
