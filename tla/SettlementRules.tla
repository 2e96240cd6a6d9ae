-------------------------- MODULE SettlementRules --------------------------
(***************************************************************************)
(* services/settlement.py: the result of one bet on one finished match,    *)
(* and analytics/bankroll: what that result pays.                          *)
(*                                                                         *)
(* A market line is a whole number of fortieths of a point: Quarter is a   *)
(* quarter line, and what lies between is a line off the grid, which       *)
(* round() takes to the nearest quarter, ties to even.  Odds are in        *)
(* hundredths, and profits are doubled (and in hundredths), so that half   *)
(* of a stake is a whole number.                                           *)
(***************************************************************************)
EXTENDS Integers

Quarter == 10
Point == 4 * Quarter
Even == 100             \* decimal odds 1.00

Result == {"WIN", "HALF_WIN", "PUSH", "HALF_LOSS", "LOSS"}

\* value > 0, value < 0 or neither.
SingleLineResult(value) ==
    IF value > 0 THEN "WIN" ELSE IF value < 0 THEN "LOSS" ELSE "PUSH"

\* Mutant: half quarters are rounded up.
RoundQuarter_HalfUp(line) ==
    LET q == line \div Quarter
        r == line % Quarter
    IN  IF 2 * r < Quarter THEN q ELSE q + 1

\* round(point * 4), to even when it is half way.
RoundQuarter(line) ==
    LET q == line \div Quarter
        r == line % Quarter
    IN  IF 2 * r < Quarter \/ (2 * r = Quarter /\ q % 2 = 0) THEN q ELSE q + 1

IsSplit(line) == RoundQuarter(line) % 2 # 0

\* _asian_components: an odd quarter is a bet on both neighbouring half lines.
Lower(line) == Quarter * (RoundQuarter(line) - 1)
Upper(line) == Quarter * (RoundQuarter(line) + 1)

Score(result) == IF result = "WIN" THEN 1 ELSE IF result = "LOSS" THEN -1 ELSE 0

CombineAsian(a, b) ==
    LET total == Score(a) + Score(b)
    IN  IF total = 2 THEN "WIN" ELSE IF total = 1 THEN "HALF_WIN"
        ELSE IF total = -1 THEN "HALF_LOSS" ELSE IF total = -2 THEN "LOSS" ELSE "PUSH"

\* A bet that wins on a component of its line if margin + sign * component > 0.
LineResult(margin, sign, line) ==
    IF IsSplit(line)
    THEN CombineAsian(SingleLineResult(margin + sign * Lower(line)),
                      SingleLineResult(margin + sign * Upper(line)))
    ELSE SingleLineResult(margin + sign * line)

---------------------------------------------------------------------------
(* settle_market, for a known market and a selection it knows.  Scores are *)
(* present; winner is the provider's winner, "none" if it named none.      *)

\* MONEYLINE and 1X2.
MoneylineResult(selection, home, away, winner) ==
    LET w == IF winner # "none" THEN winner
             ELSE IF home > away THEN "home" ELSE IF away > home THEN "away" ELSE "draw"
    IN  IF selection = w THEN "WIN" ELSE "LOSS"

\* Mutant: "under" is settled as "over".
TotalsResult_AlwaysOver(selection, home, away, line) ==
    LineResult((home + away) * Point, -1, line)

\* TOTALS: the total beats the line, or the line the total.
TotalsResult(selection, home, away, line) ==
    IF selection = "over" THEN LineResult((home + away) * Point, -1, line)
    ELSE LineResult(-((home + away) * Point), 1, line)

\* HANDICAP: the line is added to the score of the side the bet is on.
HandicapResult(selection, home, away, line) ==
    LineResult((IF selection = "home" THEN home - away ELSE away - home) * Point, 1, line)

\* Mutant: a half loss costs the whole stake.
SettleProfit_FullLoss(result, stake, odds) ==
    IF result = "WIN" THEN 2 * stake * (odds - Even)
    ELSE IF result = "HALF_WIN" THEN stake * (odds - Even)
    ELSE IF result \in {"LOSS", "HALF_LOSS"} THEN -(2 * stake * Even)
    ELSE 0

\* Twice the profit of a settled bet; a push or a void returns the stake.
SettleProfit(result, stake, odds) ==
    IF result = "WIN" THEN 2 * stake * (odds - Even)
    ELSE IF result = "HALF_WIN" THEN stake * (odds - Even)
    ELSE IF result = "HALF_LOSS" THEN -(stake * Even)
    ELSE IF result = "LOSS" THEN -(2 * stake * Even)
    ELSE 0

===========================================================================
