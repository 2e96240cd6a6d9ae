--------------------------- MODULE SettlementLaws --------------------------
(***************************************************************************)
(* What a settled bet owes to the rules of the market, whatever the score: *)
(* a bet on a line, and every bet against it, while the score of the match *)
(* it is on moves.                                                         *)
(***************************************************************************)
EXTENDS SettlementRules

CONSTANTS
    Line,       \* lines offered, in fortieths
    Stake,
    Odds,       \* decimal odds in hundredths
    MaxScore    \* bound on each side's score

ASSUME OfferAssumption ==
    /\ Line \subseteq Int
    /\ Stake \subseteq Nat
    /\ Odds \subseteq {n \in Nat : n > Even}
    /\ MaxScore \in Nat

VARIABLES line, home, away

vars == <<line, home, away>>

Init == line \in Line /\ home = 0 /\ away = 0

HomeScores == home < MaxScore /\ home' = home + 1 /\ UNCHANGED <<line, away>>

AwayScores == away < MaxScore /\ away' = away + 1 /\ UNCHANGED <<line, home>>

Next == HomeScores \/ AwayScores

Spec == Init /\ [][Next]_vars

---------------------------------------------------------------------------
(* The four bets on a line.  "away" is offered at the opposite handicap. *)

Over == TotalsResult("over", home, away, line)
Under == TotalsResult("under", home, away, line)
HomeBet == HandicapResult("home", home, away, line)
AwayBet == HandicapResult("away", home, away, -line)

\* Results by how much they pay: -2 a loss to 2 a win.
Rank(result) ==
    IF result = "WIN" THEN 2 ELSE IF result = "HALF_WIN" THEN 1
    ELSE IF result = "HALF_LOSS" THEN -1 ELSE IF result = "LOSS" THEN -2 ELSE 0

---------------------------------------------------------------------------
(* Properties *)

TypeOK == line \in Int /\ home \in Nat /\ away \in Nat

\* A quarter line never pushes and no other line pays a half: the two components of a
\* quarter line are too close for a whole score to lie between them (_combine_asian).
QuartersNeverPush ==
    \A result \in {Over, Under, HomeBet, AwayBet} :
        result \in (IF IsSplit(line) THEN Result \ {"PUSH"} ELSE {"WIN", "PUSH", "LOSS"})

\* Both sides of a market agree: what one wins, wholly or by half, the other loses, also
\* for lines off the quarter grid that round() moves (_asian_components).
SidesMirror == Rank(Under) = -Rank(Over) /\ Rank(AwayBet) = -Rank(HomeBet)

\* A bet on a quarter line pays exactly what two bets of half the stake on the
\* neighbouring half lines pay (settle_profit against _combine_asian).
Half(result, stake, odds) ==
    IF result = "WIN" THEN stake * (odds - Even)
    ELSE IF result = "LOSS" THEN -(stake * Even) ELSE 0

SplitStake ==
    line % (2 * Quarter) = Quarter =>
        \A stake \in Stake, odds \in Odds :
            LET total == (home + away) * Point
                margin == (home - away) * Point
                Two(a, b) == Half(SingleLineResult(a), stake, odds)
                                + Half(SingleLineResult(b), stake, odds)
            IN  /\ SettleProfit(Over, stake, odds)
                     = Two(total - line + Quarter, total - line - Quarter)
                /\ SettleProfit(HomeBet, stake, odds)
                     = Two(margin + line - Quarter, margin + line + Quarter)

\* Exactly one selection of a 1X2 market wins, with or without a named winner.
OneWinner ==
    \A winner \in {"none", "home", "away"} :
        \E s \in {"home", "away", "draw"} :
            \A t \in {"home", "away", "draw"} :
                MoneylineResult(t, home, away, winner) = IF t = s THEN "WIN" ELSE "LOSS"

\* A score never hurts "over" or the side that scores, nor helps the bets against them.
ScoringHelps ==
    [][/\ Rank(Over') >= Rank(Over)
       /\ Rank(Under') <= Rank(Under)
       /\ home' > home => Rank(HomeBet') >= Rank(HomeBet) /\ Rank(AwayBet') <= Rank(AwayBet)
       /\ away' > away => Rank(HomeBet') <= Rank(HomeBet) /\ Rank(AwayBet') >= Rank(AwayBet)]_vars

===========================================================================
