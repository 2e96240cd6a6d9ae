---------------------------- MODULE MCSettlement ----------------------------
(* Instances of Settlement for TLC. *)
EXTENDS Settlement

\* Lines a quarter apart and every fortieth between two of them.
Lines == {-100, -30, -20, -10, 0, 10, 20, 30, 100, 140} \cup 40..50

Picks == {[market |-> "MONEYLINE", selection |-> "home", odds |-> 190],
          [market |-> "MONEYLINE", selection |-> "draw", odds |-> 350],
          [market |-> "TOTALS", selection |-> "over", odds |-> 200],
          [market |-> "HANDICAP", selection |-> "away", odds |-> 101]}

ClosingPrices == [p \in Picks |-> IF p.market = "MONEYLINE" THEN {180, 185} ELSE {}]

=============================================================================
