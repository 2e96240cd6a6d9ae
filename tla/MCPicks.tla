------------------------------ MODULE MCPicks ------------------------------
(* Instances of Picks for TLC: prices are in twentieths. *)
EXTENDS Picks, TLC

CONSTANTS old, m1, b1, b2, b3, v1, v2, v3

\* The match to come is spelled differently by the two providers, and moved once.
Fixtures == [m \in Match |->
    IF m = old THEN [sport |-> "tennis_atp", starts |-> {1}, alike |-> TRUE, samples |-> 30]
    ELSE [sport |-> "tennis_atp", starts |-> {4, 5}, alike |-> FALSE, samples |-> 30]]

\* v3 was trained on features that inference does not rebuild.
Models == [v \in Version |->
    [sport |-> "tennis_atp", strict |-> v # v3, good |-> TRUE, heldOut |-> {old}, ece |-> 4,
     probability |-> [m \in Match |-> [s \in Side |->
        IF (s = "home") = (v = v1) THEN 62 ELSE 38]]]]

Price(home, away) == [home |-> home, away |-> away]
Quote(age, home, away) == [age |-> age, price |-> Price(home, away)]

\* Three books that agree; a book that corrects its last price; that price repeated; a book
\* off the market and one that quotes one side only.
Boards == {
    b1 :> Quote(0, 40, 40) @@ b2 :> Quote(0, 42, 38) @@ b3 :> Quote(0, 41, 39),
    b1 :> Quote(1, 46, 36) @@ b2 :> Quote(0, 42, 38),
    b1 :> Quote(1, 40, 40) @@ b2 :> Quote(1, 42, 38),
    b1 :> Quote(0, 40, 40) @@ b2 :> [age |-> 0, price |-> [home |-> 42]]
        @@ b3 :> Quote(0, 90, 24)}

Archived ==
    [k \in [match : {old}, book : {b1, b2}, side : Side, at : {0}] |->
        [price |-> 40, status |-> "VALID", live |-> FALSE, fetched |-> 0]]

===========================================================================
