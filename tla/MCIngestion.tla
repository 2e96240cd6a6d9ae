--------------------------- MODULE MCIngestion ---------------------------
(* Instances of Ingestion for TLC. *)
EXTENDS Ingestion

CONSTANTS league, cup, tennis,      \* matches
          fixtures, results, odds   \* providers

\* A league match that is moved by ten minutes and again, a youth match of the clubs a minute after its first
\* time, and a tennis match.
Plans ==
    [m \in Match |->
        CASE m = league -> [sport |-> "football", home |-> "A", away |-> "B", comp |-> "L",
                            times |-> <<100, 120, 300>>]
          [] m = cup -> [sport |-> "football", home |-> "A", away |-> "B", comp |-> "C",
                         times |-> <<101>>]
          [] OTHER -> [sport |-> "tennis", home |-> "X", away |-> "Y", comp |-> "T",
                       times |-> <<100, 101>>]]

\* The league match moves once.
ShortPlans == [m \in Match |-> [Plans[m] EXCEPT !.times = SubSeq(@, 1, Min({Len(@), 2}))]]

\* The two fixture providers give the same ids to other participants; the_odds_api has none.
Ids == [p \in Provider |->
           CASE p = fixtures -> [A |-> 1, B |-> 2, X |-> 3, Y |-> 4]
             [] p = results -> [A |-> 2, B |-> 3, X |-> 4, Y |-> 5]
             [] OTHER -> [A |-> 0, B |-> 0, X |-> 0, Y |-> 0]]

\* Names, numbered in alphabetical order.
OneName == [p \in Provider |-> [A |-> {10}, B |-> {20}, X |-> {30}, Y |-> {40}]]

\* B is renamed in the middle of the season, X is known under two names.
Renamed == [p \in Provider |-> [A |-> {10}, B |-> {20, 21}, X |-> {30}, Y |-> {40}]]

\* Keys differ between providers, names of competitions do not.
Keys == [p \in Provider |->
            CASE p = fixtures -> [L |-> "8", C |-> "9", T |-> "t"]
              [] p = results -> [L |-> "39", C |-> "40", T |-> "u"]
              [] OTHER -> [L |-> "soccer_l", C |-> "soccer_c", T |-> NoKey]]
CompNames == [p \in Provider |-> [L |-> "League", C |-> "Youth cup", T |-> "Open"]]

TennisSwapped == {<<odds, tennis>>, <<results, tennis>>}

===========================================================================
