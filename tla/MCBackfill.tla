---------------------------- MODULE MCBackfill ----------------------------
(* Instances of Backfill for TLC. *)
EXTENDS Backfill

CONSTANTS f1, f2, f3, f4, daily, weekly

\* f3 has no valid score; f4 has not been played.
KindMap == [f \in Fixture |-> CASE f = f3 -> "bad" [] f = f4 -> "open" [] OTHER -> "final"]

\* Two days: three pages, one of them empty, then one page.
DailyPages == <<<<{f1, f3}, {}, {f2}>>, <<{f4}>>>>

\* The same range in one window; a fixture moved to another page meanwhile.
WeeklyPages == <<<<{f1, f2}, {f2, f3}>>>>

BothCommands == [v \in Variant |-> IF v = daily THEN DailyPages ELSE WeeklyPages]

===========================================================================
