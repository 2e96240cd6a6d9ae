--------------------------- MODULE MCPointInTime ---------------------------
(* An instance of PointInTime and Reconstruction for TLC. *)
EXTENDS Reconstruction, TLC

\* The last kickoff may tie with the one before, and be corrected.
StartsOf == 1 :> {0} @@ 2 :> {2} @@ 3 :> {4} @@ 4 :> {4, 5}

SidesOf == [m \in Match |-> {"A", "B"}]
VersionsOf == 1 :> 2 @@ 2 :> 1 @@ 3 :> 1 @@ 4 :> 2
\* All at the same ground, the first in an earlier season.
HomeOf == [m \in Match |-> "A"]
CompetitionOf == [m \in Match |-> "L"]
SeasonOf == 1 :> 0 @@ 2 :> 1 @@ 3 :> 1 @@ 4 :> 1
SnapshotsOf == 1 :> 0 @@ 2 :> 1 @@ 3 :> 0 @@ 4 :> 0

===========================================================================
