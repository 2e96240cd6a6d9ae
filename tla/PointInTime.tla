---------------------------- MODULE PointInTime ----------------------------
(***************************************************************************)
(* research/features.py and research/validation.py: which evidence a       *)
(* training sample may use, and how a dataset is cut into training,        *)
(* calibration and test parts, while results and snapshots keep arriving.  *)
(*                                                                         *)
(* Results are archived by backfills and syncs, which exclude each other   *)
(* (OneExecution of AnalysisJobs): there is one open transaction, whose    *)
(* rows are stamped when they are observed and visible when it commits.    *)
(* What a sample's features are computed from stands for the features.     *)
(***************************************************************************)
EXTENDS Naturals, FiniteSets

CONSTANTS
    Match,          \* event ids, numbered in their order
    Sides,          \* Sides[m]: the two participants
    Starts,         \* Starts[m]: kickoffs that versions of its result may give
    Source,         \* providers of context snapshots
    MinHistory,     \* min_history, min_player of build_sample
    MinPlayer,
    MinSamples,     \* 30 in the code
    MinPart,        \* 10 in the code
    MinTrain,       \* min_train_size, test_size of walk_forward_splits
    TestSize,
    MaxTime,        \* bound on the clock
    MaxVersions,    \* MaxVersions[m]: bound on the versions of its result
    MaxSnapshots    \* MaxSnapshots[m]: bound on the snapshots of each of its sides

ASSUME MatchAssumption == Match \subseteq Nat /\ \A m \in Match : Starts[m] \subseteq Nat

ASSUME MinimumAssumption ==
    /\ MinHistory \in Nat /\ MinPlayer \in Nat /\ MinSamples \in Nat /\ MinPart \in Nat
    /\ MinTrain \in Nat \ {0} /\ TestSize \in Nat \ {0}
    /\ MaxTime \in Nat /\ MaxVersions \in [Match -> Nat] /\ MaxSnapshots \in [Match -> Nat]

VARIABLES
    now,
    results,    \* archived results: event, kickoff and available_at
    snapshots,  \* archived context: event, side, provider and when it was available
    written     \* rows of the open transaction, of either kind

vars == <<now, results, snapshots, written>>

ResultRow == [kind : {"history"}, match : Match, start : Nat, at : Nat]
SnapshotRow == [kind : {"context"}, match : Match, side : {"home", "away"}, by : Source, at : Nat]

Init == now = 0 /\ results = {} /\ snapshots = {} /\ written = {}

---------------------------------------------------------------------------
(* Archiving *)

Tick == now < MaxTime /\ now' = now + 1 /\ UNCHANGED <<results, snapshots, written>>

\* persist_result: the result of a match that has begun, stamped now.  A payload seen
\* before adds nothing; a corrected one is another row, later than the first (the clock
\* is finer than a request).
Observe(m, start) ==
    LET versions == {r \in results \cup written : r.kind = "history" /\ r.match = m}
    IN  /\ start < now
        /\ Cardinality(versions) < MaxVersions[m]
        /\ \A r \in versions : r.at < now
        /\ written' = written \cup
               {[kind |-> "history", match |-> m, start |-> start, at |-> now]}
        /\ UNCHANGED <<now, results, snapshots>>

\* The snapshot of a participant's ranking or team, stamped when it was retrieved.  Rows
\* marked post_match, and those without provenance, are never evidence and are left out; one
\* that says what the last one did is not written.
ContextRow(m, side, p) == [kind |-> "context", match |-> m, side |-> side, by |-> p, at |-> now]

Snapshot(m, side, p) ==
    /\ \E start \in Starts[m] : now < start
    /\ Cardinality({r \in snapshots \cup written :
                       r.kind = "context" /\ r.match = m /\ r.side = side}) < MaxSnapshots[m]
    /\ written' = written \cup {ContextRow(m, side, p)}
    /\ UNCHANGED <<now, results, snapshots>>

Commit ==
    /\ results' = results \cup {r \in written : r.kind = "history"}
    /\ snapshots' = snapshots \cup {r \in written : r.kind = "context"}
    /\ written' = {}
    /\ UNCHANGED now

Rollback == written' = {} /\ UNCHANGED <<now, results, snapshots>>

Next ==
    \/ Tick \/ Commit \/ Rollback
    \/ \E m \in Match : \E start \in Starts[m] : Observe(m, start)
    \/ \E m \in Match, side \in {"home", "away"}, p \in Source : Snapshot(m, side, p)

Spec == Init /\ [][Next]_vars

---------------------------------------------------------------------------
(* A dataset of the archive h with the context c *)

\* Rows no later one of the same match replaces.
Latest(rows) == {r \in rows : \A q \in rows : q.match = r.match => q.at <= r.at}

\* Mutant: only kickoffs are compared.
Eligible_ByKickoff(h, at) == Latest({r \in h : r.start < at})

\* eligible_history: of each match, the latest version available before the cutoff.
Eligible(h, at) == Latest({r \in h : r.start < at /\ r.at < at})

\* eligible_context: of each side, the latest row before the cutoff, unless two are.
EligibleContext(c, m, at) ==
    LET known == {r \in c : r.match = m /\ r.at < at}
    IN  {r \in known : \A q \in known : q.side = r.side /\ q # r => q.at < r.at}

\* _apply_*_context: both sides, from one provider, or nothing.
UsedContext(c, m, at) ==
    LET rows == EligibleContext(c, m, at)
    IN  IF \E a, b \in rows : a.side = "home" /\ b.side = "away" /\ a.by = b.by THEN rows ELSE {}

\* The minimums of build_sample (those on home, away and league matches are of this kind).
Enough(prior, m) ==
    /\ Cardinality(prior) >= MinHistory
    /\ \A p \in Sides[m] : Cardinality({r \in prior : p \in Sides[r.match]}) >= MinPlayer

\* build_sample, for the latest version t of a match.
Sample(h, c, t) ==
    [match |-> t.match, start |-> t.start, label |-> t.at,
     history |-> Eligible(h, t.start), context |-> UsedContext(c, t.match, t.start)]

\* build_dataset.
Dataset(h, c) ==
    {Sample(h, c, t) : t \in {r \in Latest(h) : Enough(Eligible(h, r.start), r.match)}}

---------------------------------------------------------------------------
(* train_baseline and validate.  The index of a sample is its rank. *)

Precedes(s, t) == s.start < t.start \/ (s.start = t.start /\ s.match < t.match)
Rank(d, s) == Cardinality({t \in d : Precedes(t, s)})

AtLeast(a, b) == IF a < b THEN b ELSE a
Split(d) == AtLeast(1, (6 * Cardinality(d)) \div 10)
CalibrationEnd(d) == AtLeast(Split(d) + 1, (8 * Cardinality(d)) \div 10)

\* Mutant: labels may be known after calibration has begun.
Training_AnyLabel(d) == {s \in d : Rank(d, s) < Split(d)}

\* Labels known before the first match of the other parts.
Training(d) ==
    {s \in d : /\ Rank(d, s) < Split(d)
               /\ \A t \in d : Rank(d, t) >= Split(d) => s.label < t.start}

\* Mutant: only kickoffs are compared, and equal ones pass.
Calibration_ByKickoff(d) ==
    {s \in d : /\ Rank(d, s) >= Split(d) /\ Rank(d, s) < CalibrationEnd(d)
               /\ \A t \in d : Rank(d, t) >= CalibrationEnd(d) => s.start <= t.start}

Calibration(d) ==
    {s \in d : /\ Rank(d, s) >= Split(d) /\ Rank(d, s) < CalibrationEnd(d)
               /\ \A t \in d : Rank(d, t) >= CalibrationEnd(d) =>
                      s.label < t.start /\ s.start < t.start}

\* held_out: from the first kickoff of the last part on.
HeldOut(d) == {s \in d : \E t \in d : Rank(d, t) >= CalibrationEnd(d) /\ t.start <= s.start}

Trained(d) ==
    /\ Cardinality(d) >= MinSamples
    /\ Cardinality(Training(d)) >= MinPart /\ Cardinality(Calibration(d)) >= MinPart

---------------------------------------------------------------------------
(* walk_forward_splits, over the kickoffs of a dataset *)

Start(d, i) == (CHOOSE s \in d : Rank(d, s) = i).start

\* Mutant: a fold ends where it is full, whatever kickoffs tie there.
Border_Straddles(d, i) == IF i < Cardinality(d) THEN i ELSE Cardinality(d)

\* The first place from i on that does not separate equal kickoffs.
Border(d, i) ==
    LET n == Cardinality(d)
        free(k) == k = n \/ Start(d, k) # Start(d, k - 1)
    IN  IF i >= n THEN n ELSE CHOOSE j \in i..n : free(j) /\ \A k \in i..(j - 1) : ~free(k)

\* Folds <<i, j>>: samples before i train, those from i to j - 1 test.
Folds(d) ==
    LET from[i \in 0..Cardinality(d)] ==
            IF i = Cardinality(d) THEN {}
            ELSE {<<i, Border(d, i + TestSize)>>} \cup from[Border(d, i + TestSize)]
    IN  from[Border(d, MinTrain)]

---------------------------------------------------------------------------
(* Properties *)

TypeOK ==
    /\ now \in Nat
    /\ IsFiniteSet(results) /\ IsFiniteSet(written)
    /\ results \subseteq ResultRow /\ snapshots \subseteq SnapshotRow
    /\ written \subseteq ResultRow \cup SnapshotRow

\* Results are stamped after their kickoff, no two versions of one at the same time, and
\* nothing is committed with a stamp earlier than that of a result committed before it.
Stamped ==
    LET rows == results \cup written
    IN  /\ \A r \in rows : r.at <= now /\ (r.kind = "history" => r.start < r.at)
        /\ \A q, r \in rows :
               q.kind = "history" /\ r.kind = "history" /\ q.match = r.match /\ q.at = r.at
                   => q = r
        /\ \A r \in results, w \in written : r.at <= w.at

\* The inductive invariant: what the three properties below rest on.
IInv == TypeOK /\ Stamped

\* validation.py:128-129 never raises "Training/calibration/test overlap", whatever kickoffs
\* tie and whatever results are corrected late: no match is in two parts.
PartsApart ==
    LET d == Dataset(results, snapshots)
        ids(part) == {s.match : s \in part}
    IN  Trained(d) => /\ ids(HeldOut(d)) \cap ids(Training(d) \cup Calibration(d)) = {}
                      /\ ids(Training(d)) \cap ids(Calibration(d)) = {}

\* docs/RESEARCH.md "Labels used in calibration must be observed before test begins": a
\* label a model was fitted with was known before any match it is evaluated on.
LabelsKnown ==
    LET d == Dataset(results, snapshots)
    IN  Trained(d) =>
            /\ \A s \in Training(d) \cup Calibration(d), t \in HeldOut(d) : s.label < t.start
            /\ \A s \in Training(d), t \in Calibration(d) : s.label < t.start

\* "Strictly chronological expanding-window splits": a fold trains on matches that began
\* before all those it tests, and after the first border every match is tested once,
\* whatever kickoffs tie.
FoldsApart ==
    LET d == Dataset(results, snapshots)
        test(f) == {s \in d : Rank(d, s) \in f[1]..(f[2] - 1)}
        train(f) == {s \in d : Rank(d, s) < f[1]}
    IN  /\ \A f \in Folds(d) : \A s \in train(f), t \in test(f) : s.start < t.start
        /\ \A s \in d : Cardinality({f \in Folds(d) : s \in test(f)}) =
                (IF Rank(d, s) < Border(d, MinTrain) THEN 0 ELSE 1)

\* Once a match is in a dataset, its features stay what they are in every later one, unless
\* its kickoff is corrected: no commit adds evidence to the past.
PastIsFrozen ==
    [][\A s \in Dataset(results, snapshots), t \in Dataset(results', snapshots') :
          s.match = t.match /\ s.start = t.start =>
              s.history = t.history /\ s.context = t.context]_vars

===========================================================================
