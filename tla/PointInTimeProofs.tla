------------------------- MODULE PointInTimeProofs -------------------------
(***************************************************************************)
(* Proofs about PointInTime.  The stamp of a result is later than its      *)
(* kickoff, and whatever is committed after it is stamped no earlier: the  *)
(* cutoff of a sample is in a past that no commit reaches.                 *)
(***************************************************************************)
EXTENDS PointInTime, FiniteSetTheorems, TLAPS

\* Archived results and context are stamped in the order in which they are committed.
THEOREM ArchiveInvariant == Spec => []IInv
<1> USE MatchAssumption, MinimumAssumption DEF ResultRow, SnapshotRow
<1>1. Init => IInv
  <2>1. IsFiniteSet({})
    BY FS_EmptySet
  <2> QED BY <2>1 DEF Init, IInv, TypeOK, Stamped
<1>2. IInv /\ [Next]_vars => IInv'
  <2> SUFFICES ASSUME IInv, [Next]_vars PROVE IInv'
    OBVIOUS
  <2> USE DEF IInv, TypeOK, Stamped
  <2>1. CASE Tick
    BY <2>1 DEF Tick
  <2>2. ASSUME NEW m \in Match, NEW start \in Starts[m], Observe(m, start) PROVE IInv'
    <3> DEFINE row == [kind |-> "history", match |-> m, start |-> start, at |-> now]
    <3>1. row \in ResultRow /\ start < now
      BY <2>2 DEF Observe
    <3>2. written' = written \cup {row} /\ UNCHANGED <<now, results, snapshots>>
      BY <2>2 DEF Observe
    <3>3. \A r \in results \cup written : r.kind = "history" /\ r.match = m => r.at < now
      BY <2>2 DEF Observe
    <3>4. IsFiniteSet(written')
      BY <3>2, FS_AddElement
    <3>5. TypeOK'
      BY <3>1, <3>2, <3>4
    <3>6. Stamped'
      BY <3>1, <3>2, <3>3
    <3> QED BY <3>5, <3>6
  <2>3. ASSUME NEW m \in Match, NEW side \in {"home", "away"}, NEW p \in Source,
               Snapshot(m, side, p)
        PROVE  IInv'
    <3> DEFINE row == [kind |-> "context", match |-> m, side |-> side, by |-> p, at |-> now]
    <3>1. row \in SnapshotRow /\ row.kind = "context" /\ row.at = now
      OBVIOUS
    <3>2. written' = written \cup {row} /\ UNCHANGED <<now, results, snapshots>>
      BY <2>3 DEF Snapshot, ContextRow
    <3>3. IsFiniteSet(written')
      BY <3>2, FS_AddElement
    <3>4. TypeOK'
      BY <3>1, <3>2, <3>3
    <3>5. Stamped'
      BY <3>1, <3>2
    <3> QED BY <3>4, <3>5
  <2>4. CASE Commit
    <3>1. IsFiniteSet(results') /\ IsFiniteSet(written')
      <4>1. IsFiniteSet({r \in written : r.kind = "history"})
        BY FS_Subset
      <4> QED BY <2>4, <4>1, FS_Union, FS_EmptySet DEF Commit
    <3> QED BY <2>4, <3>1 DEF Commit
  <2>5. CASE Rollback
    BY <2>5, FS_EmptySet DEF Rollback
  <2>6. CASE UNCHANGED vars
    BY <2>6 DEF vars
  <2> QED BY <2>1, <2>2, <2>3, <2>4, <2>5, <2>6 DEF Next
<1> QED BY <1>1, <1>2, PTL DEF Spec

---------------------------------------------------------------------------
(* Datasets *)

\* A sample is made from a result that was observed after its kickoff.
LEMMA SampleIsResult ==
    ASSUME IInv, NEW s \in Dataset(results, snapshots)
    PROVE  \E r \in Latest(results) :
               /\ s = Sample(results, snapshots, r)
               /\ r \in results /\ r.kind = "history" /\ r.match \in Match
               /\ r.start \in Nat /\ r.at \in Nat /\ r.start < r.at
  BY DEF Dataset, Latest, IInv, TypeOK, Stamped, ResultRow

\* The kickoff and the label of a sample, and that it is the only one of its match.
LEMMA SampleFields ==
    ASSUME IInv, NEW s \in Dataset(results, snapshots)
    PROVE  /\ s.start \in Nat /\ s.label \in Nat /\ s.start < s.label
           /\ \A t \in Dataset(results, snapshots) : s.match = t.match => s = t
<1>1. PICK r \in Latest(results) :
          /\ s = Sample(results, snapshots, r)
          /\ r \in results /\ r.kind = "history" /\ r.match \in Match
          /\ r.start \in Nat /\ r.at \in Nat /\ r.start < r.at
  BY SampleIsResult
<1>2. s.match = r.match /\ s.start = r.start /\ s.label = r.at
  BY <1>1 DEF Sample
<1>3. ASSUME NEW t \in Dataset(results, snapshots), s.match = t.match PROVE s = t
  <2>1. PICK q \in Latest(results) :
            /\ t = Sample(results, snapshots, q)
            /\ q \in results /\ q.kind = "history" /\ q.match \in Match
            /\ q.start \in Nat /\ q.at \in Nat /\ q.start < q.at
    BY SampleIsResult
  <2>2. q.match = r.match
    BY <1>2, <1>3, <2>1 DEF Sample
  <2>3. q.at = r.at
    BY <1>1, <2>1, <2>2 DEF Latest
  <2>4. q = r
    BY <1>1, <2>1, <2>2, <2>3 DEF IInv, Stamped
  <2> QED BY <1>1, <2>1, <2>4
<1> QED BY <1>1, <1>2, <1>3

\* Samples that kickoff and match put in a line.
InLine(d) ==
    /\ IsFiniteSet(d)
    /\ \A s \in d : s.start \in Nat /\ s.match \in Nat
    /\ \A s, t \in d : s.match = t.match => s = t

\* A dataset is such a set.
LEMMA DatasetInLine == ASSUME IInv PROVE InLine(Dataset(results, snapshots))
<1> DEFINE d == Dataset(results, snapshots)
           base == {r \in Latest(results) : Enough(Eligible(results, r.start), r.match)}
<1>1. IsFiniteSet(base)
  <2>1. base \subseteq results /\ IsFiniteSet(results)
    BY DEF Latest, IInv, TypeOK
  <2> QED BY <2>1, FS_Subset
<1>2. IsFiniteSet(d)
  <2> DEFINE sampleOf == [r \in base |-> Sample(results, snapshots, r)]
  <2>1. d = {sampleOf[r] : r \in base}
    BY DEF Dataset
  <2>2. sampleOf \in Surjection(base, d)
    BY <2>1 DEF Surjection
  <2> QED BY <1>1, <2>2, FS_Surjection
<1>3. \A s \in d : s.start \in Nat /\ \A t \in d : s.match = t.match => s = t
  BY SampleFields
<1>4. ASSUME NEW s \in d PROVE s.match \in Nat
  <2>1. PICK r \in Latest(results) : s = Sample(results, snapshots, r) /\ r.match \in Match
    BY SampleIsResult
  <2> QED BY <2>1, MatchAssumption DEF Sample
<1> QED BY <1>2, <1>3, <1>4 DEF InLine

\* The parts of a dataset are in the order of their ranks.
LEMMA PartsInOrder ==
    ASSUME IInv
    PROVE  LET d == Dataset(results, snapshots)
           IN  /\ Split(d) \in Nat /\ CalibrationEnd(d) \in Nat
               /\ Split(d) < CalibrationEnd(d)
               /\ \A s : Rank(d, s) \in Nat
<1> DEFINE d == Dataset(results, snapshots)
<1>1. IsFiniteSet(d)
  BY DatasetInLine DEF InLine
<1> HIDE DEF d
<1>2. Cardinality(d) \in Nat
  BY <1>1, FS_CardinalityType
<1>3. \A s : Rank(d, s) \in Nat
  <2> TAKE s
  <2>1. IsFiniteSet({t \in d : Precedes(t, s)})
    BY <1>1, FS_Subset
  <2> QED BY <2>1, FS_CardinalityType DEF Rank
<1>4. (6 * Cardinality(d)) \div 10 \in Nat /\ (8 * Cardinality(d)) \div 10 \in Nat
  BY <1>2
<1>5. Split(d) \in Nat
  BY <1>4 DEF Split, AtLeast
<1>6. CalibrationEnd(d) \in Nat /\ Split(d) < CalibrationEnd(d)
  BY <1>4, <1>5 DEF CalibrationEnd, AtLeast
<1> QED BY <1>3, <1>5, <1>6 DEF d

\* The labels of the training and calibration parts precede every held out kickoff.
LEMMA LabelsPrecede ==
    ASSUME IInv
    PROVE  LET d == Dataset(results, snapshots)
           IN  /\ \A s \in Training(d) \cup Calibration(d), t \in HeldOut(d) : s.label < t.start
               /\ \A s \in Training(d), t \in Calibration(d) : s.label < t.start
<1> DEFINE d == Dataset(results, snapshots)
<1>1. /\ Split(d) \in Nat /\ CalibrationEnd(d) \in Nat /\ Split(d) < CalibrationEnd(d)
      /\ \A s : Rank(d, s) \in Nat
  BY PartsInOrder
<1>2. \A s \in d : s.start \in Nat /\ s.label \in Nat
  BY SampleFields
<1> HIDE DEF d
<1>3. ASSUME NEW s \in Training(d) \cup Calibration(d), NEW t \in HeldOut(d)
      PROVE  s.label < t.start
  <2>1. PICK first \in d : Rank(d, first) >= CalibrationEnd(d) /\ first.start <= t.start
    BY <1>3 DEF HeldOut
  <2>2. Rank(d, first) >= Split(d)
    BY <1>1, <2>1
  <2>3. s.label < first.start
    BY <1>3, <2>1, <2>2 DEF Training, Calibration
  <2>4. s \in d /\ t \in d
    BY <1>3 DEF Training, Calibration, HeldOut
  <2> QED BY <1>2, <2>1, <2>3, <2>4
<1>4. ASSUME NEW s \in Training(d), NEW t \in Calibration(d) PROVE s.label < t.start
  BY DEF Training, Calibration
<1> QED BY <1>3, <1>4 DEF d

\* docs/RESEARCH.md: labels are observed before the test begins, for every archive.
THEOREM LabelsAlwaysKnown == Spec => []LabelsKnown
<1>1. IInv => LabelsKnown
  BY LabelsPrecede DEF LabelsKnown
<1> QED BY <1>1, ArchiveInvariant, PTL

\* The overlap validate() raises an error for cannot occur, for every archive.
THEOREM PartsAlwaysApart == Spec => []PartsApart
<1>1. ASSUME IInv PROVE PartsApart
  <2> DEFINE d == Dataset(results, snapshots)
  <2>1. /\ \A s \in d : s.start \in Nat /\ s.label \in Nat /\ s.start < s.label
        /\ \A s, t \in d : s.match = t.match => s = t
    BY <1>1, SampleFields
  <2>2. /\ \A s \in Training(d) \cup Calibration(d), t \in HeldOut(d) : s.label < t.start
        /\ \A s \in Training(d), t \in Calibration(d) : s.label < t.start
    BY <1>1, LabelsPrecede
  <2> HIDE DEF d
  <2>3. Training(d) \subseteq d /\ Calibration(d) \subseteq d /\ HeldOut(d) \subseteq d
    BY DEF Training, Calibration, HeldOut
  <2>4. \A s \in Training(d) \cup Calibration(d), t \in HeldOut(d) : s.match # t.match
    BY <2>1, <2>2, <2>3
  <2>5. \A s \in Training(d), t \in Calibration(d) : s.match # t.match
    BY <2>1, <2>2, <2>3
  <2> QED BY <2>4, <2>5 DEF PartsApart, d
<1> QED BY <1>1, ArchiveInvariant, PTL

---------------------------------------------------------------------------
(* Evidence *)

\* No step changes the rows before the kickoff of a committed result.
LEMMA PastRows ==
    ASSUME IInv, [Next]_vars, NEW x \in results
    PROVE  /\ \A r : r \in results /\ r.at < x.start <=> r \in results' /\ r.at < x.start
           /\ \A r : r \in snapshots /\ r.at < x.start <=> r \in snapshots' /\ r.at < x.start
<1>1. x.start \in Nat /\ x.at \in Nat /\ x.start < x.at
  BY DEF IInv, TypeOK, Stamped, ResultRow
<1>2. \A w \in written : w.at \in Nat /\ x.at <= w.at
  BY DEF IInv, TypeOK, Stamped, ResultRow, SnapshotRow
<1>3. \A w \in written : ~(w.at < x.start)
  BY <1>1, <1>2
<1>4. CASE Commit
  BY <1>3, <1>4 DEF Commit
<1>5. CASE UNCHANGED <<results, snapshots>>
  BY <1>5
<1>6. Commit \/ UNCHANGED <<results, snapshots>>
  BY DEF Next, Tick, Rollback, Observe, Snapshot, vars
<1> QED BY <1>4, <1>5, <1>6

\* The features of a match in a dataset are the same in every later dataset.
THEOREM PastAlwaysFrozen == Spec => PastIsFrozen
<1> DEFINE Frozen ==
        \A s \in Dataset(results, snapshots), t \in Dataset(results', snapshots') :
            s.match = t.match /\ s.start = t.start =>
                s.history = t.history /\ s.context = t.context
<1>1. ASSUME IInv, [Next]_vars PROVE Frozen
  <2> SUFFICES ASSUME NEW s \in Dataset(results, snapshots),
                      NEW t \in Dataset(results', snapshots'),
                      s.match = t.match, s.start = t.start
               PROVE  s.history = t.history /\ s.context = t.context
    OBVIOUS
  <2>1. PICK x \in results : s = Sample(results, snapshots, x)
    BY <1>1, SampleIsResult
  <2>2. PICK y : t = Sample(results', snapshots', y)
    BY DEF Dataset
  <2>3. y.match = x.match /\ y.start = x.start
    BY <2>1, <2>2 DEF Sample
  <2>4. /\ \A r : r \in results /\ r.at < x.start <=> r \in results' /\ r.at < x.start
        /\ \A r : r \in snapshots /\ r.at < x.start <=> r \in snapshots' /\ r.at < x.start
    BY <1>1, PastRows
  <2>5. Eligible(results, x.start) = Eligible(results', x.start)
    <3>1. {r \in results : r.start < x.start /\ r.at < x.start}
              = {r \in results' : r.start < x.start /\ r.at < x.start}
      BY <2>4
    <3> QED BY <3>1 DEF Eligible
  <2>6. UsedContext(snapshots, x.match, x.start) = UsedContext(snapshots', x.match, x.start)
    <3>1. {r \in snapshots : r.match = x.match /\ r.at < x.start}
              = {r \in snapshots' : r.match = x.match /\ r.at < x.start}
      BY <2>4
    <3>2. EligibleContext(snapshots, x.match, x.start)
              = EligibleContext(snapshots', x.match, x.start)
      BY <3>1 DEF EligibleContext
    <3> QED BY <3>2 DEF UsedContext
  <2>7. s.history = Eligible(results, x.start) /\ t.history = Eligible(results', x.start)
    BY <2>1, <2>2, <2>3 DEF Sample
  <2>8. /\ s.context = UsedContext(snapshots, x.match, x.start)
        /\ t.context = UsedContext(snapshots', x.match, x.start)
    BY <2>1, <2>2, <2>3 DEF Sample
  <2> QED BY <2>5, <2>6, <2>7, <2>8
<1>2. [][Next]_vars /\ []IInv => [][Frozen]_vars
  BY <1>1, PTL
<1> QED BY <1>2, ArchiveInvariant, PTL DEF Spec, PastIsFrozen

---------------------------------------------------------------------------
(* Folds *)

\* A set of natural numbers has a least one.
LEMMA Least ==
    ASSUME NEW S \in SUBSET Nat, S # {}
    PROVE  \E m \in S : \A y \in S : m <= y
<1>1. PICK m \in S : \A y \in S : ~(<<y, m>> \in OpToRel(<, Nat))
  BY NatLessThanWellFounded, WFMin
<1>2. \A y \in S : ~(y < m)
  BY <1>1 DEF OpToRel
<1> QED BY <1>2

\* The rank follows the order of the samples.
LEMMA RankFollows ==
    ASSUME NEW d, InLine(d), NEW s \in d, NEW t \in d
    PROVE  /\ Rank(d, s) \in 0..Cardinality(d) - 1
           /\ Precedes(s, t) => Rank(d, s) < Rank(d, t)
           /\ s = t \/ Precedes(s, t) \/ Precedes(t, s)
<1> DEFINE before(u) == {r \in d : Precedes(r, u)}
<1>1. /\ Cardinality(d) \in Nat
      /\ \A u : IsFiniteSet(before(u)) /\ Cardinality(before(u)) \in Nat
  <2>1. \A u : before(u) \in SUBSET d
    OBVIOUS
  <2> HIDE DEF before
  <2> QED BY <2>1, FS_Subset, FS_CardinalityType DEF InLine
<1>2. \A u \in d : ~Precedes(u, u)
  BY DEF InLine, Precedes
<1>3. Rank(d, s) \in 0..Cardinality(d) - 1
  <2>1. before(s) \in SUBSET d /\ before(s) # d
    BY <1>2
  <2>2. Cardinality(before(s)) <= Cardinality(d) /\ Cardinality(before(s)) # Cardinality(d)
    <3> HIDE DEF before
    <3> QED BY <2>1, FS_Subset DEF InLine
  <2> QED BY <1>1, <2>2 DEF Rank
<1>4. ASSUME Precedes(s, t) PROVE Rank(d, s) < Rank(d, t)
  <2>1. \A r \in d : Precedes(r, s) => Precedes(r, t)
    BY <1>4 DEF InLine, Precedes
  <2>2. before(s) \in SUBSET before(t) /\ s \in before(t) /\ s \notin before(s)
    BY <1>2, <1>4, <2>1
  <2>3. /\ Cardinality(before(s)) <= Cardinality(before(t))
        /\ Cardinality(before(s)) # Cardinality(before(t))
    <3> HIDE DEF before
    <3>1. IsFiniteSet(before(t)) /\ before(s) # before(t)
      BY <1>1, <2>2
    <3> QED BY <2>2, <3>1, FS_Subset
  <2> QED BY <1>1, <2>3 DEF Rank
<1>5. s = t \/ Precedes(s, t) \/ Precedes(t, s)
  BY DEF InLine, Precedes
<1> QED BY <1>3, <1>4, <1>5

\* Every place in the line is taken.
LEMMA RankTaken ==
    ASSUME NEW d, InLine(d), NEW i \in 0..Cardinality(d) - 1
    PROVE  \E s \in d : Rank(d, s) = i
<1> DEFINE n == Cardinality(d)
           place == [s \in d |-> Rank(d, s)]
<1>1. n \in Nat
  BY FS_CardinalityType DEF InLine
<1>2. place \in [d -> 0..n - 1]
  BY RankFollows
<1>3. ASSUME NEW s \in d, NEW t \in d, place[s] = place[t] PROVE s = t
  <2>1. Rank(d, s) = Rank(d, t) /\ Rank(d, s) \in Int
    BY <1>2, <1>3
  <2> QED BY <2>1, RankFollows
<1>4. place \in Injection(d, 0..n - 1)
  BY <1>2, <1>3 DEF Injection, IsInjective
<1>5. IsFiniteSet(0..n - 1) /\ Cardinality(0..n - 1) = n
  BY <1>1, FS_Interval
<1>6. place \in Surjection(d, 0..n - 1)
  BY <1>4, <1>5, FS_Injection
<1> QED BY <1>6 DEF Surjection

\* Equal kickoffs are on one side of place k.
Free(d, k) == k = Cardinality(d) \/ Start(d, k) # Start(d, k - 1)

\* A border is a free place, not before the one it is asked for.
LEMMA BorderFree ==
    ASSUME NEW d, IsFiniteSet(d), NEW i \in Nat
    PROVE  /\ Border(d, i) \in 0..Cardinality(d)
           /\ i < Cardinality(d) => i <= Border(d, i)
           /\ i >= Cardinality(d) => Border(d, i) = Cardinality(d)
           /\ Free(d, Border(d, i))
<1> DEFINE n == Cardinality(d)
           places == {j \in i..n : Free(d, j)}
<1>1. n \in Nat
  BY FS_CardinalityType
<1>2. CASE i >= n
  BY <1>1, <1>2 DEF Border, Free
<1>3. CASE i < n
  <2>1. places \in SUBSET Nat /\ n \in places
    BY <1>1, <1>3 DEF Free
  <2>2. PICK m \in places : \A y \in places : m <= y
    <3> HIDE DEF places
    <3> QED BY <2>1, Least
  <2>3. m \in i..n /\ Free(d, m) /\ \A k \in i..(m - 1) : ~Free(d, k)
    BY <1>1, <2>2
  <2>4. Border(d, i) = CHOOSE j \in i..n : Free(d, j) /\ \A k \in i..(j - 1) : ~Free(d, k)
    BY <1>1, <1>3 DEF Border, Free
  <2>5. Border(d, i) \in i..n /\ Free(d, Border(d, i))
    BY <2>3, <2>4
  <2> QED BY <1>1, <1>3, <2>5
<1> QED BY <1>1, <1>2, <1>3

\* A free place separates kickoffs.
LEMMA FreeSeparates ==
    ASSUME NEW d, InLine(d), NEW k \in Nat \ {0}, Free(d, k), NEW s \in d, NEW t \in d,
           Rank(d, s) < k, Rank(d, t) >= k
    PROVE  s.start < t.start
<1> DEFINE n == Cardinality(d)
<1>1. n \in Nat
  BY FS_CardinalityType DEF InLine
<1>2. Rank(d, s) \in 0..n - 1 /\ Rank(d, t) \in 0..n - 1
  BY RankFollows
<1>3. k \in 0..n - 1 /\ k - 1 \in 0..n - 1 /\ k # n
  BY <1>1, <1>2
<1>4. (\E r \in d : Rank(d, r) = k) /\ (\E r \in d : Rank(d, r) = k - 1)
  BY <1>3, RankTaken
<1>5. PICK a \in d : Rank(d, a) = k - 1 /\ a.start = Start(d, k - 1)
  BY <1>4 DEF Start
<1>6. PICK b \in d : Rank(d, b) = k /\ b.start = Start(d, k)
  BY <1>4 DEF Start
<1>7. a.start # b.start
  BY <1>3, <1>5, <1>6 DEF Free
<1>8. ASSUME NEW u \in d, NEW v \in d, Rank(d, u) <= Rank(d, v) PROVE u.start <= v.start
  <2>1. ~Precedes(v, u)
    <3>1. Rank(d, u) \in Int /\ Rank(d, v) \in Int
      BY RankFollows
    <3> QED BY <1>8, <3>1, RankFollows
  <2>2. u.start \in Nat /\ v.start \in Nat
    BY DEF InLine
  <2> QED BY <2>1, <2>2 DEF Precedes
<1>9. s.start <= a.start /\ a.start <= b.start /\ b.start <= t.start
  <2>1. Rank(d, s) <= Rank(d, a) /\ Rank(d, a) <= Rank(d, b) /\ Rank(d, b) <= Rank(d, t)
    BY <1>2, <1>5, <1>6
  <2> QED BY <1>8, <2>1
<1>10. s.start \in Nat /\ t.start \in Nat /\ a.start \in Nat /\ b.start \in Nat
  BY DEF InLine
<1> QED BY <1>7, <1>9, <1>10

\* The recursion of Folds, of the folds from each place on.
FoldsFrom(d, from) ==
    from = [i \in 0..Cardinality(d) |->
                IF i = Cardinality(d) THEN {}
                ELSE {<<i, Border(d, i + TestSize)>>} \cup from[Border(d, i + TestSize)]]

\* The next border is further on.
LEMMA NextBorder ==
    ASSUME NEW d, IsFiniteSet(d), NEW i \in 0..Cardinality(d) - 1
    PROVE  /\ Border(d, i + TestSize) \in i + 1..Cardinality(d)
           /\ Free(d, Border(d, i + TestSize))
<1>1. TestSize \in Nat \ {0} /\ Cardinality(d) \in Nat /\ i + TestSize \in Nat
  BY MinimumAssumption, FS_CardinalityType
<1> QED BY <1>1, BorderFree

\* So the recursion ends: a function as it demands exists from the last place on, and from
\* each place before one from which it exists.
LEMMA FoldsFollow ==
    ASSUME NEW d, IsFiniteSet(d)
    PROVE  \E from : FoldsFrom(d, from) /\ Folds(d) = from[Border(d, MinTrain)]
<1> DEFINE n == Cardinality(d)
           next(i) == Border(d, i + TestSize)
           Follows(f, m) ==
               \A i \in n - m..n : f[i] = IF i = n THEN {} ELSE {<<i, next(i)>>} \cup f[next(i)]
           Missing == {m \in 0..n : ~\E f : Follows(f, m)}
<1>1. n \in Nat
  BY FS_CardinalityType
<1>2. \A i \in 0..n - 1 : next(i) \in i + 1..n
  BY NextBorder
<1> HIDE DEF n, next
<1>3. \E f : Follows(f, n)
  <2>1. SUFFICES ASSUME Missing # {} PROVE FALSE
    <3>1. n \in 0..n
      BY <1>1
    <3> HIDE DEF Follows
    <3> QED BY <2>1, <3>1
  <2>2. PICK m \in Missing : \A y \in Missing : m <= y
    <3>1. Missing \in SUBSET Nat
      BY <1>1
    <3> HIDE DEF Missing
    <3> QED BY <2>1, <3>1, Least
  <2>3. m # 0
    <3>1. Follows([i \in {n} |-> {}], 0)
      BY <1>1
    <3> HIDE DEF Follows
    <3> QED BY <2>2, <3>1
  <2>4. m \in 0..n /\ m - 1 \in 0..n /\ m - 1 \notin Missing
    <3>1. m \in 0..n /\ m \in Nat
      BY <1>1, <2>2
    <3>2. m - 1 \in 0..n /\ ~(m <= m - 1)
      BY <1>1, <2>3, <3>1
    <3> HIDE DEF Missing
    <3> QED BY <2>2, <3>1, <3>2
  <2>5. PICK f : Follows(f, m - 1)
    <3> HIDE DEF Follows
    <3> QED BY <2>4
  <2> DEFINE first == n - m
             g == [i \in first..n |-> IF i = first THEN {<<i, next(i)>>} \cup f[next(i)] ELSE f[i]]
  <2>6. first \in 0..n - 1 /\ n - (m - 1) = first + 1
    BY <1>1, <2>3, <2>4
  <2>7. ASSUME NEW i \in first..n
        PROVE  g[i] = IF i = n THEN {} ELSE {<<i, next(i)>>} \cup g[next(i)]
    <3>1. CASE i = first
      <4>1. i \in 0..n - 1 /\ i # n
        BY <1>1, <2>6, <3>1
      <4>2. next(i) \in first + 1..n
        BY <1>2, <3>1, <4>1
      <4>3. g[next(i)] = f[next(i)]
        BY <1>1, <2>6, <4>2
      <4> QED BY <3>1, <4>1, <4>3
    <3>2. CASE i # first
      <4>1. i \in n - (m - 1)..n /\ g[i] = f[i]
        BY <1>1, <2>6, <3>2
      <4>2. f[i] = IF i = n THEN {} ELSE {<<i, next(i)>>} \cup f[next(i)]
        BY <2>5, <4>1
      <4>3. ASSUME i # n PROVE g[next(i)] = f[next(i)]
        <5>1. i \in 0..n - 1
          BY <1>1, <2>6, <4>3
        <5>2. next(i) \in i + 1..n
          BY <1>2, <5>1
        <5>3. next(i) \in first..n /\ next(i) # first
          BY <1>1, <2>6, <5>1, <5>2
        <5> QED BY <5>3
      <4> QED BY <4>1, <4>2, <4>3
    <3> QED BY <3>1, <3>2
  <2>8. Follows(g, m)
    <3> HIDE DEF g
    <3> QED BY <2>7
  <2>9. m \in Missing /\ ~\E h : Follows(h, m)
    <3> HIDE DEF Follows
    <3> QED BY <2>2
  <2> HIDE DEF Follows
  <2> QED BY <2>8, <2>9
<1>4. PICK f : Follows(f, n)
  BY <1>3
<1> DEFINE whole == [i \in 0..n |-> f[i]]
<1>5. ASSUME NEW i \in 0..n
      PROVE  whole[i] = IF i = n THEN {} ELSE {<<i, next(i)>>} \cup whole[next(i)]
  <2>1. i \in n - n..n
    BY <1>1
  <2>2. whole[i] = IF i = n THEN {} ELSE {<<i, next(i)>>} \cup f[next(i)]
    BY <1>4, <2>1
  <2>3. ASSUME i # n PROVE next(i) \in 0..n
    <3>1. i \in 0..n - 1
      BY <1>1, <2>3
    <3>2. next(i) \in i + 1..n
      BY <1>2, <3>1
    <3> QED BY <1>1, <3>1, <3>2
  <2> QED BY <2>2, <2>3
<1>6. whole = [i \in 0..n |-> IF i = n THEN {} ELSE {<<i, next(i)>>} \cup whole[next(i)]]
  <2>1. whole = [i \in 0..n |-> whole[i]]
    OBVIOUS
  <2> HIDE DEF whole
  <2> QED BY <1>5, <2>1
<1>7. FoldsFrom(d, whole)
  <2> HIDE DEF whole
  <2> QED BY <1>6 DEF FoldsFrom, n, next
<1> DEFINE from == CHOOSE g : FoldsFrom(d, g)
<1>8. FoldsFrom(d, from)
  <2> HIDE DEF whole
  <2> QED BY <1>7
<1>9. Folds(d) = from[Border(d, MinTrain)]
  BY DEF Folds, FoldsFrom
<1> HIDE DEF from
<1> QED BY <1>8, <1>9

\* From a free place on, folds begin at free places and share the samples among them.
LEMMA FoldsShare ==
    ASSUME NEW d, IsFiniteSet(d), NEW from, FoldsFrom(d, from),
           NEW i \in 0..Cardinality(d), Free(d, i)
    PROVE  /\ \A f \in from[i] : \E a, b \in i..Cardinality(d) :
                    f = <<a, b>> /\ a < b /\ Free(d, a)
           /\ \A r \in i..Cardinality(d) - 1 : \E f \in from[i] :
                    \A g \in from[i] : r \in g[1]..g[2] - 1 <=> g = f
<1> DEFINE n == Cardinality(d)
           next(j) == Border(d, j + TestSize)
           Begun(j) == \A f \in from[j] : \E a, b \in j..n : f = <<a, b>> /\ a < b /\ Free(d, a)
           Shared(j) == \A r \in j..n - 1 : \E f \in from[j] :
                            \A g \in from[j] : r \in g[1]..g[2] - 1 <=> g = f
           Bad == {m \in 0..n : Free(d, n - m) /\ ~(Begun(n - m) /\ Shared(n - m))}
<1>1. n \in Nat
  BY FS_CardinalityType
<1>2. \A j \in 0..n - 1 : next(j) \in j + 1..n /\ Free(d, next(j))
  BY NextBorder
<1>3. /\ from[n] = {}
      /\ \A j \in 0..n - 1 : from[j] = {<<j, next(j)>>} \cup from[next(j)]
  <2>1. \A j \in 0..n : from[j] = IF j = n THEN {} ELSE {<<j, next(j)>>} \cup from[next(j)]
    <3> HIDE DEF n, next
    <3>1. from = [j \in 0..n |-> IF j = n THEN {} ELSE {<<j, next(j)>>} \cup from[next(j)]]
      BY DEF FoldsFrom, n, next
    <3> DEFINE E(j) == IF j = n THEN {} ELSE {<<j, next(j)>>} \cup from[next(j)]
    <3>2. from = [j \in 0..n |-> E(j)]
      BY <3>1
    <3> HIDE DEF E
    <3>3. \A j \in 0..n : from[j] = E(j)
      BY <3>2
    <3> QED BY <3>3 DEF E
  <2> HIDE DEF n, next
  <2>2. n \in 0..n /\ \A j \in 0..n - 1 : j \in 0..n /\ j # n
    BY <1>1
  <2> QED BY <2>1, <2>2
<1> HIDE DEF n, next
<1>4. Bad = {}
  <2>1. SUFFICES ASSUME Bad # {} PROVE FALSE
    OBVIOUS
  <2>2. PICK m \in Bad : \A y \in Bad : m <= y
    <3>1. Bad \in SUBSET Nat
      BY <1>1
    <3> HIDE DEF Bad
    <3> QED BY <2>1, <3>1, Least
  <2>3. m \in 0..n /\ Free(d, n - m) /\ ~(Begun(n - m) /\ Shared(n - m))
    <3> HIDE DEF Begun, Shared
    <3> QED BY <2>2
  <2> DEFINE j == n - m
  <2>4. m # 0
    <3>1. Begun(n) /\ Shared(n)
      BY <1>1, <1>3
    <3> HIDE DEF Begun, Shared
    <3>2. m = 0 => n - m = n
      BY <1>1
    <3> QED BY <2>3, <3>1, <3>2
  <2>5. j \in 0..n - 1
    BY <1>1, <2>3, <2>4
  <2> HIDE DEF j
  <2>6. next(j) \in j + 1..n /\ Free(d, next(j)) /\ from[j] = {<<j, next(j)>>} \cup from[next(j)]
    BY <1>2, <1>3, <2>5
  <2>7. Begun(next(j)) /\ Shared(next(j))
    <3> DEFINE l == n - next(j)
    <3>1. l \in 0..n /\ n - l = next(j) /\ l < m
      BY <1>1, <2>3, <2>5, <2>6 DEF j
    <3>2. l \notin Bad
      <4>1. m \in Nat /\ l \in Nat /\ ~(m <= l)
        BY <1>1, <2>3, <3>1
      <4> HIDE DEF Bad, l
      <4> QED BY <2>2, <4>1
    <3> HIDE DEF Begun, Shared, l
    <3> QED BY <2>6, <3>1, <3>2
  <2>8. Begun(j)
    <3> SUFFICES ASSUME NEW f \in from[j]
                 PROVE  \E a, b \in j..n : f = <<a, b>> /\ a < b /\ Free(d, a)
      OBVIOUS
    <3>1. CASE f = <<j, next(j)>>
      <4>1. j \in j..n /\ next(j) \in j..n /\ j < next(j) /\ Free(d, j)
        BY <1>1, <2>3, <2>5, <2>6 DEF j
      <4> QED BY <3>1, <4>1
    <3>2. CASE f \in from[next(j)]
      <4>1. PICK a, b \in next(j)..n : f = <<a, b>> /\ a < b /\ Free(d, a)
        BY <2>7, <3>2
      <4>2. a \in j..n /\ b \in j..n
        BY <1>1, <2>5, <2>6, <4>1
      <4> QED BY <4>1, <4>2
    <3> QED BY <2>6, <3>1, <3>2
  <2>9. ASSUME NEW g \in from[next(j)]
        PROVE  g[1] \in Int /\ g[2] \in Int /\ g[1] >= next(j)
    <3>1. PICK a, b \in next(j)..n : g = <<a, b>> /\ a < b
      BY <2>7
    <3>2. g[1] = a /\ g[2] = b
      BY <3>1
    <3> QED BY <1>1, <2>5, <2>6, <3>2
  <2>10. Shared(j)
    <3> SUFFICES ASSUME NEW r \in j..n - 1
                 PROVE  \E f \in from[j] : \A g \in from[j] : r \in g[1]..g[2] - 1 <=> g = f
      OBVIOUS
    <3> DEFINE one == <<j, next(j)>>
    <3>1. one[1] = j /\ one[2] = next(j) /\ one \in from[j]
      BY <2>6
    <3>2. j \in Int /\ n \in Int /\ r \in Int /\ next(j) \in Int /\ j <= r /\ r <= n - 1
      BY <1>1, <2>5, <2>6
    <3>3. CASE r < next(j)
      <4>1. r \in one[1]..one[2] - 1
        BY <3>1, <3>2, <3>3
      <4>2. ASSUME NEW g \in from[next(j)] PROVE ~(r \in g[1]..g[2] - 1)
        BY <2>9, <3>2, <3>3
      <4> HIDE DEF one
      <4>3. \A g \in from[j] : g = one \/ g \in from[next(j)]
        BY <2>6 DEF one
      <4> QED BY <3>1, <4>1, <4>2, <4>3
    <3>4. CASE r >= next(j)
      <4>1. r \in next(j)..n - 1
        BY <3>2, <3>4
      <4>2. PICK f \in from[next(j)] : \A g \in from[next(j)] : r \in g[1]..g[2] - 1 <=> g = f
        BY <2>7, <4>1
      <4>3. ~(r \in one[1]..one[2] - 1)
        BY <3>1, <3>2, <3>4
      <4>4. one # f
        BY <2>9, <3>1, <3>2, <2>6
      <4> HIDE DEF one
      <4>5. \A g \in from[j] : g = one \/ g \in from[next(j)]
        BY <2>6 DEF one
      <4>6. f \in from[j]
        BY <2>6
      <4> QED BY <4>2, <4>3, <4>4, <4>5, <4>6
    <3> QED BY <3>2, <3>3, <3>4
  <2> HIDE DEF Begun, Shared
  <2> QED BY <2>3, <2>8, <2>10 DEF j
<1>5. n - i \in 0..n /\ n - (n - i) = i
  <2>1. i \in 0..n
    BY DEF n
  <2> QED BY <1>1, <2>1
<1>6. Begun(i) /\ Shared(i)
  <2>1. n - i \notin Bad
    BY <1>4
  <2> HIDE DEF Begun, Shared
  <2> QED BY <1>5, <2>1
<1> QED BY <1>6 DEF n

\* Folds train on what began before their test, and test everything after the first border
\* once (walk_forward_splits), for every archive, every minimum and every tie of kickoffs.
THEOREM FoldsAlwaysApart == Spec => []FoldsApart
<1>1. ASSUME IInv PROVE FoldsApart
  <2> DEFINE d == Dataset(results, snapshots)
             n == Cardinality(d)
             first == Border(d, MinTrain)
             test(f) == {s \in d : Rank(d, s) \in f[1]..(f[2] - 1)}
             train(f) == {s \in d : Rank(d, s) < f[1]}
  <2>1. InLine(d)
    BY <1>1, DatasetInLine
  <2> HIDE DEF d
  <2>2. IsFiniteSet(d) /\ n \in Nat /\ MinTrain \in Nat \ {0}
    BY <2>1, FS_CardinalityType, MinimumAssumption DEF InLine
  <2>3. /\ first \in 0..n /\ Free(d, first)
        /\ MinTrain < n => MinTrain <= first
        /\ MinTrain >= n => first = n
    BY <2>2, BorderFree
  <2>4. PICK from : FoldsFrom(d, from) /\ Folds(d) = from[first]
    BY <2>2, FoldsFollow
  <2> HIDE DEF first
  <2>5. /\ \A f \in Folds(d) : \E a, b \in first..n : f = <<a, b>> /\ a < b /\ Free(d, a)
        /\ \A r \in first..n - 1 : \E f \in Folds(d) :
                \A g \in Folds(d) : r \in g[1]..g[2] - 1 <=> g = f
    BY <2>2, <2>3, <2>4, FoldsShare
  <2>6. \A s \in d : Rank(d, s) \in 0..n - 1
    BY <2>1, RankFollows
  <2> HIDE DEF n
  <2>7. ASSUME NEW f \in Folds(d), NEW s \in train(f), NEW t \in test(f)
        PROVE  s.start < t.start
    <3>1. PICK a, b \in first..n : f = <<a, b>> /\ a < b /\ Free(d, a)
      BY <2>5
    <3>2. f[1] = a /\ f[2] = b
      BY <3>1
    <3>3. s \in d /\ t \in d /\ Rank(d, s) < a /\ Rank(d, t) \in a..b - 1
      BY <3>2
    <3>4. Rank(d, s) \in Nat /\ Rank(d, t) \in Nat
      BY <2>2, <2>6, <3>3
    <3>5. a \in Nat \ {0} /\ Rank(d, t) >= a
      BY <2>2, <2>3, <3>3, <3>4
    <3> QED BY <2>1, <3>1, <3>3, <3>5, FreeSeparates
  <2>8. ASSUME NEW s \in d
        PROVE  Cardinality({f \in Folds(d) : s \in test(f)}) = IF Rank(d, s) < first THEN 0 ELSE 1
    <3> DEFINE r == Rank(d, s)
    <3>1. r \in 0..n - 1
      BY <2>6
    <3>2. {f \in Folds(d) : s \in test(f)} = {f \in Folds(d) : r \in f[1]..(f[2] - 1)}
      OBVIOUS
    <3>3. CASE r < first
      <4>1. ASSUME NEW f \in Folds(d) PROVE ~(r \in f[1]..(f[2] - 1))
        <5>1. PICK a, b \in first..n : f = <<a, b>>
          BY <2>5
        <5>2. f[1] = a /\ f[2] = b
          BY <5>1
        <5> HIDE DEF r
        <5> QED BY <2>2, <2>3, <3>1, <3>3, <5>2
      <4>2. {f \in Folds(d) : r \in f[1]..(f[2] - 1)} = {}
        BY <4>1
      <4> QED BY <3>2, <3>3, <4>2, FS_EmptySet
    <3>4. CASE ~(r < first)
      <4>1. r \in first..n - 1
        <5> HIDE DEF r
        <5> QED BY <2>2, <2>3, <3>1, <3>4
      <4>2. PICK f \in Folds(d) : \A g \in Folds(d) : r \in g[1]..g[2] - 1 <=> g = f
        <5> HIDE DEF r
        <5> QED BY <2>5, <4>1
      <4>3. {g \in Folds(d) : r \in g[1]..(g[2] - 1)} = {f}
        <5> HIDE DEF r
        <5> QED BY <4>2
      <4> QED BY <3>2, <3>4, <4>3, FS_Singleton
    <3> QED BY <3>3, <3>4
  <2> QED BY <2>7, <2>8 DEF FoldsApart, d, first
<1> QED BY <1>1, ArchiveInvariant, PTL

===========================================================================
