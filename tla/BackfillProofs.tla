--------------------------- MODULE BackfillProofs ---------------------------
(***************************************************************************)
(* Proofs about Backfill, for any windows and pages.  The walk stands on a *)
(* page that is not COMPLETED while it works on it, its open transaction   *)
(* holds the final results of the rows it has looked at, and every page it *)
(* has passed is COMPLETED.                                                *)
(***************************************************************************)
EXTENDS Backfill, TLAPS

\* What the open transaction holds, and where the walk may stand.
Walking ==
    /\ pc # "off" => calls > 0 /\ result = "NONE"
    /\ pc \in {"fetch", "persist", "mark"} => checkpoint[cursor] # "COMPLETED"
    /\ pc = "persist" =>
            /\ todo \subseteq Rows(cursor)
            /\ pending = {f \in Rows(cursor) \ todo : Kind[f] = "final"}

IInv == TypeOK /\ Walking /\ AtomicPages /\ NothingSkipped

---------------------------------------------------------------------------
(* The order of the walk *)

\* A key is a command, the position of a window and league, and a page of it.
LEMMA KeyShape ==
    /\ \A v \in Variant : \A i \in 1..Len(Pages[v]) : \A p \in 1..Len(Pages[v][i]) :
            <<v, i, p>> \in Key
    /\ \A k \in Key : /\ k = <<k[1], k[2], k[3]>>
                      /\ k[1] \in Variant
                      /\ Len(Pages[k[1]]) \in Nat /\ k[2] \in 1..Len(Pages[k[1]])
                      /\ Len(Pages[k[1]][k[2]]) \in Nat /\ k[3] \in 1..Len(Pages[k[1]][k[2]])
                      /\ Rows(k) \subseteq Fixture
<1>1. ASSUME NEW v \in Variant, NEW i \in 1..Len(Pages[v]), NEW p \in 1..Len(Pages[v][i])
      PROVE  <<v, i, p>> \in Key
  <2>1. <<v, i, p>> \in {<<v, i, q>> : q \in 1..Len(Pages[v][i])}
    OBVIOUS
  <2>2. <<v, i, p>> \in UNION {{<<v, j, q>> : q \in 1..Len(Pages[v][j])} :
                                j \in 1..Len(Pages[v])}
    BY <2>1
  <2> QED BY <2>2 DEF Key
<1>2. ASSUME NEW k \in Key
      PROVE  \E v \in Variant : \E i \in 1..Len(Pages[v]) :
                 \E p \in 1..Len(Pages[v][i]) : k = <<v, i, p>>
  <2>1. PICK v \in Variant : k \in UNION {{<<v, i, p>> : p \in 1..Len(Pages[v][i])} :
                                            i \in 1..Len(Pages[v])}
    BY DEF Key
  <2>2. PICK i \in 1..Len(Pages[v]) : k \in {<<v, i, p>> : p \in 1..Len(Pages[v][i])}
    BY <2>1
  <2> QED BY <2>2
<1>3. ASSUME NEW k \in Key
      PROVE  /\ k = <<k[1], k[2], k[3]>> /\ k[1] \in Variant
             /\ k[2] \in 1..Len(Pages[k[1]]) /\ k[3] \in 1..Len(Pages[k[1]][k[2]])
  BY <1>2
<1>4. ASSUME NEW v \in Variant
      PROVE  /\ Len(Pages[v]) \in Nat /\ 1 \in 1..Len(Pages[v])
             /\ \A i \in 1..Len(Pages[v]) :
                    /\ Len(Pages[v][i]) \in Nat /\ 1 \in 1..Len(Pages[v][i])
                    /\ \A p \in 1..Len(Pages[v][i]) : Pages[v][i][p] \subseteq Fixture
  <2>1. Pages[v] \in Seq(Seq(SUBSET Fixture) \ {<<>>}) /\ Pages[v] # <<>>
    BY PagesAssumption
  <2>2. ASSUME NEW i \in 1..Len(Pages[v])
        PROVE  Pages[v][i] \in Seq(SUBSET Fixture) /\ Pages[v][i] # <<>>
    BY <2>1
  <2> QED BY <2>1, <2>2
<1> QED BY <1>1, <1>3, <1>4 DEF Rows

\* There is a first window, and every window has a first page.
LEMMA FirstPages ==
    ASSUME NEW v \in Variant
    PROVE  /\ 1 \in 1..Len(Pages[v])
           /\ \A i \in 1..Len(Pages[v]) : 1 \in 1..Len(Pages[v][i])
<1>1. Pages[v] \in Seq(Seq(SUBSET Fixture) \ {<<>>}) /\ Pages[v] # <<>>
  BY PagesAssumption
<1>2. ASSUME NEW i \in 1..Len(Pages[v])
      PROVE  Pages[v][i] \in Seq(SUBSET Fixture) /\ Pages[v][i] # <<>>
  BY <1>1
<1> QED BY <1>1, <1>2

\* The first page of a command, and the page after a page, with the pages before it.
LEMMA WalkOrder ==
    /\ \A v \in Variant : <<v, 1, 1>> \in Key /\ Before(<<v, 1, 1>>) = {}
    /\ \A k \in Key :
        /\ HasMore(k) => LET n == [k EXCEPT ![3] = @ + 1]
                         IN  n \in Key /\ Before(n) \subseteq Before(k) \cup {k}
        /\ ~HasMore(k) /\ k[2] < Len(Pages[k[1]]) =>
                LET n == <<k[1], k[2] + 1, 1>>
                IN  n \in Key /\ Before(n) \subseteq Before(k) \cup {k}
<1>1. ASSUME NEW v \in Variant PROVE <<v, 1, 1>> \in Key /\ Before(<<v, 1, 1>>) = {}
  <2>1. 1 \in 1..Len(Pages[v]) /\ 1 \in 1..Len(Pages[v][1])
    BY FirstPages
  <2>2. \A k \in Key : ~(k[2] < 1) /\ ~(k[3] < 1)
    BY KeyShape
  <2> QED BY <2>1, <2>2, KeyShape DEF Before
<1>2. ASSUME NEW k \in Key, HasMore(k)
      PROVE  LET n == [k EXCEPT ![3] = @ + 1]
             IN  n \in Key /\ Before(n) \subseteq Before(k) \cup {k}
  <2> DEFINE n == <<k[1], k[2], k[3] + 1>>
  <2>1. k = <<k[1], k[2], k[3]>> /\ k[1] \in Variant /\ k[2] \in 1..Len(Pages[k[1]])
        /\ k[3] \in 1..Len(Pages[k[1]][k[2]]) /\ Len(Pages[k[1]][k[2]]) \in Nat
    BY KeyShape
  <2>2. [k EXCEPT ![3] = @ + 1] = n
    BY <2>1
  <2>3. k[3] + 1 \in 1..Len(Pages[k[1]][k[2]])
    BY <1>2, <2>1 DEF HasMore
  <2>4. n \in Key
    BY <2>1, <2>3, KeyShape
  <2>5. ASSUME NEW m \in Before(n) PROVE m \in Before(k) \cup {k}
    <3>1. m \in Key /\ m = <<m[1], m[2], m[3]>> /\ m[3] \in Nat
      BY KeyShape DEF Before
    <3>2. m[1] = k[1] /\ (m[2] < k[2] \/ (m[2] = k[2] /\ m[3] < k[3] + 1))
      BY <2>5 DEF Before
    <3>3. CASE m[2] < k[2]
      BY <3>1, <3>2, <3>3 DEF Before
    <3>4. CASE m[2] = k[2] /\ m[3] < k[3]
      BY <3>1, <3>2, <3>4 DEF Before
    <3>5. CASE m[2] = k[2] /\ m[3] = k[3]
      BY <2>1, <3>1, <3>2, <3>5
    <3> QED BY <2>1, <3>1, <3>2, <3>3, <3>4, <3>5
  <2> QED BY <2>2, <2>4, <2>5
<1>3. ASSUME NEW k \in Key, ~HasMore(k), k[2] < Len(Pages[k[1]])
      PROVE  LET n == <<k[1], k[2] + 1, 1>>
             IN  n \in Key /\ Before(n) \subseteq Before(k) \cup {k}
  <2> DEFINE n == <<k[1], k[2] + 1, 1>>
  <2>1. k = <<k[1], k[2], k[3]>> /\ k[1] \in Variant /\ k[2] \in 1..Len(Pages[k[1]])
        /\ k[3] \in 1..Len(Pages[k[1]][k[2]]) /\ Len(Pages[k[1]][k[2]]) \in Nat
        /\ Len(Pages[k[1]]) \in Nat
    BY KeyShape
  <2>2. k[2] + 1 \in 1..Len(Pages[k[1]])
    BY <1>3, <2>1
  <2>3. n \in Key
    BY <2>1, <2>2, FirstPages, KeyShape
  <2>4. k[3] = Len(Pages[k[1]][k[2]])
    BY <1>3, <2>1 DEF HasMore
  <2>5. ASSUME NEW m \in Before(n) PROVE m \in Before(k) \cup {k}
    <3>1. m \in Key /\ m = <<m[1], m[2], m[3]>> /\ m[2] \in Nat
          /\ m[3] \in 1..Len(Pages[m[1]][m[2]]) /\ Len(Pages[m[1]][m[2]]) \in Nat
      BY KeyShape DEF Before
    <3>2. m[1] = k[1] /\ (m[2] < k[2] + 1 \/ (m[2] = k[2] + 1 /\ m[3] < 1))
      BY <2>5 DEF Before
    <3>3. CASE m[2] < k[2]
      BY <3>1, <3>2, <3>3 DEF Before
    <3>4. CASE m[2] = k[2]
      <4>1. m[3] < k[3] \/ m[3] = k[3]
        BY <2>1, <2>4, <3>1, <3>2, <3>4
      <4> QED BY <2>1, <3>1, <3>2, <3>4, <4>1 DEF Before
    <3> QED BY <2>1, <3>1, <3>2, <3>3, <3>4
  <2> QED BY <2>3, <2>5
<1> QED BY <1>1, <1>2, <1>3

---------------------------------------------------------------------------
(* The invariant *)

\* The state before the first command.
LEMMA InitIInv == Init => IInv
<1> SUFFICES ASSUME Init PROVE IInv
  OBVIOUS
<1>1. TypeOK
  BY DEF Init, TypeOK
<1>2. Walking
  BY DEF Init, Walking
<1>3. AtomicPages
  BY DEF Init, AtomicPages
<1>4. NothingSkipped
  BY DEF Init, NothingSkipped, Before
<1> QED BY <1>1, <1>2, <1>3, <1>4 DEF IInv

\* Advance stands on a later page whose predecessors are COMPLETED, or returns COMPLETED.
LEMMA AdvanceWalks ==
    ASSUME TypeOK, TypeOK', Advance, checkpoint'[cursor] = "COMPLETED",
           \A k \in Before(cursor) : checkpoint'[k] = "COMPLETED",
           result = "NONE", calls' > 0
    PROVE  Walking' /\ NothingSkipped'
<1>1. cursor \in Key
  BY DEF TypeOK
<1>2. \A k \in Before(cursor) \cup {cursor} : checkpoint'[k] = "COMPLETED"
  OBVIOUS
<1>3. CASE HasMore(cursor)
  <2>1. cursor' = [cursor EXCEPT ![3] = @ + 1] /\ pc' = "seek" /\ result' = "NONE"
    BY <1>3 DEF Advance
  <2>2. \A k \in Before(cursor') : checkpoint'[k] = "COMPLETED"
    BY <1>1, <1>2, <1>3, <2>1, WalkOrder
  <2> QED BY <2>1, <2>2 DEF Walking, NothingSkipped
<1>4. CASE ~HasMore(cursor) /\ cursor[2] < Len(Pages[cursor[1]])
  <2>1. cursor' = <<cursor[1], cursor[2] + 1, 1>> /\ pc' = "seek" /\ result' = "NONE"
    <3>1. cursor[2] # Len(Pages[cursor[1]])
      BY <1>1, <1>4, KeyShape
    <3> QED BY <1>4, <3>1 DEF Advance
  <2>2. \A k \in Before(cursor') : checkpoint'[k] = "COMPLETED"
    BY <1>1, <1>2, <1>4, <2>1, WalkOrder
  <2> QED BY <2>1, <2>2 DEF Walking, NothingSkipped
<1>5. CASE cursor' = cursor /\ pc' = "off" /\ result' = "COMPLETED"
  BY <1>2, <1>5 DEF Walking, NothingSkipped
<1> QED BY <1>3, <1>4, <1>5 DEF Advance, Return

\* Advance leaves the types alone.
LEMMA AdvanceTypes ==
    ASSUME TypeOK, Advance
    PROVE  /\ pc' \in {"off", "seek"} /\ cursor' \in Key
           /\ result' \in {"NONE", "COMPLETED", "PAUSED", "FAILED", "RAISED"}
<1>1. cursor \in Key /\ result \in {"NONE", "COMPLETED", "PAUSED", "FAILED", "RAISED"}
  BY DEF TypeOK
<1>2. CASE HasMore(cursor) /\ cursor' = [cursor EXCEPT ![3] = @ + 1] /\ pc' = "seek"
           /\ UNCHANGED result
  BY <1>1, <1>2, WalkOrder
<1>3. CASE /\ ~HasMore(cursor) /\ cursor[2] < Len(Pages[cursor[1]])
           /\ cursor' = <<cursor[1], cursor[2] + 1, 1>> /\ pc' = "seek"
           /\ UNCHANGED result
  BY <1>1, <1>3, WalkOrder
<1>4. CASE cursor' = cursor /\ pc' = "off" /\ result' = "COMPLETED"
  BY <1>1, <1>4
<1> QED BY <1>2, <1>3, <1>4 DEF Advance, Return

\* The archive after a page that is not COMPLETED becomes so.
LEMMA CommitArchives ==
    ASSUME IInv, CommitPage
    PROVE  AtomicPages'
<1>1. /\ cursor \in Key /\ calls \in Nat /\ calls > 0 /\ Rows(cursor) \subseteq Fixture
      /\ pending = {f \in Rows(cursor) : Kind[f] = "final"}
  BY KeyShape DEF IInv, TypeOK, Walking, CommitPage
<1>2. \A k \in Key : checkpoint'[k] = "COMPLETED" <=> k = cursor \/ checkpoint[k] = "COMPLETED"
  BY <1>1 DEF IInv, TypeOK, CommitPage
<1>3. \A f \in Fixture : firstSeen'[f] # 0 <=> f \in pending \/ firstSeen[f] # 0
  BY <1>1 DEF IInv, TypeOK, CommitPage
<1>4. \A f \in Fixture :
          firstSeen[f] # 0 <=> /\ Kind[f] = "final"
                               /\ \E k \in Key : checkpoint[k] = "COMPLETED" /\ f \in Rows(k)
  BY DEF IInv, AtomicPages
<1>5. ASSUME NEW f \in Fixture
      PROVE  firstSeen'[f] # 0 <=>
                 /\ Kind[f] = "final"
                 /\ \E k \in Key : checkpoint'[k] = "COMPLETED" /\ f \in Rows(k)
  BY <1>1, <1>2, <1>3, <1>4
<1> QED BY <1>5 DEF AtomicPages

\* A step that leaves the archive and the COMPLETED pages alone keeps them in agreement.
LEMMA ArchiveFrame ==
    ASSUME AtomicPages, UNCHANGED firstSeen,
           \A k \in Key : checkpoint'[k] = "COMPLETED" <=> checkpoint[k] = "COMPLETED"
    PROVE  AtomicPages'
  BY DEF AtomicPages

\* The commit of a page.
LEMMA CommitIInv ==
    ASSUME IInv, CommitPage
    PROVE  IInv'
<1>1. TypeOK'
  <2>1. pc' \in {"off", "seek"} /\ cursor' \in Key
        /\ result' \in {"NONE", "COMPLETED", "PAUSED", "FAILED", "RAISED"}
    BY AdvanceTypes DEF IInv, TypeOK, CommitPage, Return
  <2> QED BY <2>1 DEF IInv, TypeOK, CommitPage
<1>2. checkpoint'[cursor] = "COMPLETED" /\ calls' > 0 /\ result = "NONE"
  BY DEF IInv, TypeOK, Walking, CommitPage
<1>3. \A k \in Before(cursor) : checkpoint'[k] = "COMPLETED"
  BY DEF IInv, TypeOK, Walking, NothingSkipped, CommitPage, Before
<1>4. Walking' /\ NothingSkipped'
  <2>1. CASE Return("RAISED") /\ UNCHANGED cursor
    BY <1>2, <1>3, <2>1 DEF Walking, NothingSkipped, Return
  <2>2. CASE Advance
    BY <1>1, <1>2, <1>3, <2>2, AdvanceWalks DEF IInv
  <2> QED BY <2>1, <2>2 DEF CommitPage
<1> QED BY <1>1, <1>4, CommitArchives DEF IInv

\* A COMPLETED page is passed over.
LEMMA SkipIInv ==
    ASSUME IInv, SkipCompleted
    PROVE  IInv'
<1>1. TypeOK'
  BY AdvanceTypes DEF IInv, TypeOK, SkipCompleted, durable
<1>2. AtomicPages'
  BY ArchiveFrame DEF IInv, SkipCompleted, durable
<1>3. Walking' /\ NothingSkipped'
  <2>1. calls > 0 /\ result = "NONE" /\ UNCHANGED <<checkpoint, calls>>
    BY DEF IInv, Walking, SkipCompleted, durable
  <2>2. \A k \in Before(cursor) : checkpoint'[k] = "COMPLETED"
    BY <2>1 DEF IInv, NothingSkipped
  <2> QED BY <1>1, <2>1, <2>2, AdvanceWalks DEF IInv, SkipCompleted
<1> QED BY <1>1, <1>2, <1>3 DEF IInv

\* Every step keeps the invariant.
LEMMA NextIInv == IInv /\ [Next]_vars => IInv'
<1> SUFFICES ASSUME IInv, [Next]_vars PROVE IInv'
  OBVIOUS
<1> USE DEF durable, Return, Spend
<1>1. ASSUME NEW v \in Variant, Start(v) PROVE IInv'
  <2>1. TypeOK' /\ Walking'
    <3>1. /\ cursor' \in Key /\ pc' = "seek" /\ result' = "NONE"
          /\ calls \in Nat /\ calls' = calls + 1 /\ given' \in [Variant -> Nat]
      BY <1>1, WalkOrder DEF IInv, TypeOK, Start
    <3>2. TypeOK'
      BY <1>1, <3>1 DEF IInv, TypeOK, Start
    <3> QED BY <3>1, <3>2 DEF Walking
  <2>2. AtomicPages'
    BY <1>1, ArchiveFrame DEF IInv, Start
  <2>3. NothingSkipped'
    BY <1>1, WalkOrder DEF NothingSkipped, Start
  <2> QED BY <2>1, <2>2, <2>3 DEF IInv
<1>2. CASE SkipCompleted
  BY <1>2, SkipIInv
<1>3. CASE Pause
  <2>1. TypeOK' /\ Walking'
    BY <1>3 DEF IInv, TypeOK, Walking, Pause
  <2>2. AtomicPages'
    BY <1>3, ArchiveFrame DEF IInv, Pause
  <2>3. NothingSkipped'
    BY <1>3 DEF IInv, NothingSkipped, Pause
  <2> QED BY <2>1, <2>2, <2>3 DEF IInv
<1>4. CASE Claim
  <2>1. \A k \in Key : checkpoint'[k] = "COMPLETED" <=> checkpoint[k] = "COMPLETED"
    BY <1>4 DEF IInv, TypeOK, Claim
  <2>2. TypeOK'
    BY <1>4 DEF IInv, TypeOK, Claim
  <2>3. Walking'
    BY <1>4, <2>1 DEF IInv, TypeOK, Walking, Claim
  <2>4. AtomicPages'
    BY <1>4, <2>1, ArchiveFrame DEF IInv, Claim
  <2>5. NothingSkipped'
    BY <1>4, <2>1 DEF IInv, TypeOK, Walking, NothingSkipped, Claim, Before
  <2> QED BY <2>2, <2>3, <2>4, <2>5 DEF IInv
<1>5. CASE Fetch
  <2>1. TypeOK' /\ Walking'
    BY <1>5, KeyShape DEF IInv, TypeOK, Walking, Fetch
  <2>2. AtomicPages' /\ NothingSkipped'
    BY <1>5, ArchiveFrame DEF IInv, NothingSkipped, Fetch
  <2> QED BY <2>1, <2>2 DEF IInv
<1>6. ASSUME NEW f \in Fixture, PersistRow(f) PROVE IInv'
  <2>1. TypeOK' /\ Walking'
    BY <1>6 DEF IInv, TypeOK, Walking, PersistRow
  <2>2. AtomicPages' /\ NothingSkipped'
    BY <1>6, ArchiveFrame DEF IInv, NothingSkipped, PersistRow
  <2> QED BY <2>1, <2>2 DEF IInv
<1>7. CASE CommitPage
  BY <1>7, CommitIInv
<1>8. CASE MarkFailed
  <2>1. \A k \in Key : checkpoint'[k] = "COMPLETED" <=> checkpoint[k] = "COMPLETED"
    BY <1>8 DEF IInv, TypeOK, Walking, MarkFailed
  <2>2. TypeOK' /\ Walking'
    BY <1>8 DEF IInv, TypeOK, Walking, MarkFailed
  <2>3. AtomicPages'
    BY <1>8, <2>1, ArchiveFrame DEF IInv, MarkFailed
  <2>4. NothingSkipped'
    BY <1>8, <2>1 DEF IInv, TypeOK, Walking, NothingSkipped, MarkFailed, Before
  <2> QED BY <2>2, <2>3, <2>4 DEF IInv
<1>9. CASE Error
  <2>1. TypeOK' /\ Walking'
    BY <1>9, BoundAssumption DEF IInv, TypeOK, Walking, Error
  <2>2. AtomicPages' /\ NothingSkipped'
    BY <1>9, ArchiveFrame DEF IInv, NothingSkipped, Error
  <2> QED BY <2>1, <2>2 DEF IInv
<1>10. CASE Crash
  <2>1. TypeOK' /\ Walking'
    BY <1>10, BoundAssumption DEF IInv, TypeOK, Walking, Crash
  <2>2. AtomicPages' /\ NothingSkipped'
    BY <1>10, ArchiveFrame DEF IInv, NothingSkipped, Crash
  <2> QED BY <2>1, <2>2 DEF IInv
<1>11. CASE UNCHANGED vars
  <2>1. TypeOK' /\ Walking' /\ NothingSkipped'
    BY <1>11 DEF IInv, TypeOK, Walking, NothingSkipped, vars
  <2>2. AtomicPages'
    BY <1>11, ArchiveFrame DEF IInv, vars
  <2> QED BY <2>1, <2>2 DEF IInv
<1> QED BY <1>1, <1>2, <1>3, <1>4, <1>5, <1>6, <1>7, <1>8, <1>9, <1>10, <1>11 DEF Next, Step

---------------------------------------------------------------------------
(* The results *)

\* The walk is as described above at every moment.
THEOREM Invariance == Spec => []IInv
  BY InitIInv, NextIInv, PTL DEF Spec

\* docs/RESEARCH.md: results and checkpoint commit atomically; the archive holds exactly the
\* final results of COMPLETED pages, however commands fail, die and overlap in range.
THEOREM SpecAtomicPages == Spec => []AtomicPages
<1>1. IInv => AtomicPages
  BY DEF IInv
<1> QED BY <1>1, Invariance, PTL

\* A command that says COMPLETED has completed every page up to its last, and one that
\* stops earlier names the first page still to do.
THEOREM SpecNothingSkipped == Spec => []NothingSkipped
<1>1. IInv => NothingSkipped
  BY DEF IInv
<1> QED BY <1>1, Invariance, PTL

\* The time of the first observation and COMPLETED are never taken back.
THEOREM SpecFirstObservationKept == Spec => FirstObservationKept
<1> DEFINE Kept ==
        /\ \A f \in Fixture : firstSeen[f] # 0 => firstSeen'[f] = firstSeen[f]
        /\ \A k \in Key : checkpoint[k] = "COMPLETED" => checkpoint'[k] = "COMPLETED"
<1>1. ASSUME IInv, [Next]_vars PROVE Kept
  <2>1. CASE UNCHANGED <<firstSeen, checkpoint>>
    BY <2>1
  <2>2. CASE Claim
    BY <1>1, <2>2 DEF IInv, TypeOK, Claim
  <2>3. CASE CommitPage
    BY <1>1, <2>3 DEF IInv, TypeOK, CommitPage
  <2>4. CASE MarkFailed
    BY <1>1, <2>4 DEF IInv, TypeOK, Walking, MarkFailed
  <2>5. UNCHANGED <<firstSeen, checkpoint>> \/ Claim \/ CommitPage \/ MarkFailed
    BY <1>1 DEF Next, Step, Start, SkipCompleted, Pause, Fetch, PersistRow, Error, Crash,
                durable, vars
  <2> QED BY <2>1, <2>2, <2>3, <2>4, <2>5
<1>2. [][Next]_vars /\ []IInv => [][Kept]_vars
  BY <1>1, PTL
<1> QED BY <1>2, Invariance, PTL DEF Spec, FirstObservationKept

===========================================================================
