------------------------ MODULE ReconstructionProofs ------------------------
(***************************************************************************)
(* Proofs about Reconstruction.  Of the versions of a match that agree,    *)
(* the canonical one is the first that was committed, so that nothing that *)
(* is committed later replaces it.                                         *)
(***************************************************************************)
EXTENDS Reconstruction, PointInTimeProofs

\* A result that is available later is not known earlier.
LEMMA BoundGrows ==
    ASSUME NEW q, NEW r, q.start = r.start, q.start \in Nat, q.at \in Nat, r.at \in Nat,
           q.at <= r.at
    PROVE  Bound(q) <= Bound(r) /\ Bound(q) \in Nat
  BY ReconstructionAssumption DEF Bound

\* A fact stays a fact until two versions of its match disagree.
LEMMA FactStays ==
    ASSUME IInv, [Next]_vars, NEW f \in CanonicalFacts(results),
           ~Conflicting(results', f.match)
    PROVE  f \in CanonicalFacts(results')
<1>1. PICK v \in results :
          /\ f = Fact(v)
          /\ \A q \in results : q.match = v.match =>
                 Bound(v) < Bound(q) \/ (Bound(v) = Bound(q) /\ v.at <= q.at)
  BY DEF CanonicalFacts
<1>2. f.match = v.match
  BY <1>1 DEF Fact
<1>3. /\ \A r \in results : r.kind = "history"
      /\ \A r \in results \cup written :
             r.kind = "history" => r.start \in Nat /\ r.at \in Nat
  BY MatchAssumption DEF IInv, TypeOK, ResultRow, SnapshotRow
<1>4. results' = results \/ results' = results \cup {r \in written : r.kind = "history"}
  BY DEF Next, Tick, Commit, Rollback, Observe, Snapshot, vars
<1>5. ASSUME NEW q \in results', q.match = v.match
      PROVE  Bound(v) < Bound(q) \/ (Bound(v) = Bound(q) /\ v.at <= q.at)
  <2>1. CASE q \in results
    BY <1>1, <1>5, <2>1
  <2>2. CASE q \notin results
    <3>1. q \in written /\ q.kind = "history"
      BY <1>4, <1>5, <2>2
    <3>2. v \in results'
      BY <1>4
    <3>3. q.start = v.start
      BY <1>2, <1>5, <3>2 DEF Conflicting
    <3>4. v.at <= q.at
      BY <3>1 DEF IInv, Stamped
    <3>5. v.start \in Nat /\ v.at \in Nat /\ q.at \in Nat
      BY <1>3, <3>1
    <3>6. Bound(v) <= Bound(q) /\ Bound(v) \in Nat
      BY <3>3, <3>4, <3>5, BoundGrows
    <3>7. Bound(q) \in Nat
      BY <1>3, <3>1, ReconstructionAssumption DEF Bound
    <3> QED BY <3>4, <3>6, <3>7
  <2> QED BY <2>1, <2>2
<1>6. v \in results' /\ ~Conflicting(results', v.match)
  BY <1>2, <1>4
<1> QED BY <1>1, <1>5, <1>6 DEF CanonicalFacts

\* The context of a sample is all that it needs to be found again.
LEMMA ContextReproduced ==
    ASSUME NEW c, NEW m, NEW at
    PROVE  LET used == UsedContext({r \in c : r.by = Sportmonks}, m, at)
           IN  UsedContext({r \in used : r.by = Sportmonks}, m, at) = used
<1> DEFINE own == {r \in c : r.by = Sportmonks}
           used == UsedContext(own, m, at)
<1>1. used = {} \/ used = EligibleContext(own, m, at)
  BY DEF UsedContext
<1>2. \A r \in used : r.by = Sportmonks /\ r.match = m /\ r.at < at
  BY <1>1 DEF EligibleContext
<1>3. \A r, q \in used : q.side = r.side /\ q # r => q.at < r.at
  BY <1>1 DEF EligibleContext
<1>4. used # {} => \E a, b \in used : a.side = "home" /\ b.side = "away" /\ a.by = b.by
  BY DEF UsedContext
<1> HIDE DEF used
<1>5. {r \in used : r.by = Sportmonks} = used
  BY <1>2
<1>6. EligibleContext(used, m, at) = used
  BY <1>2, <1>3 DEF EligibleContext
<1>7. UsedContext(used, m, at) = used
  BY <1>4, <1>6 DEF UsedContext
<1> QED BY <1>5, <1>7 DEF used

\* An audit passes whatever was archived since, unless versions of a match disagree.
THEOREM AuditAlwaysPasses == Spec => AuditPasses
<1> DEFINE Audited ==
        \A s \in FootballDataset(results, snapshots) :
            \/ Reproduced(s, results')
            \/ \E f \in s.history \cup {s} : Conflicting(results', f.match)
<1>1. ASSUME IInv, [Next]_vars PROVE Audited
  <2> SUFFICES ASSUME NEW s \in FootballDataset(results, snapshots),
                      \A f \in s.history \cup {s} : ~Conflicting(results', f.match)
               PROVE  Reproduced(s, results')
    OBVIOUS
  <2> DEFINE facts == CanonicalFacts(results)
  <2>1. PICK t \in facts : s = FootballSample(t, PriorFacts(facts, t), snapshots)
    BY DEF FootballDataset
  <2> HIDE DEF facts
  <2> DEFINE prior == PriorFacts(facts, t)
  <2>2. /\ s.match = t.match /\ s.start = t.start /\ s.history = prior
        /\ s.context = UsedContext({r \in snapshots : r.by = Sportmonks}, t.match, t.start)
    BY <2>1 DEF FootballSample, Envelope
  <2>3. prior \subseteq facts
    BY DEF PriorFacts
  <2>4. t \in CanonicalFacts(results')
    BY <1>1, <2>2, FactStays DEF facts
  <2>5. s.history \subseteq CanonicalFacts(results')
    BY <1>1, <2>2, <2>3, FactStays DEF facts
  <2>6. \A f \in s.history : f.match # s.match /\ AvailableBefore(f, s.start)
    BY <2>2 DEF PriorFacts
  <2>7. UsedContext({r \in s.context : r.by = Sportmonks}, t.match, t.start) = s.context
    <3> DEFINE used == UsedContext({r \in snapshots : r.by = Sportmonks}, t.match, t.start)
    <3>1. UsedContext({r \in used : r.by = Sportmonks}, t.match, t.start) = used
      BY ContextReproduced
    <3>2. s.context = used
      BY <2>2
    <3> QED BY <3>1, <3>2
  <2>8. FootballSample(t, s.history, s.context) = s
    <3> HIDE DEF prior
    <3>1. s = FootballSample(t, prior, snapshots)
      BY <2>1 DEF prior
    <3> QED BY <2>2, <2>7, <3>1 DEF FootballSample, Envelope
  <2> QED BY <2>2, <2>4, <2>5, <2>6, <2>8 DEF Reproduced
<1>2. [][Next]_vars /\ []IInv => [][Audited]_vars
  BY <1>1, PTL
<1> QED BY <1>2, ArchiveInvariant, PTL DEF Spec, AuditPasses

---------------------------------------------------------------------------
(* Ratings *)

\* Facts, one for each match, each known after its kickoff.
KnownFacts(rows) ==
    /\ InLine(rows)
    /\ \A f \in rows : f.bound \in Nat /\ f.start < f.bound

\* The canonical facts of an archive are such rows.
LEMMA FactsKnown == ASSUME IInv PROVE KnownFacts(CanonicalFacts(results))
<1> DEFINE facts == CanonicalFacts(results)
           Chosen(v) ==
               /\ ~Conflicting(results, v.match)
               /\ \A q \in results : q.match = v.match =>
                      Bound(v) < Bound(q) \/ (Bound(v) = Bound(q) /\ v.at <= q.at)
           base == {v \in results : Chosen(v)}
<1>1. facts = {Fact(v) : v \in base}
  BY DEF CanonicalFacts
<1>2. ASSUME NEW v \in results
      PROVE  /\ v.match \in Nat /\ v.start \in Nat /\ v.at \in Nat /\ v.start < v.at
             /\ Bound(v) \in Nat /\ v.start < Bound(v)
  <2>1. v.match \in Nat /\ v.start \in Nat /\ v.at \in Nat /\ v.start < v.at
    BY MatchAssumption DEF IInv, TypeOK, Stamped, ResultRow
  <2> QED BY <2>1, ReconstructionAssumption DEF Bound
<1>3. IsFiniteSet(facts)
  <2> DEFINE factOf == [v \in base |-> Fact(v)]
  <2>1. base \in SUBSET results
    OBVIOUS
  <2> HIDE DEF base
  <2>2. IsFiniteSet(base)
    BY <2>1, FS_Subset DEF IInv, TypeOK
  <2>3. factOf \in Surjection(base, facts)
    BY <1>1 DEF Surjection
  <2> QED BY <2>2, <2>3, FS_Surjection
<1>4. ASSUME NEW f \in facts
      PROVE  \E v \in results :
                /\ Chosen(v) /\ f = Fact(v)
                /\ f.match = v.match /\ f.start = v.start /\ f.at = v.at /\ f.bound = Bound(v)
  <2>1. PICK v \in base : f = Fact(v)
    BY <1>1
  <2> QED BY <2>1 DEF Fact
<1> HIDE DEF facts, base, Chosen
<1>5. ASSUME NEW f \in facts, NEW g \in facts, f.match = g.match PROVE f = g
  <2>1. PICK v \in results : /\ Chosen(v) /\ f = Fact(v) /\ f.match = v.match
    BY <1>4
  <2>2. PICK w \in results : /\ Chosen(w) /\ g = Fact(w) /\ g.match = w.match
    BY <1>4
  <2>3. v.match = w.match /\ v.start = w.start
    BY <1>5, <2>1, <2>2 DEF Chosen, Conflicting
  <2>4. /\ Bound(v) < Bound(w) \/ (Bound(v) = Bound(w) /\ v.at <= w.at)
        /\ Bound(w) < Bound(v) \/ (Bound(w) = Bound(v) /\ w.at <= v.at)
    BY <2>1, <2>2, <2>3 DEF Chosen
  <2>5. v.at = w.at /\ Bound(v) = Bound(w)
    BY <1>2, <2>4
  <2> QED BY <2>1, <2>2, <2>3, <2>5 DEF Fact
<1>6. ASSUME NEW f \in facts
      PROVE  f.match \in Nat /\ f.start \in Nat /\ f.bound \in Nat /\ f.start < f.bound
  BY <1>2, <1>4
<1> QED BY <1>3, <1>5, <1>6 DEF KnownFacts, InLine, facts

\* So are those of them a target may look at.
LEMMA SomeFactsKnown ==
    ASSUME NEW rows, KnownFacts(rows), NEW some \in SUBSET rows
    PROVE  KnownFacts(some)
<1>1. IsFiniteSet(some)
  BY FS_Subset DEF KnownFacts, InLine
<1> QED BY <1>1 DEF KnownFacts, InLine

\* The recursion of EloContext.
MetFrom(prior, met) ==
    met = [k \in 0..Cardinality(prior) |->
              IF k = 0 THEN [rated |-> {}, pending |-> {}, context |-> <<>>]
              ELSE Meet(met[k - 1], CHOOSE f \in prior : Rank(prior, f) = k - 1)]

\* It has a solution: one up to k gives one up to k + 1.
LEMMA EloFollows ==
    ASSUME NEW prior, IsFiniteSet(prior), NEW t
    PROVE  \E met : /\ MetFrom(prior, met)
                    /\ EloContext(prior, t) = Apply(met[Cardinality(prior)], t.start)
<1> DEFINE n == Cardinality(prior)
           none == [rated |-> {}, pending |-> {}, context |-> <<>>]
           next(elo, k) == Meet(elo, CHOOSE f \in prior : Rank(prior, f) = k - 1)
           Follows(e, m) == \A k \in 0..m : e[k] = IF k = 0 THEN none ELSE next(e[k - 1], k)
           Missing == {m \in 0..n : ~\E e : Follows(e, m)}
<1>1. n \in Nat
  BY FS_CardinalityType
<1> HIDE DEF n, next, none
<1>2. \E e : Follows(e, n)
  <2>1. SUFFICES ASSUME Missing # {} PROVE FALSE
    <3>1. n \in 0..n
      BY <1>1
    <3> HIDE DEF Follows
    <3> QED BY <2>1, <3>1
  <2>2. PICK m \in Missing : \A y \in Missing : m <= y
    <3>1. Missing \in SUBSET Nat
      BY <1>1
    <3> HIDE DEF Missing
    <3> QED BY <2>1, <3>1, Least
  <2>3. m # 0
    <3>1. Follows([k \in {0} |-> none], 0)
      OBVIOUS
    <3> HIDE DEF Follows
    <3> QED BY <2>2, <3>1
  <2>4. m \in 1..n /\ m - 1 \in 0..n /\ m - 1 \notin Missing
    <3>1. m \in 0..n /\ m \in Nat
      BY <1>1, <2>2
    <3>2. m \in 1..n /\ m - 1 \in 0..n /\ ~(m <= m - 1)
      BY <1>1, <2>3, <3>1
    <3> HIDE DEF Missing
    <3> QED BY <2>2, <3>1, <3>2
  <2>5. PICK e : Follows(e, m - 1)
    <3> HIDE DEF Follows
    <3> QED BY <2>4
  <2> DEFINE g == [k \in 0..m |-> IF k = m THEN next(e[m - 1], m) ELSE e[k]]
  <2>6. ASSUME NEW k \in 0..m PROVE g[k] = IF k = 0 THEN none ELSE next(g[k - 1], k)
    <3>1. k \in Int /\ m \in Int /\ 0 <= k /\ k <= m /\ 1 <= m
      BY <1>1, <2>4
    <3>2. CASE k = m
      <4>1. m - 1 \in 0..m /\ m - 1 # m /\ k # 0
        BY <3>1, <3>2
      <4>2. g[m - 1] = e[m - 1]
        BY <4>1
      <4>3. g[k] = next(e[m - 1], m)
        BY <3>2
      <4> QED BY <3>2, <4>1, <4>2, <4>3
    <3>3. CASE k # m
      <4>1. k \in 0..m - 1 /\ g[k] = e[k]
        BY <3>1, <3>3
      <4>2. e[k] = IF k = 0 THEN none ELSE next(e[k - 1], k)
        BY <2>5, <4>1
      <4>3. k # 0 => g[k - 1] = e[k - 1]
        <5>1. k # 0 => k - 1 \in 0..m /\ k - 1 # m
          BY <3>1
        <5> QED BY <5>1
      <4> QED BY <4>1, <4>2, <4>3
    <3> QED BY <3>2, <3>3
  <2>7. Follows(g, m)
    <3> HIDE DEF g
    <3> QED BY <2>6
  <2>8. ~\E e2 : Follows(e2, m)
    <3> HIDE DEF Follows
    <3> QED BY <2>2
  <2> HIDE DEF Follows
  <2> QED BY <2>7, <2>8
<1>3. PICK e : Follows(e, n)
  BY <1>2
<1> DEFINE whole == [k \in 0..n |-> e[k]]
<1>4. ASSUME NEW k \in 0..n PROVE whole[k] = IF k = 0 THEN none ELSE next(whole[k - 1], k)
  <2>1. whole[k] = IF k = 0 THEN none ELSE next(e[k - 1], k)
    BY <1>3
  <2>2. k # 0 => k - 1 \in 0..n
    BY <1>1
  <2> QED BY <2>1, <2>2
<1>5. whole = [k \in 0..n |-> IF k = 0 THEN none ELSE next(whole[k - 1], k)]
  <2>1. whole = [k \in 0..n |-> whole[k]]
    OBVIOUS
  <2> HIDE DEF whole
  <2> QED BY <1>4, <2>1
<1>6. MetFrom(prior, whole)
  <2> HIDE DEF whole
  <2> QED BY <1>5 DEF MetFrom, n, next, none
<1> DEFINE met == CHOOSE g : MetFrom(prior, g)
<1>7. MetFrom(prior, met)
  <2> HIDE DEF whole
  <2> QED BY <1>6
<1>8. EloContext(prior, t) = Apply(met[Cardinality(prior)], t.start)
  BY DEF EloContext, MetFrom
<1> HIDE DEF met
<1> QED BY <1>7, <1>8

\* After the first k matches: they are rated or pending, what is rated is known before
\* every kickoff still to come, and each was met with what was known before its own.
Elo(prior, elo, k) ==
    LET first == {g \in prior : Rank(prior, g) < k}
    IN  /\ elo.rated \cup elo.pending = first
        /\ \A g \in elo.rated, f \in prior : Rank(prior, f) >= k => g.bound < f.start
        /\ DOMAIN elo.context = {f.match : f \in first}
        /\ \A f \in first : elo.context[f.match] =
                {g \in prior : Rank(prior, g) < Rank(prior, f) /\ g.bound < f.start}

\* Meeting the next match keeps this.
LEMMA MeetKeeps ==
    ASSUME NEW prior, KnownFacts(prior), NEW k \in 0..Cardinality(prior) - 1, NEW elo,
           Elo(prior, elo, k), NEW e \in prior, Rank(prior, e) = k
    PROVE  Elo(prior, Meet(elo, e), k + 1)
<1> DEFINE new == Meet(elo, e)
           ready == {f \in elo.pending : f.bound < e.start}
           first == {g \in prior : Rank(prior, g) < k}
           next == {g \in prior : Rank(prior, g) < k + 1}
<1>1. /\ InLine(prior) /\ Cardinality(prior) \in Nat
      /\ \A f \in prior : f.start \in Nat /\ f.match \in Nat /\ f.bound \in Nat
      /\ \A f, g \in prior : f.match = g.match => f = g
  BY FS_CardinalityType DEF KnownFacts, InLine
<1>2. /\ \A f \in prior : Rank(prior, f) \in Int
      /\ \A f, g \in prior : Rank(prior, f) = Rank(prior, g) => f = g
      /\ \A f, g \in prior : Rank(prior, f) < Rank(prior, g) => f.start <= g.start
  <2>1. \A f, g \in prior :
            /\ Rank(prior, f) \in Int /\ Rank(prior, g) \in Int
            /\ Precedes(f, g) => Rank(prior, f) < Rank(prior, g)
            /\ Precedes(g, f) => Rank(prior, g) < Rank(prior, f)
            /\ f = g \/ Precedes(f, g) \/ Precedes(g, f)
    BY <1>1, RankFollows
  <2>2. \A f, g \in prior : Precedes(f, g) => f.start <= g.start
    BY <1>1 DEF Precedes
  <2> QED BY <2>1, <2>2
<1>3. next = first \cup {e} /\ e \notin first
  BY <1>2
<1>4. /\ elo.rated \cup elo.pending = first
      /\ \A g \in elo.rated : g.bound < e.start
      /\ DOMAIN elo.context = {f.match : f \in first}
      /\ \A f \in first : elo.context[f.match] =
                {g \in prior : Rank(prior, g) < Rank(prior, f) /\ g.bound < f.start}
  BY DEF Elo
<1>5. /\ new.rated = elo.rated \cup ready
      /\ new.pending = (elo.pending \ ready) \cup {e}
      /\ new.context = [m \in DOMAIN elo.context \cup {e.match} |->
                            IF m = e.match THEN elo.rated \cup ready ELSE elo.context[m]]
  BY DEF Meet, Apply
<1> HIDE DEF new
<1>6. elo.rated \cup ready = {g \in first : g.bound < e.start}
  BY <1>4
<1>7. new.rated \cup new.pending = next
  BY <1>3, <1>4, <1>5
<1>8. ASSUME NEW g \in new.rated, NEW f \in prior, Rank(prior, f) >= k + 1
      PROVE  g.bound < f.start
  <2>1. g \in prior /\ g.bound < e.start
    BY <1>5, <1>6, <1>8
  <2>2. e.start <= f.start
    BY <1>2, <1>8
  <2> QED BY <1>1, <2>1, <2>2
<1>9. DOMAIN new.context = {f.match : f \in next}
  BY <1>3, <1>4, <1>5
<1>10. ASSUME NEW f \in next
       PROVE  new.context[f.match] =
                {g \in prior : Rank(prior, g) < Rank(prior, f) /\ g.bound < f.start}
  <2>1. CASE f = e
    <3>1. new.context[e.match] = elo.rated \cup ready
      BY <1>5
    <3>2. {g \in first : g.bound < e.start}
            = {g \in prior : Rank(prior, g) < Rank(prior, e) /\ g.bound < e.start}
      OBVIOUS
    <3> QED BY <1>6, <2>1, <3>1, <3>2
  <2>2. CASE f \in first
    <3>1. f.match # e.match
      BY <1>1, <1>3, <2>2
    <3>2. f.match \in DOMAIN elo.context
      BY <1>4, <2>2
    <3>3. new.context[f.match] = elo.context[f.match]
      BY <1>5, <3>1, <3>2
    <3> QED BY <1>4, <2>2, <3>3
  <2> QED BY <1>3, <2>1, <2>2
<1> QED BY <1>7, <1>8, <1>9, <1>10 DEF Elo, new

\* What a target is rated from, and what each match before it was met with.
LEMMA EloOfTarget ==
    ASSUME NEW prior, KnownFacts(prior), NEW t, \A f \in prior : f.bound < t.start
    PROVE  /\ EloContext(prior, t).rated = prior
           /\ \A f \in prior : EloContext(prior, t).context[f.match] =
                {g \in prior : Rank(prior, g) < Rank(prior, f) /\ g.bound < f.start}
<1> DEFINE n == Cardinality(prior)
           none == [rated |-> {}, pending |-> {}, context |-> <<>>]
<1>1. IsFiniteSet(prior) /\ n \in Nat /\ InLine(prior)
  BY FS_CardinalityType DEF KnownFacts, InLine
<1>2. PICK met : MetFrom(prior, met) /\ EloContext(prior, t) = Apply(met[n], t.start)
  BY <1>1, EloFollows
<1>3. \A f \in prior : Rank(prior, f) \in 0..n - 1
  BY <1>1, RankFollows
<1>4. \A k \in 0..n : met[k] = IF k = 0 THEN none
                               ELSE Meet(met[k - 1], CHOOSE f \in prior : Rank(prior, f) = k - 1)
  BY <1>2 DEF MetFrom
<1> HIDE DEF n
<1> DEFINE Bad == {k \in 0..n : ~Elo(prior, met[k], k)}
<1>5. Bad = {}
  <2>1. SUFFICES ASSUME Bad # {} PROVE FALSE
    OBVIOUS
  <2>2. PICK k \in Bad : \A y \in Bad : k <= y
    <3>1. Bad \in SUBSET Nat
      BY <1>1
    <3> HIDE DEF Bad
    <3> QED BY <2>1, <3>1, Least
  <2>3. k \in 0..n /\ ~Elo(prior, met[k], k)
    BY <2>2
  <2>4. k # 0
    <3>1. {g \in prior : Rank(prior, g) < 0} = {}
      BY <1>3
    <3>2. Elo(prior, none, 0)
      BY <3>1 DEF Elo
    <3>3. 0 \in 0..n /\ met[0] = none
      BY <1>1, <1>4
    <3> QED BY <2>3, <3>2, <3>3
  <2>5. k - 1 \in 0..n - 1 /\ k - 1 \in 0..n /\ ~(k <= k - 1) /\ (k - 1) + 1 = k
    BY <1>1, <2>3, <2>4
  <2>6. Elo(prior, met[k - 1], k - 1)
    <3>1. k - 1 \notin Bad
      <4> HIDE DEF Bad
      <4> QED BY <2>2, <2>5
    <3> QED BY <2>5, <3>1
  <2> DEFINE e == CHOOSE f \in prior : Rank(prior, f) = k - 1
  <2>7. e \in prior /\ Rank(prior, e) = k - 1
    <3>1. \E f \in prior : Rank(prior, f) = k - 1
      BY <1>1, <2>5, RankTaken DEF n
    <3> QED BY <3>1
  <2>8. met[k] = Meet(met[k - 1], e)
    BY <1>4, <2>3, <2>4
  <2> HIDE DEF e
  <2>9. Elo(prior, Meet(met[k - 1], e), (k - 1) + 1)
    BY <2>5, <2>6, <2>7, MeetKeeps DEF n
  <2> QED BY <2>3, <2>5, <2>8, <2>9
<1>6. Elo(prior, met[n], n)
  <2>1. n \in 0..n
    BY <1>1
  <2> QED BY <1>5, <2>1
<1>7. {g \in prior : Rank(prior, g) < n} = prior
  BY <1>1, <1>3
<1>8. met[n].rated \cup met[n].pending = prior
  BY <1>6, <1>7 DEF Elo
<1>9. \A f \in prior : met[n].context[f.match] =
                {g \in prior : Rank(prior, g) < Rank(prior, f) /\ g.bound < f.start}
  BY <1>6, <1>7 DEF Elo
<1>10. EloContext(prior, t).rated = prior
  BY <1>2, <1>8 DEF Apply
<1>11. EloContext(prior, t).context = met[n].context
  BY <1>2 DEF Apply
<1> QED BY <1>9, <1>10, <1>11

\* A rating does not depend on the sample it is computed for (elo_context), for every
\* archive: a match enters a sample with what it is rated as a target of its own.
THEOREM RatingsAlwaysAgree == Spec => []RatingsAgree
<1>1. ASSUME IInv PROVE RatingsAgree
  <2> DEFINE facts == CanonicalFacts(results)
             elos(t) == Windows(t, PriorFacts(facts, t)).elo
  <2>1. KnownFacts(facts)
    BY <1>1, FactsKnown
  <2> HIDE DEF facts
  <2>2. /\ \A f \in facts : f.start \in Nat /\ f.bound \in Nat /\ f.start < f.bound
        /\ \A f, g \in facts : f.match = g.match => f = g
    BY <2>1 DEF KnownFacts, InLine
  <2>3. \A t : elos(t) = {f \in facts : /\ f.match # t.match /\ f.start < t.start
                                        /\ f.bound < t.start /\ SameLeague(f, t)}
    BY DEF Windows, PriorFacts, AvailableBefore
  <2> HIDE DEF elos
  <2>4. \A t : KnownFacts(elos(t)) /\ \A f \in elos(t) : f.bound < t.start
    <3> TAKE t
    <3>1. elos(t) \in SUBSET facts /\ \A f \in elos(t) : f.bound < t.start
      BY <2>3
    <3> QED BY <2>1, <3>1, SomeFactsKnown
  <2>5. ASSUME NEW t \in facts, NEW f \in elos(t)
        PROVE  EloContext(elos(t), t).context[f.match] = EloContext(elos(f), f).rated
    <3> DEFINE prior == elos(t)
    <3>1. f \in facts /\ f.start < t.start /\ f.bound < t.start /\ SameLeague(f, t)
      BY <2>3
    <3>2. EloContext(elos(t), t).context[f.match] =
                {g \in prior : Rank(prior, g) < Rank(prior, f) /\ g.bound < f.start}
      BY <2>4, EloOfTarget
    <3>3. EloContext(elos(f), f).rated = elos(f)
      BY <2>4, EloOfTarget
    <3>4. ASSUME NEW g \in prior, g.bound < f.start
          PROVE  g \in elos(f) /\ Rank(prior, g) < Rank(prior, f)
      <4>1. g \in facts /\ SameLeague(g, t)
        BY <2>3, <3>4
      <4>2. g.start < f.start
        BY <2>2, <3>1, <3>4, <4>1
      <4>3. g.match # f.match
        BY <2>2, <3>1, <4>1, <4>2
      <4>4. SameLeague(g, f)
        BY <3>1, <4>1 DEF SameLeague
      <4>5. Precedes(g, f)
        BY <4>2 DEF Precedes
      <4>6. InLine(prior)
        BY <2>4 DEF KnownFacts
      <4>7. Rank(prior, g) < Rank(prior, f)
        BY <3>4, <4>5, <4>6, RankFollows
      <4> QED BY <2>3, <3>4, <4>1, <4>2, <4>3, <4>4, <4>7
    <3>5. ASSUME NEW g \in elos(f) PROVE g \in prior /\ g.bound < f.start
      <4>1. g \in facts /\ g.start < f.start /\ g.bound < f.start /\ SameLeague(g, f)
        BY <2>3, <3>5
      <4>2. g.start < t.start /\ g.bound < t.start
        BY <2>2, <3>1, <4>1
      <4>3. g.match # t.match
        BY <2>2, <4>1, <4>2
      <4>4. SameLeague(g, t)
        BY <3>1, <4>1 DEF SameLeague
      <4> QED BY <2>3, <4>1, <4>2, <4>3, <4>4
    <3> HIDE DEF prior
    <3>6. {g \in prior : Rank(prior, g) < Rank(prior, f) /\ g.bound < f.start} = elos(f)
      BY <3>4, <3>5
    <3> QED BY <3>2, <3>3, <3>6
  <2> QED BY <2>5 DEF RatingsAgree, facts, elos
<1> QED BY <1>1, ArchiveInvariant, PTL

=============================================================================
