--------------------------- MODULE Reconstruction ---------------------------
(***************************************************************************)
(* research/availability.py and football_reconstruction_v2.py: football    *)
(* datasets, built from the same archive as those of PointInTime, but from *)
(* results as facts.  A fact counts as known one day after kickoff, also   *)
(* when it was archived years later, so the past of a match may grow: by   *)
(* matches that a backfill adds, and never otherwise.  football_audit_v2   *)
(* rebuilds the samples of an older dataset from the archive as it is.     *)
(*                                                                         *)
(* What a rating or a form is computed from stands for it.  The fields of  *)
(* a result that its versions must agree on are represented by its kickoff.*)
(***************************************************************************)
EXTENDS PointInTime

CONSTANTS
    Home,           \* Home[m]: which of Sides[m] plays at home
    Competition,    \* Competition[m], Season[m]: where and when it is played
    Season,
    Sportmonks,     \* the provider of facts
    Duration,       \* CONSERVATIVE_DURATION_HOURS
    MinVenue,       \* MINIMUMS of football_policy_v2: venue_poisson, league_poisson
    MinLeague,
    Window          \* the length of the rolling windows

ASSUME ReconstructionAssumption ==
    /\ Sportmonks \in Source
    /\ \A m \in Match : Home[m] \in Sides[m]
    /\ {MinVenue, MinLeague, Window} \subseteq Nat
    /\ Duration \in Nat \ {0}

---------------------------------------------------------------------------
(* Facts *)

Conflicting(h, m) == \E q, r \in h : q.match = m /\ r.match = m /\ q.start # r.start

\* When a result counts as known: a day after kickoff, or earlier if it was seen earlier.
Bound(r) == IF r.at < r.start + Duration THEN r.at ELSE r.start + Duration

Fact(r) == [match |-> r.match, start |-> r.start, at |-> r.at, bound |-> Bound(r)]

\* Mutant: the latest version, as in eligible_history.
CanonicalFacts_Latest(h) == {Fact(r) : r \in {q \in Latest(h) : ~Conflicting(h, q.match)}}

\* canonical_facts: of the versions of a match, if they agree, the one known first.
CanonicalFacts(h) ==
    {Fact(r) : r \in {v \in h :
        /\ ~Conflicting(h, v.match)
        /\ \A q \in h : q.match = v.match =>
               Bound(v) < Bound(q) \/ (Bound(v) = Bound(q) /\ v.at <= q.at)}}

AvailableBefore(f, at) == f.start < at /\ f.bound < at

PriorFacts(facts, t) == {f \in facts : f.match # t.match /\ AvailableBefore(f, t.start)}

SameLeague(f, t) == Competition[f.match] = Competition[t.match]
SameSeason(f, t) == SameLeague(f, t) /\ Season[f.match] = Season[t.match]

LastOf(rows, n) == {f \in rows : Cardinality({g \in rows : Precedes(f, g)}) < n}

\* windows: the families of results that the features of t are computed from.
Windows(t, prior) ==
    LET season == {f \in prior : SameSeason(f, t)}
        of(p) == {f \in season : p \in Sides[f.match]}
        venue(p) == {f \in of(p) : (Home[f.match] = p) = (Home[t.match] = p)}
    IN  [elo |-> {f \in prior : SameLeague(f, t)},
         league |-> season,
         rolling |-> [p \in Sides[t.match] |-> LastOf(of(p), Window)],
         venue |-> [p \in Sides[t.match] |-> venue(p)]]

\* family_coverage, and the minimums of reconstruct_features.
Covered(groups) ==
    /\ Cardinality(groups.league) >= MinLeague
    /\ \A p \in DOMAIN groups.venue : Cardinality(groups.venue[p]) >= MinVenue

---------------------------------------------------------------------------
(* elo_context *)

\* Mutant: a result is rated as soon as it is met.
Apply_AtOnce(elo, at) ==
    [rated |-> elo.rated \cup elo.pending, pending |-> {}, context |-> elo.context]

\* Results that are known before a kickoff are rated, the others stay pending.
Apply(elo, at) ==
    LET ready == {f \in elo.pending : f.bound < at}
    IN  [rated |-> elo.rated \cup ready, pending |-> elo.pending \ ready,
         context |-> elo.context]

\* A match is rated against what its teams' ratings were at its kickoff.
Meet(elo, e) ==
    LET now1 == Apply(elo, e.start)
    IN  [rated |-> now1.rated, pending |-> now1.pending \cup {e},
         context |-> [m \in DOMAIN elo.context \cup {e.match} |->
                        IF m = e.match THEN now1.rated ELSE elo.context[m]]]

\* The matches are met in the order of their kickoffs.
EloContext(prior, t) ==
    LET met[k \in 0..Cardinality(prior)] ==
            IF k = 0 THEN [rated |-> {}, pending |-> {}, context |-> <<>>]
            ELSE Meet(met[k - 1], CHOOSE f \in prior : Rank(prior, f) = k - 1)
    IN  Apply(met[Cardinality(prior)], t.start)

---------------------------------------------------------------------------
(* Samples *)

\* reconstruct_features, on the families of a target.
Features(t, groups) ==
    LET elo == EloContext(groups.elo, t)
    IN  [families |-> groups, ratings |-> elo.rated,
         opponents |-> [p \in Sides[t.match] |->
                           [f \in groups.rolling[p] |-> elo.context[f.match]]]]

\* The sample of version 1, which version 2 takes over but for the features: the fact t with
\* what is known before its kickoff.  Snapshots by another provider carry another league id.
Envelope(t, prior, c) ==
    [match |-> t.match, start |-> t.start, label |-> t.bound, history |-> prior,
     context |-> UsedContext({r \in c : r.by = Sportmonks}, t.match, t.start)]

FootballSample(t, prior, c) ==
    LET v1 == Envelope(t, prior, c)
    IN  [match |-> v1.match, start |-> v1.start, label |-> v1.label, history |-> v1.history,
         context |-> v1.context, features |-> Features(t, Windows(t, prior))]

\* build_from_facts.
FootballDataset(h, c) ==
    LET facts == CanonicalFacts(h)
    IN  {FootballSample(t, PriorFacts(facts, t), c) :
            t \in {f \in facts : /\ Enough(PriorFacts(facts, f), f.match)
                                 /\ Covered(Windows(f, PriorFacts(facts, f)))}}

\* audit: a sample it finds nothing wrong with.
Reproduced(s, h) ==
    LET facts == CanonicalFacts(h)
    IN  /\ s.history \subseteq facts
        /\ \A f \in s.history : f.match # s.match /\ AvailableBefore(f, s.start)
        /\ \E t \in facts : t.match = s.match /\ FootballSample(t, s.history, s.context) = s

---------------------------------------------------------------------------
(* Properties *)

\* football_audit_v2.py:83-109 passes for every dataset, however much is archived after it
\* was built: a match it uses is taken back only if two of its versions disagree.
AuditPasses ==
    [][\A s \in FootballDataset(results, snapshots) :
          \/ Reproduced(s, results')
          \/ \E f \in s.history \cup {s} : Conflicting(results', f.match)]_vars

\* "Deltas are computed at kickoff, then applied only once completion is available": the
\* rating a match enters a sample with is the one it has as a target of its own, whatever
\* is played at the same time.
RatingsAgree ==
    LET facts == CanonicalFacts(results)
        elo(t) == EloContext(Windows(t, PriorFacts(facts, t)).elo, t)
    IN  \A t \in facts : \A f \in Windows(t, PriorFacts(facts, t)).elo :
            elo(t).context[f.match] = elo(f).rated

=============================================================================
