----------------------------- MODULE Ingestion -----------------------------
(***************************************************************************)
(* services/ingestion.py (upsert_event) and services/entities.py           *)
(* (resolve_participant): the identity of competitions, participants and   *)
(* events across providers that list the same matches under their own ids, *)
(* names and keys, each with its own delay.                                *)
(*                                                                         *)
(* Syncs run one at a time under analysis-execute, and a failed one rolls  *)
(* back to where it began, so one upsert is one step.  Row ids are         *)
(* positions in the order of creation.  Demo rows are left out: upserts    *)
(* never make them and no code deletes an event that is not one.           *)
(***************************************************************************)
EXTENDS Integers, Sequences, FiniteSets, FiniteSetsExt

CONSTANTS
    Provider,
    Match,      \* matches that are really played
    Plan,       \* [Match -> [sport, home, away, comp, times]]: times it is moved through
    Scorer,     \* providers whose listings carry results (all but the_odds_api)
    IdOf,       \* [Provider -> [team -> the participant's id with it, 0 if it gives none]]
    Swapped,    \* <<p, m>>: p lists the sides of m the other way round
    NamesOf,    \* [Provider -> [team -> set of normalized names p lists it under]]
    CompKeyOf,  \* [Provider -> [competition -> external key]]
    CompNameOf  \* [Provider -> [competition -> name]]

Window == 20    \* ten minutes: times are half minutes
NoKey == "none"

Distance(s, t) == IF s < t THEN t - s ELSE s - t

Sport == {"football", "tennis"}

\* The teams and the competitions of a sport.
Teams(sport) == UNION {{Plan[m].home, Plan[m].away} : m \in {m \in Match : Plan[m].sport = sport}}
Comps(sport) == {Plan[m].comp : m \in {m \in Match : Plan[m].sport = sport}}

ASSUME MatchAssumption ==
    \A m \in Match : /\ Plan[m].sport \in Sport
                     /\ Plan[m].times \in Seq(Nat) /\ Plan[m].times # <<>>

\* A pair of teams never plays twice at one time in one competition, planned or replanned.
ASSUME FixtureAssumption ==
    \A m, n \in Match :
        /\ m # n
        /\ Plan[m].sport = Plan[n].sport
        /\ {Plan[m].home, Plan[m].away} = {Plan[n].home, Plan[n].away}
        /\ Plan[m].comp = Plan[n].comp
        => \A i \in DOMAIN Plan[m].times, j \in DOMAIN Plan[n].times :
               Distance(Plan[m].times[i], Plan[n].times[j]) > Window

\* A name means one team of a sport, a key or a name one competition, to every provider.
ASSUME NameAssumption ==
    \A p, q \in Provider, sport \in Sport :
        /\ \A a, b \in Teams(sport) : a # b => NamesOf[p][a] \cap NamesOf[q][b] = {}
        /\ \A c, d \in Comps(sport) :
              c # d => /\ CompNameOf[p][c] # CompNameOf[q][d]
                       /\ CompKeyOf[p][c] # CompKeyOf[q][d] \/ CompKeyOf[p][c] = NoKey

\* A provider has one team of a sport for an id.
ASSUME IdAssumption ==
    \A p \in Provider, sport \in Sport : \A a, b \in Teams(sport) :
        IdOf[p][a] = IdOf[p][b] /\ IdOf[p][a] # 0 => a = b

VARIABLES
    real,       \* [Match -> [rev, over]]: where its plan stands
    view,       \* [Provider -> [Match -> [rev, over]]]: what it lists, rev 0 for nothing
    db          \* entities, mapped, aliases, comps, events, eventOf

vars == <<real, view, db>>

Init ==
    /\ real = [m \in Match |-> [rev |-> 1, over |-> FALSE]]
    /\ view = [p \in Provider |-> [m \in Match |-> [rev |-> 0, over |-> FALSE]]]
    /\ db = [entities |-> <<>>, mapped |-> <<>>, aliases |-> {}, comps |-> <<>>,
             events |-> <<>>, eventOf |-> <<>>]

---------------------------------------------------------------------------
(* The matches and their providers. *)

Reschedule(m) ==
    /\ ~real[m].over /\ real[m].rev < Len(Plan[m].times)
    /\ real' = [real EXCEPT ![m].rev = @ + 1]
    /\ UNCHANGED <<view, db>>

Finish(m) ==
    /\ ~real[m].over
    /\ real' = [real EXCEPT ![m].over = TRUE]
    /\ UNCHANGED <<view, db>>

\* p lists m, or catches up with it; the_odds_api gives no result.
Publish(p, m) ==
    /\ view' = [view EXCEPT ![p][m] =
                   [rev |-> real[m].rev, over |-> real[m].over /\ p \in Scorer]]
    /\ UNCHANGED <<real, db>>

---------------------------------------------------------------------------
(* What an upsert does, as functions of the database d. *)

First(ids) == Min(ids)      \* scalar(): the first row

\* f with v at k, unless f is defined there.
Put(f, k, v) == [x \in DOMAIN f \union {k} |-> IF x \in DOMAIN f THEN f[x] ELSE v]

\* _competition: by the provider's key, then by name, else a new one.
CompOf(d, sport, key, name) ==
    LET keyed == {i \in DOMAIN d.comps :
                     key # NoKey /\ d.comps[i].sport = sport /\ d.comps[i].key = key}
        named == {i \in DOMAIN d.comps : d.comps[i].sport = sport /\ d.comps[i].name = name}
    IN  IF keyed # {} THEN First(keyed) ELSE IF named # {} THEN First(named)
        ELSE Len(d.comps) + 1

WithComp(d, sport, key, name) ==
    IF CompOf(d, sport, key, name) \in DOMAIN d.comps THEN d
    ELSE [d EXCEPT !.comps = Append(@, [sport |-> sport, key |-> key, name |-> name])]

\* Mutant: the provider is left out of the look-up, as if ids were shared.
Resolve_SharedIds(d, p, sport, ext, name) ==
    LET mine == {k \in DOMAIN d.mapped : k[2] = sport /\ k[3] = ext}
        named == {i \in DOMAIN d.entities : d.entities[i] = [sport |-> sport, name |-> name]}
        id == IF mine # {} THEN d.mapped[CHOOSE k \in mine : TRUE]
              ELSE IF named # {} THEN First(named) ELSE Len(d.entities) + 1
    IN  [d EXCEPT !.entities = IF id \in DOMAIN @ THEN @
                               ELSE Append(@, [sport |-> sport, name |-> name]),
                  !.mapped = Put(@, <<p, sport, ext>>, id)]

\* resolve_participant: the provider's id decides; else the name; else, for teams, an
\* alias that names one team only; else a new row.  Mapping and alias are then recorded.
Resolve(d, p, sport, ext, name) ==
    LET key == <<p, sport, ext>>
        named == {i \in DOMAIN d.entities : d.entities[i] = [sport |-> sport, name |-> name]}
        aliased == {a.id : a \in {a \in d.aliases : a.sport = sport /\ a.name = name}}
        known == IF named # {} THEN named
                 ELSE IF sport = "football" /\ Cardinality(aliased) = 1 THEN aliased ELSE {}
        id == IF known # {} THEN First(known) ELSE Len(d.entities) + 1
        told == \E a \in d.aliases : a.sport = sport /\ a.name = name /\ a.by = p
    IN  IF key \in DOMAIN d.mapped THEN d
        ELSE [d EXCEPT !.entities = IF known # {} THEN @
                                    ELSE Append(@, [sport |-> sport, name |-> name]),
                       !.mapped = Put(@, key, id),
                       !.aliases = IF told THEN @
                                   ELSE @ \union {[sport |-> sport, name |-> name,
                                                   by |-> p, id |-> id]}]

\* home_external_id, or one made of the name.
ParticipantId(p, team, name) == IF IdOf[p][team] # 0 THEN <<"id", IdOf[p][team]>> ELSE <<"name", name>>

\* canonical_event_key, and the salt of an event kept apart from one with its key.
EventKey(l) ==
    LET swap == l.sport = "tennis" /\ l.awayName < l.homeName
    IN  [sport |-> l.sport, minute |-> l.start \div 2, salt |-> <<>>,
         names |-> IF swap THEN <<l.awayName, l.homeName>> ELSE <<l.homeName, l.awayName>>]

\* Mutant: less than ten minutes.
Near_Strict(d, l) ==
    LET near == {e \in DOMAIN d.events :
                    /\ d.events[e].sport = l.sport /\ d.events[e].comp = l.comp
                    /\ d.events[e].home = l.home /\ d.events[e].away = l.away
                    /\ Distance(d.events[e].start, l.start) < Window}
    IN  IF l.sport = "football" /\ Cardinality(near) = 1 THEN near ELSE {}

\* The one event of the listing's sides and competition within ten minutes, if one only.
Near(d, l) ==
    LET near == {e \in DOMAIN d.events :
                    /\ d.events[e].sport = l.sport /\ d.events[e].comp = l.comp
                    /\ d.events[e].home = l.home /\ d.events[e].away = l.away
                    /\ Distance(d.events[e].start, l.start) <= Window}
    IN  IF l.sport = "football" /\ Cardinality(near) = 1 THEN near ELSE {}

Collides(d, l) == {e \in DOMAIN d.events : d.events[e].key = EventKey(l)}

\* Mutant: a collision is always the same event.
SameEvent_AnyCollision(d, l) == Collides(d, l)

SameEvent(d, l) ==
    {e \in Collides(d, l) : /\ d.events[e].comp = l.comp
                            /\ d.events[e].home = l.home /\ d.events[e].away = l.away}

\* Mutant: colliding events share their key.
NewKey_Unsalted(d, p, m, l) == EventKey(l)

NewKey(d, p, m, l) ==
    IF Collides(d, l) = {} THEN EventKey(l) ELSE [EventKey(l) EXCEPT !.salt = <<p, m>>]

\* The events upsert_event writes to: one, or none when it makes a new one.
Target(d, p, m, l) ==
    IF <<p, m>> \in DOMAIN d.eventOf THEN {d.eventOf[<<p, m>>]}
    ELSE IF Near(d, l) # {} THEN Near(d, l) ELSE SameEvent(d, l)

\* Mutant: results are taken from every provider.
Status_Everyone(p, old, new) == new

\* Only a provider of results changes the status of a known event.
Status(p, old, new) == IF p \in Scorer THEN new ELSE old

\* Mutant: a known event keeps its time.
Write_KeepsTime(d, p, m, l) ==
    LET e == Target(d, p, m, l)
        new == [sport |-> l.sport, comp |-> l.comp, home |-> l.home, away |-> l.away,
                start |-> l.start, status |-> l.status,
                key |-> NewKey(d, p, m, l), by |-> <<p, m>>]
    IN  IF e = {} THEN [d EXCEPT !.events = Append(@, new),
                                 !.eventOf = Put(@, <<p, m>>, Len(d.events) + 1)]
        ELSE [d EXCEPT !.eventOf = Put(@, <<p, m>>, First(e)),
                       !.events[First(e)].status = Status(p, @, l.status)]

\* The mapped event, or the one found, takes over the listing; its key and origin stay.
Write(d, p, m, l) ==
    LET e == Target(d, p, m, l)
        id == IF e = {} THEN Len(d.events) + 1 ELSE First(e)
        old == d.events[id]
        Written(status, key, by) ==
            [sport |-> l.sport, comp |-> l.comp, home |-> l.home, away |-> l.away,
             start |-> l.start, status |-> status, key |-> key, by |-> by]
    IN  [d EXCEPT !.eventOf = Put(@, <<p, m>>, id),
                  !.events =
                      IF e = {} THEN Append(@, Written(l.status, NewKey(d, p, m, l), <<p, m>>))
                      ELSE [@ EXCEPT ![id] =
                               Written(Status(p, old.status, l.status), old.key, old.by)]]

Home(p, m) == IF <<p, m>> \in Swapped THEN Plan[m].away ELSE Plan[m].home
Away(p, m) == IF <<p, m>> \in Swapped THEN Plan[m].home ELSE Plan[m].away

\* upsert_event(normalized, provider), with the names the provider gives the sides today.
Upsert(p, m) ==
    /\ view[p][m].rev > 0
    /\ \E homeName \in NamesOf[p][Home(p, m)], awayName \in NamesOf[p][Away(p, m)] :
           LET sport == Plan[m].sport
               key == CompKeyOf[p][Plan[m].comp]
               name == CompNameOf[p][Plan[m].comp]
               homeId == ParticipantId(p, Home(p, m), homeName)
               awayId == ParticipantId(p, Away(p, m), awayName)
           IN  \E d1 \in {WithComp(db, sport, key, name)} :
               \E d2 \in {Resolve(d1, p, sport, homeId, homeName)} :
               \E d3 \in {Resolve(d2, p, sport, awayId, awayName)} :
               \E l \in {[sport |-> sport, comp |-> CompOf(db, sport, key, name),
                          home |-> d3.mapped[<<p, sport, homeId>>],
                          away |-> d3.mapped[<<p, sport, awayId>>],
                          homeName |-> homeName, awayName |-> awayName,
                          start |-> Plan[m].times[view[p][m].rev],
                          status |-> IF view[p][m].over THEN "FINAL" ELSE "SCHEDULED"]} :
                   db' = Write(d3, p, m, l)
    /\ UNCHANGED <<real, view>>

Next ==
    \/ \E m \in Match : Reschedule(m) \/ Finish(m)
    \/ \E p \in Provider, m \in Match : Publish(p, m) \/ Upsert(p, m)

Spec == Init /\ [][Next]_vars

\* Providers keep up with what they list, and every sync reads what they list.
FairSpec ==
    Spec /\ \A p \in Provider, m \in Match : WF_vars(Publish(p, m)) /\ WF_vars(Upsert(p, m))

---------------------------------------------------------------------------
(* Properties *)

\* No two matches share an event, in whatever order, under whatever names and however late
\* their listings arrive (upsert_event's candidates and canonical key).
NoFalseMerge ==
    \A j, k \in DOMAIN db.eventOf : db.eventOf[j] = db.eventOf[k] => j[2] = k[2]

\* The two rows of events' unique constraints never meet a duplicate, so no sync fails on
\* them: neither the (salted) canonical key nor the provider's id.
KeysUnique ==
    \A e, f \in DOMAIN db.events :
        e # f => /\ db.events[e].key # db.events[f].key
                 /\ db.events[e].by # db.events[f].by

\* A participant row stands for one team, and an event is between the rows of its two teams:
\* ids of one provider say nothing of another's (resolve_participant).
TeamsApart ==
    \A k \in DOMAIN db.eventOf :
        LET e == db.events[db.eventOf[k]]
            Names(team) == UNION {NamesOf[p][team] : p \in Provider}
            team1 == Plan[k[2]].home
            team2 == Plan[k[2]].away
        IN  \/ /\ db.entities[e.home].name \in Names(team1)
               /\ db.entities[e.away].name \in Names(team2)
            \/ /\ db.entities[e.home].name \in Names(team2)
               /\ db.entities[e.away].name \in Names(team1)

\* A match that is over stays over, whatever listings arrive late (line 198): only one of a
\* provider of results that has not seen the result can reopen it.
FinalStays ==
    [][\A e \in DOMAIN db.events :
          db.events[e].status = "FINAL" =>
              \/ db'.events[e].status = "FINAL"
              \/ \E p \in Scorer, m \in Match : /\ view[p][m].rev > 0 /\ ~view[p][m].over
                                              /\ <<p, m>> \in DOMAIN db'.eventOf
                                              /\ db'.eventOf[<<p, m>>] = e]_vars

\* Two providers that agree on a football match and on its time, within ten minutes, share
\* its event, if the other's listing of it is not split already.
AgreeingListingsJoin ==
    [][\A k \in DOMAIN db'.eventOf \ DOMAIN db.eventOf :
          LET p == k[1]
              m == k[2]
              others == {db.eventOf[j] : j \in {j \in DOMAIN db.eventOf : j[2] = m}}
          IN  Plan[m].sport = "football" /\ k \notin Swapped =>
                  \A e \in others :
                      /\ Distance(db.events[e].start, Plan[m].times[view[p][m].rev]) <= Window
                      /\ others = {e}
                      => db'.eventOf[k] = e]_vars

\* Once listings settle, every event they lead to has the time of its match, and is final if
\* the match is over and a provider of results lists it.
EventuallyCurrent ==
    <>[](\A k \in DOMAIN db.eventOf :
            LET e == db.events[db.eventOf[k]]
                m == k[2]
            IN  /\ e.start = Plan[m].times[real[m].rev]
                /\ real[m].over /\ k[1] \in Scorer => e.status = "FINAL")

\* docs/SPORTMONKS_INGESTION.md: a listing is matched to a known event at most ten minutes
\* from it.
MatchedWithinTenMinutes ==
    [][\A k \in DOMAIN db'.eventOf \ DOMAIN db.eventOf :
          LET e == db'.eventOf[k]
          IN  e \in DOMAIN db.events =>
                  Distance(db.events[e].start, Plan[k[2]].times[view[k[1]][k[2]].rev]) <= Window]_vars

===========================================================================
