-------------------------- MODULE IngestionProofs --------------------------
(***************************************************************************)
(* Proofs about Ingestion, for any matches, providers, names and ids that  *)
(* keep its assumptions, in whatever order their listings arrive.  A row   *)
(* stands for one team or one competition, and an event for one match: the *)
(* one of the listing it was made of.                                      *)
(***************************************************************************)
EXTENDS Ingestion, FiniteSetTheorems, TLAPS

Team == UNION {Teams(s) : s \in Sport}
Name == UNION {UNION {NamesOf[p][a] : a \in Team} : p \in Provider}
Listing == Provider \X Match

Entity == [sport : Sport, name : Name]
Comp == [sport : Sport, key : {CompKeyOf[p][c] : p \in Provider, c \in UNION {Comps(s) : s \in Sport}},
         name : {CompNameOf[p][c] : p \in Provider, c \in UNION {Comps(s) : s \in Sport}}]
Key == [sport : Sport, minute : Nat, salt : {<<>>} \union Listing, names : Name \X Name]
Event == [sport : Sport, comp : Nat, home : Nat, away : Nat, start : Nat,
          status : {"SCHEDULED", "FINAL"}, key : Key, by : Listing]

Types(d) ==
    /\ d = [entities |-> d.entities, mapped |-> d.mapped, aliases |-> d.aliases,
            comps |-> d.comps, events |-> d.events, eventOf |-> d.eventOf]
    /\ d.entities \in Seq(Entity)
    /\ d.comps \in Seq(Comp)
    /\ d.events \in Seq(Event)

---------------------------------------------------------------------------
(* What the rows stand for *)

\* Row i is of team a, under a name some provider has for it.
Stands(d, i, sport, a) ==
    /\ i \in DOMAIN d.entities
    /\ d.entities[i].sport = sport
    /\ a \in Teams(sport)
    /\ \E p \in Provider : d.entities[i].name \in NamesOf[p][a]

\* Row i is of competition c, with the key and the name of one provider.
IsComp(d, i, sport, c) ==
    /\ i \in DOMAIN d.comps
    /\ d.comps[i].sport = sport
    /\ c \in Comps(sport)
    /\ \E p \in Provider : d.comps[i].key = CompKeyOf[p][c] /\ d.comps[i].name = CompNameOf[p][c]

\* The rows are of the sides of m, in the order of some provider.
Between(d, home, away, m) ==
    LET sport == Plan[m].sport
    IN  \/ Stands(d, home, sport, Plan[m].home) /\ Stands(d, away, sport, Plan[m].away)
        \/ Stands(d, home, sport, Plan[m].away) /\ Stands(d, away, sport, Plan[m].home)

\* Event e has the sport, the competition, the sides and a time of m, and the minute of its
\* key was a time of m.
OfMatch(d, e, m) ==
    LET v == d.events[e]
        sport == Plan[m].sport
    IN  /\ v.sport = sport /\ v.key.sport = sport
        /\ IsComp(d, v.comp, sport, Plan[m].comp)
        /\ \E i \in DOMAIN Plan[m].times : v.start = Plan[m].times[i]
        /\ \E i \in DOMAIN Plan[m].times : v.key.minute = Plan[m].times[i] \div 2
        /\ Between(d, v.home, v.away, m)

\* An id of a provider leads to the row of its team.
MappedRight(d) ==
    \A k \in DOMAIN d.mapped :
        \E p \in Provider, sport \in Sport : \E a \in Teams(sport) : \E n \in NamesOf[p][a] :
            k = <<p, sport, ParticipantId(p, a, n)>> /\ Stands(d, d.mapped[k], sport, a)

\* So does an alias.
AliasedRight(d) ==
    \A x \in d.aliases :
        \E p \in Provider, a \in Teams(x.sport) :
            x.sport \in Sport /\ x.name \in NamesOf[p][a] /\ Stands(d, x.id, x.sport, a)

CompsRight(d) ==
    \A i \in DOMAIN d.comps : \E c \in Comps(d.comps[i].sport) : IsComp(d, i, d.comps[i].sport, c)

\* A listing leads to an event of its match, and every event to the listing it was made of.
EventsRight(d) ==
    /\ \A k \in DOMAIN d.eventOf : /\ k \in Listing
                                   /\ d.eventOf[k] \in DOMAIN d.events
                                   /\ OfMatch(d, d.eventOf[k], k[2])
    /\ \A e \in DOMAIN d.events : /\ d.events[e].by \in DOMAIN d.eventOf
                                  /\ d.eventOf[d.events[e].by] = e

\* A key is of one event, and salted with the origin of its event if at all.
KeysRight(d) ==
    /\ \A e, f \in DOMAIN d.events : d.events[e].key = d.events[f].key => e = f
    /\ \A e \in DOMAIN d.events : d.events[e].key.salt \in {<<>>, d.events[e].by}

Identity(d) ==
    Types(d) /\ MappedRight(d) /\ AliasedRight(d) /\ CompsRight(d) /\ EventsRight(d) /\ KeysRight(d)

\* A name of a participant and a name of a competition are of one row each.
Unique(d) ==
    /\ \A i, j \in DOMAIN d.entities : d.entities[i] = d.entities[j] => i = j
    /\ \A i, j \in DOMAIN d.comps :
          d.comps[i].sport = d.comps[j].sport /\ d.comps[i].name = d.comps[j].name => i = j

\* Football events have their sides in the order of the plan.
InOrder(d) ==
    \A x \in DOMAIN d.events :
        LET v == d.events[x]
            m == v.by[2]
        IN  Plan[m].sport = "football" => /\ Stands(d, v.home, Plan[m].sport, Plan[m].home)
                                         /\ Stands(d, v.away, Plan[m].sport, Plan[m].away)

Revisions ==
    /\ real \in [Match -> [rev : Nat, over : BOOLEAN]]
    /\ view \in [Provider -> [Match -> [rev : Nat, over : BOOLEAN]]]
    /\ \A m \in Match : real[m].rev \in 1..Len(Plan[m].times)
    /\ \A p \in Provider, m \in Match : view[p][m].rev \in 0..Len(Plan[m].times)

IInv == Revisions /\ Identity(db)

---------------------------------------------------------------------------
(* Names, ids and rows *)

\* The first row of a set of rows is one of them.
LEMMA FirstOfThem ==
    ASSUME NEW S \in SUBSET Nat, S # {}
    PROVE  First(S) \in S
<1>1. PICK x \in S : \A y \in S : ~(<<y, x>> \in OpToRel(<, Nat))
  BY NatLessThanWellFounded, WFMin
<1>2. \A y \in S : ~(y < x)
  BY <1>1 DEF OpToRel
<1>3. \E z \in S : \A y \in S : z =< y
  BY <1>2
<1> QED BY <1>3 DEF First, Min

\* The sides and the competition of a match are teams and a competition of its sport.
LEMMA MatchTeams ==
    ASSUME NEW m \in Match
    PROVE  /\ Plan[m].sport \in Sport
           /\ Plan[m].home \in Teams(Plan[m].sport) /\ Plan[m].away \in Teams(Plan[m].sport)
           /\ Plan[m].comp \in Comps(Plan[m].sport)
           /\ Plan[m].times \in Seq(Nat) /\ DOMAIN Plan[m].times = 1..Len(Plan[m].times)
           /\ Len(Plan[m].times) \in Nat \ {0}
<1>1. Plan[m].sport \in Sport /\ Plan[m].times \in Seq(Nat) /\ Plan[m].times # <<>>
  BY MatchAssumption
<1>2. m \in {n \in Match : Plan[n].sport = Plan[m].sport}
  OBVIOUS
<1>3. Plan[m].home \in Teams(Plan[m].sport) /\ Plan[m].away \in Teams(Plan[m].sport)
  BY <1>2 DEF Teams
<1>4. Plan[m].comp \in Comps(Plan[m].sport)
  BY <1>2 DEF Comps
<1> QED BY <1>1, <1>3, <1>4

\* A row is of one team.
LEMMA StandsForOne ==
    ASSUME NEW d, NEW i, NEW sport \in Sport, NEW a, NEW b,
           Stands(d, i, sport, a), Stands(d, i, sport, b)
    PROVE  a = b
<1>1. PICK p \in Provider : d.entities[i].name \in NamesOf[p][a]
  BY DEF Stands
<1>2. PICK q \in Provider : d.entities[i].name \in NamesOf[q][b]
  BY DEF Stands
<1>3. NamesOf[p][a] \cap NamesOf[q][b] # {}
  BY <1>1, <1>2
<1> QED BY <1>3, NameAssumption DEF Stands

\* A row is of one competition.
LEMMA CompOfOne ==
    ASSUME NEW d, NEW i, NEW sport \in Sport, NEW a, NEW b,
           IsComp(d, i, sport, a), IsComp(d, i, sport, b)
    PROVE  a = b
<1>1. PICK p \in Provider : d.comps[i].name = CompNameOf[p][a]
  BY DEF IsComp
<1>2. PICK q \in Provider : d.comps[i].name = CompNameOf[q][b]
  BY DEF IsComp
<1>3. a \in Comps(sport) /\ b \in Comps(sport)
  BY DEF IsComp
<1>4. a # b => CompNameOf[p][a] # CompNameOf[q][b]
  BY <1>3, NameAssumption
<1> QED BY <1>1, <1>2, <1>4

\* What resolve_participant looks up under a provider's id names one team.
LEMMA IdOfOne ==
    ASSUME NEW p \in Provider, NEW sport \in Sport, NEW a \in Teams(sport), NEW b \in Teams(sport),
           NEW n \in NamesOf[p][a], NEW o \in NamesOf[p][b],
           ParticipantId(p, a, n) = ParticipantId(p, b, o)
    PROVE  a = b
<1>1. CASE IdOf[p][a] # 0 /\ IdOf[p][b] # 0
  BY <1>1, IdAssumption DEF ParticipantId
<1>2. CASE IdOf[p][a] = 0 /\ IdOf[p][b] = 0
  <2>1. n = o
    BY <1>2 DEF ParticipantId
  <2> QED BY <2>1, NameAssumption
<1>3. CASE IdOf[p][a] = 0 <=> IdOf[p][b] # 0
  BY <1>3 DEF ParticipantId
<1> QED BY <1>1, <1>2, <1>3

\* A name of a team is a name.
LEMMA TeamName ==
    ASSUME NEW p \in Provider, NEW sport \in Sport, NEW a \in Teams(sport), NEW n \in NamesOf[p][a]
    PROVE  n \in Name
<1>1. a \in Team
  BY DEF Team
<1>2. n \in UNION {NamesOf[p][b] : b \in Team}
  BY <1>1
<1> QED BY <1>2 DEF Name

\* Appending a row keeps the rows there are.
LEMMA AppendRow ==
    ASSUME NEW S, NEW s \in Seq(S), NEW x \in S
    PROVE  /\ Append(s, x) \in Seq(S) /\ Len(s) \in Nat
           /\ DOMAIN s = 1..Len(s) /\ DOMAIN Append(s, x) = 1..(Len(s) + 1)
           /\ \A i \in DOMAIN s : i \in DOMAIN Append(s, x) /\ Append(s, x)[i] = s[i]
           /\ Append(s, x)[Len(s) + 1] = x
           /\ \A i \in DOMAIN Append(s, x) : i \in DOMAIN s \/ i = Len(s) + 1
  OBVIOUS

\* The rows of d are rows of e, and its ids lead to the same rows there.
Extends(d, e) ==
    /\ \A i \in DOMAIN d.entities : i \in DOMAIN e.entities /\ e.entities[i] = d.entities[i]
    /\ \A i \in DOMAIN d.comps : i \in DOMAIN e.comps /\ e.comps[i] = d.comps[i]
    /\ \A k \in DOMAIN d.mapped : k \in DOMAIN e.mapped /\ e.mapped[k] = d.mapped[k]

\* What a row stands for, it stands for when there are more.
LEMMA RowsKept ==
    ASSUME NEW d, NEW e, Extends(d, e)
    PROVE  /\ \A i, sport, a : Stands(d, i, sport, a) => Stands(e, i, sport, a)
           /\ \A i, sport, c : IsComp(d, i, sport, c) => IsComp(e, i, sport, c)
<1>1. \A i, sport, a : Stands(d, i, sport, a) => Stands(e, i, sport, a)
  BY DEF Stands, Extends
<1>2. \A i, sport, c : IsComp(d, i, sport, c) => IsComp(e, i, sport, c)
  BY DEF IsComp, Extends
<1> QED BY <1>1, <1>2

\* So do the events.
LEMMA EventsKept ==
    ASSUME NEW d, NEW e, Extends(d, e), EventsRight(d),
           e.events = d.events, e.eventOf = d.eventOf
    PROVE  EventsRight(e)
<1>1. ASSUME NEW x, NEW m, OfMatch(d, x, m) PROVE OfMatch(e, x, m)
  BY <1>1, RowsKept DEF OfMatch, Between
<1> QED BY <1>1 DEF EventsRight

---------------------------------------------------------------------------
(* resolve_participant *)

\* The row a participant is resolved to when its id is new.
LEMMA KnownRow ==
    ASSUME NEW d, Types(d), AliasedRight(d), NEW sport \in Sport, NEW p \in Provider,
           NEW a \in Teams(sport), NEW n \in NamesOf[p][a]
    PROVE  LET named == {i \in DOMAIN d.entities : d.entities[i] = [sport |-> sport, name |-> n]}
               aliased == {x.id : x \in {x \in d.aliases : x.sport = sport /\ x.name = n}}
           IN  \A i \in named \cup aliased : i \in Nat /\ Stands(d, i, sport, a)
<1>1. ASSUME NEW i \in DOMAIN d.entities, d.entities[i] = [sport |-> sport, name |-> n]
      PROVE  i \in Nat /\ Stands(d, i, sport, a)
  <2>1. i \in Nat
    BY <1>1 DEF Types
  <2>2. Stands(d, i, sport, a)
    BY <1>1 DEF Stands
  <2> QED BY <2>1, <2>2
<1>2. ASSUME NEW x \in d.aliases, x.sport = sport, x.name = n
      PROVE  x.id \in Nat /\ Stands(d, x.id, sport, a)
  <2>1. PICK q \in Provider, b \in Teams(sport) :
            n \in NamesOf[q][b] /\ Stands(d, x.id, sport, b)
    BY <1>2 DEF AliasedRight
  <2>2. n \in NamesOf[p][a] \cap NamesOf[q][b]
    BY <2>1
  <2>3. a = b
    BY <2>2, NameAssumption
  <2>4. x.id \in Nat
    BY <2>1 DEF Stands, Types
  <2> QED BY <2>1, <2>3, <2>4
<1> QED BY <1>1, <1>2

\* The fields of the database after a new row, a new id or a new alias.
LEMMA ResolveFields ==
    ASSUME NEW d, Types(d), NEW sport \in Sport, NEW p \in Provider,
           NEW a \in Teams(sport), NEW n \in NamesOf[p][a], NEW ext,
           <<p, sport, ext>> \notin DOMAIN d.mapped, AliasedRight(d)
    PROVE  LET e == Resolve(d, p, sport, ext, n)
           IN  \E id \in Nat :
                /\ Types(e) /\ Extends(d, e) /\ Stands(e, id, sport, a)
                /\ e.mapped = Put(d.mapped, <<p, sport, ext>>, id)
                /\ \A x \in e.aliases :
                        x \in d.aliases \/ x = [sport |-> sport, name |-> n, by |-> p, id |-> id]
                /\ e.comps = d.comps /\ e.events = d.events /\ e.eventOf = d.eventOf
<1> DEFINE named == {i \in DOMAIN d.entities : d.entities[i] = [sport |-> sport, name |-> n]}
           aliased == {x.id : x \in {x \in d.aliases : x.sport = sport /\ x.name = n}}
           known == IF named # {} THEN named
                    ELSE IF sport = "football" /\ Cardinality(aliased) = 1 THEN aliased ELSE {}
           id == IF known # {} THEN First(known) ELSE Len(d.entities) + 1
           told == \E x \in d.aliases : x.sport = sport /\ x.name = n /\ x.by = p
           row == [sport |-> sport, name |-> n]
           e == Resolve(d, p, sport, ext, n)
           entities == IF known # {} THEN d.entities ELSE Append(d.entities, row)
           aliases == IF told THEN d.aliases
                      ELSE d.aliases \union {[sport |-> sport, name |-> n, by |-> p, id |-> id]}
<1>1. e = [entities |-> entities, mapped |-> Put(d.mapped, <<p, sport, ext>>, id),
           aliases |-> aliases, comps |-> d.comps, events |-> d.events, eventOf |-> d.eventOf]
  <2>1. e = [d EXCEPT !.entities = entities, !.mapped = Put(@, <<p, sport, ext>>, id),
                      !.aliases = aliases]
    BY DEF Resolve
  <2> HIDE DEF e, entities, aliases, id
  <2> QED BY <2>1 DEF Types
<1>2. \A i \in known : i \in Nat /\ Stands(d, i, sport, a)
  BY KnownRow
<1>3. row \in Entity
  BY TeamName DEF Entity
<1>4. known # {} => id \in Nat /\ Stands(d, id, sport, a)
  <2>1. known # {} => First(known) \in known
    BY <1>2, FirstOfThem
  <2> HIDE DEF known
  <2> QED BY <1>2, <2>1
<1> HIDE DEF known, told, e
<1>5. /\ entities \in Seq(Entity) /\ id \in Nat
      /\ \A i \in DOMAIN d.entities : i \in DOMAIN entities /\ entities[i] = d.entities[i]
      /\ known = {} => id \in DOMAIN entities /\ entities[id] = row
  <2>1. d.entities \in Seq(Entity)
    BY DEF Types
  <2>2. CASE known = {}
    BY <1>3, <2>1, <2>2, AppendRow
  <2>3. CASE known # {}
    BY <1>4, <2>1, <2>3
  <2> QED BY <2>2, <2>3
<1>6. Extends(d, e)
  BY <1>1, <1>5 DEF Extends, Put
<1>7. Stands(e, id, sport, a)
  <2>1. CASE known # {}
    BY <1>4, <1>6, <2>1, RowsKept
  <2>2. CASE known = {}
    BY <1>1, <1>5, <2>2 DEF Stands
  <2> QED BY <2>1, <2>2
<1>8. Types(e)
  BY <1>1, <1>5 DEF Types
<1>9. \A x \in e.aliases :
          x \in d.aliases \/ x = [sport |-> sport, name |-> n, by |-> p, id |-> id]
  BY <1>1
<1>10. /\ e.mapped = Put(d.mapped, <<p, sport, ext>>, id)
       /\ e.comps = d.comps /\ e.events = d.events /\ e.eventOf = d.eventOf
  BY <1>1
<1>11. id \in Nat
  BY <1>5
<1> HIDE DEF id
<1>12. \E i \in Nat :
          /\ Types(e) /\ Extends(d, e) /\ Stands(e, i, sport, a)
          /\ e.mapped = Put(d.mapped, <<p, sport, ext>>, i)
          /\ \A x \in e.aliases :
                  x \in d.aliases \/ x = [sport |-> sport, name |-> n, by |-> p, id |-> i]
          /\ e.comps = d.comps /\ e.events = d.events /\ e.eventOf = d.eventOf
  BY <1>6, <1>7, <1>8, <1>9, <1>10, <1>11
<1> QED BY <1>12 DEF e

\* A participant is resolved to a row of its team, under its id from then on.
LEMMA ResolveRight ==
    ASSUME NEW d, Identity(d), NEW sport \in Sport, NEW p \in Provider,
           NEW a \in Teams(sport), NEW n \in NamesOf[p][a]
    PROVE  LET ext == ParticipantId(p, a, n)
               e == Resolve(d, p, sport, ext, n)
           IN  /\ Identity(e) /\ Extends(d, e)
               /\ <<p, sport, ext>> \in DOMAIN e.mapped
               /\ Stands(e, e.mapped[<<p, sport, ext>>], sport, a)
               /\ e.comps = d.comps /\ e.events = d.events /\ e.eventOf = d.eventOf
<1> DEFINE ext == ParticipantId(p, a, n)
           key == <<p, sport, ext>>
           e == Resolve(d, p, sport, ext, n)
<1>1. CASE key \in DOMAIN d.mapped
  <2>1. e = d /\ Extends(d, e)
    BY <1>1 DEF Resolve, Extends
  <2>2. PICK q \in Provider, s \in Sport : \E b \in Teams(s) : \E o \in NamesOf[q][b] :
            key = <<q, s, ParticipantId(q, b, o)>> /\ Stands(d, d.mapped[key], s, b)
    BY <1>1 DEF Identity, MappedRight
  <2>3. q = p /\ s = sport
    BY <2>2
  <2>4. Stands(d, d.mapped[key], sport, a)
    <3>1. PICK b \in Teams(sport) : \E o \in NamesOf[p][b] :
              key = <<p, sport, ParticipantId(p, b, o)>> /\ Stands(d, d.mapped[key], sport, b)
      BY <2>2, <2>3
    <3>2. PICK o \in NamesOf[p][b] : ParticipantId(p, a, n) = ParticipantId(p, b, o)
      BY <3>1
    <3> QED BY <3>1, <3>2, IdOfOne
  <2> QED BY <1>1, <2>1, <2>4
<1>2. CASE key \notin DOMAIN d.mapped
  <2>1. PICK id \in Nat :
            /\ Types(e) /\ Extends(d, e) /\ Stands(e, id, sport, a)
            /\ e.mapped = Put(d.mapped, key, id)
            /\ \A x \in e.aliases :
                    x \in d.aliases \/ x = [sport |-> sport, name |-> n, by |-> p, id |-> id]
            /\ e.comps = d.comps /\ e.events = d.events /\ e.eventOf = d.eventOf
    BY <1>2, ResolveFields DEF Identity
  <2> HIDE DEF e
  <2>2. key \in DOMAIN e.mapped /\ e.mapped[key] = id
    BY <1>2, <2>1 DEF Put
  <2>3. MappedRight(e)
    <3> SUFFICES ASSUME NEW k \in DOMAIN e.mapped
                 PROVE  \E q \in Provider, s \in Sport : \E b \in Teams(s) : \E o \in NamesOf[q][b] :
                            k = <<q, s, ParticipantId(q, b, o)>> /\ Stands(e, e.mapped[k], s, b)
      BY DEF MappedRight
    <3>1. CASE k = key
      BY <2>1, <2>2, <3>1
    <3>2. CASE k \in DOMAIN d.mapped
      <4>1. e.mapped[k] = d.mapped[k]
        BY <2>1, <3>2 DEF Extends
      <4>2. \A s, b : Stands(d, d.mapped[k], s, b) => Stands(e, e.mapped[k], s, b)
        BY <2>1, <4>1, RowsKept
      <4> QED BY <3>2, <4>2 DEF Identity, MappedRight
    <3> QED BY <2>1, <3>1, <3>2 DEF Put
  <2>4. AliasedRight(e)
    <3> SUFFICES ASSUME NEW x \in e.aliases
                 PROVE  \E q \in Provider, b \in Teams(x.sport) :
                            x.sport \in Sport /\ x.name \in NamesOf[q][b]
                            /\ Stands(e, x.id, x.sport, b)
      BY DEF AliasedRight
    <3>1. CASE x \in d.aliases
      <4>1. PICK q \in Provider, b \in Teams(x.sport) :
                x.sport \in Sport /\ x.name \in NamesOf[q][b] /\ Stands(d, x.id, x.sport, b)
        BY <3>1 DEF Identity, AliasedRight
      <4> QED BY <2>1, <4>1, RowsKept
    <3>2. CASE x = [sport |-> sport, name |-> n, by |-> p, id |-> id]
      BY <2>1, <3>2
    <3> QED BY <2>1, <3>1, <3>2
  <2>5. CompsRight(e) /\ EventsRight(e) /\ KeysRight(e)
    <3>1. EventsRight(e)
      BY <2>1, EventsKept DEF Identity
    <3>2. CompsRight(e)
      BY <2>1, RowsKept DEF Identity, CompsRight
    <3>3. KeysRight(e)
      BY <2>1 DEF Identity, KeysRight
    <3> QED BY <3>1, <3>2, <3>3
  <2> QED BY <2>1, <2>2, <2>3, <2>4, <2>5 DEF Identity, e
<1> QED BY <1>1, <1>2

\* A row is added only for a name that has none.
LEMMA ResolveUnique ==
    ASSUME NEW d, Types(d), Unique(d), NEW p, NEW sport, NEW ext, NEW n
    PROVE  Unique(Resolve(d, p, sport, ext, n))
<1> DEFINE named == {i \in DOMAIN d.entities : d.entities[i] = [sport |-> sport, name |-> n]}
           row == [sport |-> sport, name |-> n]
           e == Resolve(d, p, sport, ext, n)
<1>1. e.comps = d.comps
  BY DEF Resolve, Types
<1>2. e.entities = d.entities \/ (named = {} /\ e.entities = Append(d.entities, row))
  BY DEF Resolve, Types
<1>3. d.entities \in Seq(Entity)
  BY DEF Types
<1> HIDE DEF e
<1>4. ASSUME named = {}, e.entities = Append(d.entities, row),
             NEW i \in DOMAIN e.entities, NEW j \in DOMAIN e.entities,
             e.entities[i] = e.entities[j]
      PROVE  i = j
  <2>1. \A x \in DOMAIN d.entities : d.entities[x] # row
    BY <1>4
  <2>2. /\ DOMAIN d.entities = 1..Len(d.entities) /\ Len(d.entities) \in Nat
        /\ DOMAIN e.entities = 1..Len(d.entities) + 1
        /\ e.entities[Len(d.entities) + 1] = row
        /\ \A x \in DOMAIN d.entities : e.entities[x] = d.entities[x]
    BY <1>3, <1>4
  <2> HIDE DEF row
  <2>3. \A x \in DOMAIN e.entities : x \in DOMAIN d.entities \/ x = Len(d.entities) + 1
    BY <2>2
  <2> QED BY <1>4, <2>1, <2>2, <2>3 DEF Unique
<1>5. \A i, j \in DOMAIN e.entities : e.entities[i] = e.entities[j] => i = j
  BY <1>2, <1>4 DEF Unique
<1>6. Unique(e)
  BY <1>1, <1>5 DEF Unique
<1> QED BY <1>6 DEF e

---------------------------------------------------------------------------
(* _competition *)

\* So is a competition.
LEMMA CompUnique ==
    ASSUME NEW d, Types(d), Unique(d), NEW sport, NEW key, NEW name
    PROVE  Unique(WithComp(d, sport, key, name))
<1> DEFINE named == {i \in DOMAIN d.comps : d.comps[i].sport = sport /\ d.comps[i].name = name}
           keyed == {i \in DOMAIN d.comps :
                        key # NoKey /\ d.comps[i].sport = sport /\ d.comps[i].key = key}
           row == [sport |-> sport, key |-> key, name |-> name]
           id == CompOf(d, sport, key, name)
           e == WithComp(d, sport, key, name)
<1>1. d.comps \in Seq(Comp) /\ DOMAIN d.comps = 1..Len(d.comps) /\ Len(d.comps) \in Nat
  BY DEF Types
<1>2. CASE id \in DOMAIN d.comps
  BY <1>2 DEF WithComp
<1>3. CASE id \notin DOMAIN d.comps
  <2>1. named = {}
    <3>1. named \in SUBSET Nat /\ keyed \in SUBSET Nat
      BY <1>1
    <3>2. (named # {} => First(named) \in named) /\ (keyed # {} => First(keyed) \in keyed)
      BY <3>1, FirstOfThem
    <3>3. id = IF keyed # {} THEN First(keyed) ELSE IF named # {} THEN First(named)
               ELSE Len(d.comps) + 1
      BY DEF CompOf
    <3>4. keyed \subseteq DOMAIN d.comps /\ named \subseteq DOMAIN d.comps
      OBVIOUS
    <3> HIDE DEF named, keyed, id
    <3> QED BY <1>3, <3>2, <3>3, <3>4
  <2>2. e.comps = Append(d.comps, row) /\ e.entities = d.entities
    BY <1>3 DEF WithComp, Types
  <2> HIDE DEF e
  <2>3. /\ DOMAIN e.comps = 1..Len(d.comps) + 1
        /\ e.comps[Len(d.comps) + 1] = row
        /\ \A x \in DOMAIN d.comps : e.comps[x] = d.comps[x]
    BY <1>1, <2>2
  <2>4. \A x \in DOMAIN d.comps : ~(d.comps[x].sport = row.sport /\ d.comps[x].name = row.name)
    BY <2>1
  <2> HIDE DEF row
  <2>5. \A x \in DOMAIN e.comps : x \in DOMAIN d.comps \/ x = Len(d.comps) + 1
    BY <1>1, <2>3
  <2>6. \A i, j \in DOMAIN e.comps :
            e.comps[i].sport = e.comps[j].sport /\ e.comps[i].name = e.comps[j].name => i = j
    BY <2>3, <2>4, <2>5 DEF Unique
  <2>7. Unique(e)
    BY <2>2, <2>6 DEF Unique
  <2> QED BY <2>7 DEF e
<1> QED BY <1>2, <1>3

\* A competition is resolved to a row of its own, and WithComp makes it if there is none.
LEMMA CompRight ==
    ASSUME NEW d, Identity(d), NEW sport \in Sport, NEW p \in Provider, NEW c \in Comps(sport)
    PROVE  LET key == CompKeyOf[p][c]
               name == CompNameOf[p][c]
               e == WithComp(d, sport, key, name)
           IN  /\ Identity(e) /\ Extends(d, e)
               /\ CompOf(d, sport, key, name) \in Nat
               /\ IsComp(e, CompOf(d, sport, key, name), sport, c)
               /\ e.events = d.events /\ e.eventOf = d.eventOf
<1> DEFINE key == CompKeyOf[p][c]
           name == CompNameOf[p][c]
           e == WithComp(d, sport, key, name)
           keyed == {i \in DOMAIN d.comps :
                        key # NoKey /\ d.comps[i].sport = sport /\ d.comps[i].key = key}
           named == {i \in DOMAIN d.comps : d.comps[i].sport = sport /\ d.comps[i].name = name}
           id == CompOf(d, sport, key, name)
           row == [sport |-> sport, key |-> key, name |-> name]
<1>1. d.comps \in Seq(Comp) /\ DOMAIN d.comps = 1..Len(d.comps) /\ Len(d.comps) \in Nat
  BY DEF Identity, Types
<1>2. ASSUME NEW i \in keyed \cup named PROVE i \in Nat /\ IsComp(d, i, sport, c)
  <2>1. PICK b \in Comps(sport) : IsComp(d, i, sport, b)
    BY <1>2 DEF Identity, CompsRight
  <2>2. PICK q \in Provider : d.comps[i].key = CompKeyOf[q][b] /\ d.comps[i].name = CompNameOf[q][b]
    BY <2>1 DEF IsComp
  <2>3. (CompKeyOf[q][b] = key /\ key # NoKey) \/ CompNameOf[q][b] = name
    BY <1>2, <2>2
  <2>4. b = c
    BY <2>3, NameAssumption
  <2> QED BY <1>1, <1>2, <2>1, <2>4
<1>3. id = IF keyed # {} THEN First(keyed) ELSE IF named # {} THEN First(named)
           ELSE Len(d.comps) + 1
  BY DEF CompOf
<1>4. CASE keyed \cup named # {}
  <2>1. id \in keyed \cup named
    <3>1. keyed \in SUBSET Nat /\ named \in SUBSET Nat
      BY <1>2
    <3>2. (keyed # {} => First(keyed) \in keyed) /\ (named # {} => First(named) \in named)
      BY <3>1, FirstOfThem
    <3> HIDE DEF keyed, named, id
    <3> QED BY <1>3, <1>4, <3>2
  <2>2. id \in Nat /\ IsComp(d, id, sport, c)
    BY <1>2, <2>1
  <2>3. e = d
    BY <2>1, <2>2 DEF WithComp, IsComp
  <2> QED BY <2>2, <2>3 DEF Extends
<1>5. CASE keyed \cup named = {}
  <2>1. id = Len(d.comps) + 1
    <3> HIDE DEF keyed, named, id
    <3> QED BY <1>3, <1>5
  <2>2. e = [entities |-> d.entities, mapped |-> d.mapped, aliases |-> d.aliases,
             comps |-> Append(d.comps, row), events |-> d.events, eventOf |-> d.eventOf]
    <3>1. e = [d EXCEPT !.comps = Append(@, row)]
      BY <1>1, <2>1 DEF WithComp
    <3> HIDE DEF e, row
    <3> QED BY <3>1 DEF Identity, Types
  <2>3. row \in Comp
    BY DEF Comp
  <2> HIDE DEF e, row, key, name
  <2>4. Extends(d, e)
    BY <1>1, <2>2, <2>3, AppendRow DEF Extends
  <2>5. e.comps \in Seq(Comp) /\ id \in DOMAIN e.comps /\ e.comps[id] = row
        /\ \A i \in DOMAIN e.comps : i \in DOMAIN d.comps \/ i = id
    BY <1>1, <2>1, <2>2, <2>3, AppendRow
  <2>6. IsComp(e, id, sport, c)
    BY <2>5 DEF IsComp, row, key, name
  <2>7. Types(e)
    BY <2>2, <2>5 DEF Identity, Types
  <2>8. MappedRight(e)
    BY <2>2, <2>4, RowsKept DEF Identity, MappedRight
  <2>9. AliasedRight(e)
    BY <2>2, <2>4, RowsKept DEF Identity, AliasedRight
  <2>10. CompsRight(e)
    <3> SUFFICES ASSUME NEW i \in DOMAIN e.comps
                 PROVE  \E b \in Comps(e.comps[i].sport) : IsComp(e, i, e.comps[i].sport, b)
      BY DEF CompsRight
    <3>1. CASE i = id
      BY <2>5, <2>6, <3>1 DEF row
    <3>2. CASE i \in DOMAIN d.comps
      <4>1. e.comps[i] = d.comps[i]
        BY <2>4, <3>2 DEF Extends
      <4> QED BY <2>4, <3>2, <4>1, RowsKept DEF Identity, CompsRight
    <3> QED BY <2>5, <3>1, <3>2
  <2>11. EventsRight(e) /\ KeysRight(e)
    BY <2>2, <2>4, EventsKept DEF Identity, KeysRight
  <2>12. id \in Nat
    BY <1>1, <2>1
  <2> QED BY <2>2, <2>4, <2>6, <2>7, <2>8, <2>9, <2>10, <2>11, <2>12 DEF Identity, e, key, name
<1> QED BY <1>4, <1>5

---------------------------------------------------------------------------
(* upsert_event *)

\* A listing of m whose competition and sides are resolved.
Listed(d, m, l) ==
    /\ l.sport = Plan[m].sport
    /\ l.comp \in Nat /\ IsComp(d, l.comp, Plan[m].sport, Plan[m].comp)
    /\ l.home \in Nat /\ l.away \in Nat /\ Between(d, l.home, l.away, m)
    /\ \E i \in DOMAIN Plan[m].times : l.start = Plan[m].times[i]
    /\ l.homeName \in Name /\ l.awayName \in Name
    /\ l.status \in {"SCHEDULED", "FINAL"}

\* Two matches of the same sides and competition that are near in time are one.
LEMMA OneFixture ==
    ASSUME NEW d, NEW m \in Match, NEW n \in Match, Plan[m].sport = Plan[n].sport,
           NEW c, IsComp(d, c, Plan[m].sport, Plan[m].comp), IsComp(d, c, Plan[n].sport, Plan[n].comp),
           NEW home, NEW away, Between(d, home, away, m), Between(d, home, away, n),
           NEW i \in DOMAIN Plan[m].times, NEW j \in DOMAIN Plan[n].times,
           Distance(Plan[m].times[i], Plan[n].times[j]) <= Window
    PROVE  m = n
<1>1. Plan[m].sport \in Sport
  BY MatchAssumption
<1>2. Plan[m].comp = Plan[n].comp
  BY <1>1, CompOfOne
<1>3. {Plan[m].home, Plan[m].away} = {Plan[n].home, Plan[n].away}
  <2> DEFINE Same(x, a) == Stands(d, x, Plan[m].sport, a)
  <2>1. \A x, a, b : Same(x, a) /\ Same(x, b) => a = b
    BY <1>1, StandsForOne
  <2>2. \/ Same(home, Plan[m].home) /\ Same(away, Plan[m].away)
        \/ Same(home, Plan[m].away) /\ Same(away, Plan[m].home)
    BY DEF Between
  <2>3. \/ Same(home, Plan[n].home) /\ Same(away, Plan[n].away)
        \/ Same(home, Plan[n].away) /\ Same(away, Plan[n].home)
    BY DEF Between
  <2> HIDE DEF Same
  <2> QED BY <2>1, <2>2, <2>3
<1>4. Distance(Plan[m].times[i], Plan[n].times[j]) \in Nat
  BY MatchTeams DEF Distance
<1>5. ~(Distance(Plan[m].times[i], Plan[n].times[j]) > Window)
  BY <1>4 DEF Window
<1> QED BY <1>2, <1>3, <1>5, FixtureAssumption

\* Every event is of the match whose listing it was made of.
LEMMA EventMatch ==
    ASSUME NEW d, Identity(d), NEW e \in DOMAIN d.events
    PROVE  LET n == d.events[e].by[2]
           IN  /\ n \in Match /\ OfMatch(d, e, n)
               /\ e \in Nat /\ d.events[e] \in Event
<1>1. e \in Nat /\ d.events[e] \in Event
  BY DEF Identity, Types
<1>2. d.events[e].by \in DOMAIN d.eventOf /\ d.eventOf[d.events[e].by] = e
  BY DEF Identity, EventsRight
<1>3. d.events[e].by \in Listing /\ OfMatch(d, e, d.events[e].by[2])
  BY <1>2 DEF Identity, EventsRight
<1> QED BY <1>1, <1>3 DEF Listing

\* An event is of one match.
LEMMA OneMatch ==
    ASSUME NEW d, Identity(d), NEW x \in DOMAIN d.events, NEW m \in Match, NEW n \in Match,
           OfMatch(d, x, m), OfMatch(d, x, n)
    PROVE  m = n
<1> DEFINE v == d.events[x]
<1>1. v \in Event
  BY EventMatch
<1>2. /\ Plan[m].sport = Plan[n].sport
      /\ IsComp(d, v.comp, Plan[m].sport, Plan[m].comp) /\ Between(d, v.home, v.away, m)
      /\ IsComp(d, v.comp, Plan[n].sport, Plan[n].comp) /\ Between(d, v.home, v.away, n)
  BY DEF OfMatch
<1>3. PICK i \in DOMAIN Plan[m].times : v.start = Plan[m].times[i]
  BY DEF OfMatch
<1>4. PICK h \in DOMAIN Plan[n].times : v.start = Plan[n].times[h]
  BY DEF OfMatch
<1> HIDE DEF v
<1>5. Distance(Plan[m].times[i], Plan[n].times[h]) <= Window
  BY <1>1, <1>3, <1>4 DEF Event, Distance, Window
<1> QED BY <1>2, <1>5, OneFixture

\* An event with the sides and the competition of a listing and near it is of its match.
LEMMA NearMatch ==
    ASSUME NEW d, Identity(d), NEW m \in Match, NEW l, Listed(d, m, l), NEW e \in DOMAIN d.events,
           d.events[e].sport = l.sport, d.events[e].comp = l.comp, d.events[e].home = l.home,
           d.events[e].away = l.away, Distance(d.events[e].start, l.start) <= Window
    PROVE  OfMatch(d, e, m) /\ d.events[e].by[2] = m
<1> DEFINE n == d.events[e].by[2]
<1>1. n \in Match /\ OfMatch(d, e, n)
  BY EventMatch
<1> HIDE DEF n
<1>2. PICK i \in DOMAIN Plan[m].times : l.start = Plan[m].times[i]
  BY DEF Listed
<1>3. PICK j \in DOMAIN Plan[n].times : d.events[e].start = Plan[n].times[j]
  BY <1>1 DEF OfMatch
<1>4. Plan[m].sport = Plan[n].sport
  BY <1>1 DEF OfMatch, Listed
<1>5. IsComp(d, l.comp, Plan[n].sport, Plan[n].comp) /\ Between(d, l.home, l.away, n)
  BY <1>1 DEF OfMatch
<1>6. IsComp(d, l.comp, Plan[m].sport, Plan[m].comp) /\ Between(d, l.home, l.away, m)
  BY DEF Listed
<1>7. n = m
  BY <1>1, <1>2, <1>3, <1>4, <1>5, <1>6, OneFixture
<1> QED BY <1>1, <1>7 DEF n

\* Whatever upsert_event takes for the event of a listing is an event of its match.
LEMMA TargetRight ==
    ASSUME NEW d, Identity(d), NEW p \in Provider, NEW m \in Match, NEW l, Listed(d, m, l),
           NEW e \in Target(d, p, m, l)
    PROVE  e \in DOMAIN d.events /\ OfMatch(d, e, m)
<1>1. CASE <<p, m>> \in DOMAIN d.eventOf
  <2>1. e = d.eventOf[<<p, m>>]
    BY <1>1 DEF Target
  <2> QED BY <1>1, <2>1 DEF Identity, EventsRight
<1>2. CASE <<p, m>> \notin DOMAIN d.eventOf /\ e \in Near(d, l)
  <2>1. /\ e \in DOMAIN d.events /\ d.events[e].sport = l.sport /\ d.events[e].comp = l.comp
        /\ d.events[e].home = l.home /\ d.events[e].away = l.away
        /\ Distance(d.events[e].start, l.start) <= Window
    BY <1>2 DEF Near
  <2> QED BY <2>1, NearMatch
<1>3. CASE <<p, m>> \notin DOMAIN d.eventOf /\ e \in SameEvent(d, l)
  <2>1. /\ e \in DOMAIN d.events /\ d.events[e].key = EventKey(l) /\ d.events[e].comp = l.comp
        /\ d.events[e].home = l.home /\ d.events[e].away = l.away
    BY <1>3 DEF SameEvent, Collides
  <2>2. PICK n \in Match : OfMatch(d, e, n)
    BY <2>1, EventMatch
  <2>3. PICK i \in DOMAIN Plan[m].times : l.start = Plan[m].times[i]
    BY DEF Listed
  <2>4. PICK j \in DOMAIN Plan[n].times : d.events[e].key.minute = Plan[n].times[j] \div 2
    BY <2>2 DEF OfMatch
  <2>5. EventKey(l).sport = l.sport /\ EventKey(l).minute = l.start \div 2
    BY DEF EventKey
  <2>6. Plan[m].sport = Plan[n].sport
    BY <2>1, <2>2, <2>5 DEF OfMatch, Listed
  <2>7. Plan[m].times[i] \in Nat /\ Plan[n].times[j] \in Nat
    BY MatchTeams
  <2>8. Plan[m].times[i] \div 2 = Plan[n].times[j] \div 2
    BY <2>1, <2>3, <2>4, <2>5
  <2>9. Distance(Plan[m].times[i], Plan[n].times[j]) <= Window
    <3> DEFINE t == Plan[m].times[i]
               u == Plan[n].times[j]
    <3> HIDE DEF t, u
    <3>1. t \in Nat /\ u \in Nat /\ t \div 2 = u \div 2
      BY <2>7, <2>8 DEF t, u
    <3>2. Distance(t, u) <= Window
      BY <3>1 DEF Distance, Window
    <3> QED BY <3>2 DEF t, u
  <2>10. IsComp(d, l.comp, Plan[n].sport, Plan[n].comp) /\ Between(d, l.home, l.away, n)
    BY <2>1, <2>2 DEF OfMatch
  <2>11. IsComp(d, l.comp, Plan[m].sport, Plan[m].comp) /\ Between(d, l.home, l.away, m)
    BY DEF Listed
  <2>12. n = m
    BY <2>6, <2>9, <2>10, <2>11, OneFixture
  <2> QED BY <2>1, <2>2, <2>12
<1> QED BY <1>1, <1>2, <1>3 DEF Target

\* The key of a new event has its sport and its minute, and is of no other event.
LEMMA NewKeyFree ==
    ASSUME NEW d, Identity(d), NEW p \in Provider, NEW m \in Match, NEW l, Listed(d, m, l),
           <<p, m>> \notin DOMAIN d.eventOf
    PROVE  LET key == NewKey(d, p, m, l)
           IN  /\ key \in Key /\ key.sport = l.sport /\ key.minute = l.start \div 2
               /\ key.salt \in {<<>>, <<p, m>>}
               /\ \A e \in DOMAIN d.events : d.events[e].key # key
<1> DEFINE plain == EventKey(l)
           salted == [plain EXCEPT !.salt = <<p, m>>]
<1>1. l.start \in Nat /\ l.sport \in Sport
  BY MatchTeams DEF Listed
<1>2. l.start \div 2 \in Nat
  BY <1>1
<1>3. PICK names \in Name \X Name :
          plain = [sport |-> l.sport, minute |-> l.start \div 2, salt |-> <<>>, names |-> names]
  BY DEF Listed, EventKey
<1> HIDE DEF plain
<1>4. plain \in Key
  BY <1>1, <1>2, <1>3 DEF Key
<1>5. salted = [sport |-> l.sport, minute |-> l.start \div 2, salt |-> <<p, m>>, names |-> names]
  BY <1>3
<1>6. salted \in Key
  BY <1>1, <1>2, <1>5 DEF Key, Listing
<1>7. CASE Collides(d, l) = {}
  <2>1. NewKey(d, p, m, l) = plain
    BY <1>7 DEF NewKey, plain
  <2>2. \A e \in DOMAIN d.events : d.events[e].key # plain
    BY <1>7 DEF Collides, plain
  <2> QED BY <1>3, <1>4, <2>1, <2>2
<1>8. CASE Collides(d, l) # {}
  <2>1. NewKey(d, p, m, l) = salted
    BY <1>8 DEF NewKey, plain
  <2>2. ASSUME NEW e \in DOMAIN d.events PROVE d.events[e].key.salt # <<p, m>>
    <3>1. d.events[e].by # <<p, m>>
      BY DEF Identity, EventsRight
    <3>2. d.events[e].key.salt \in {<<>>, d.events[e].by}
      BY DEF Identity, KeysRight
    <3>3. <<p, m>> # <<>>
      OBVIOUS
    <3> QED BY <3>1, <3>2, <3>3
  <2>3. \A e \in DOMAIN d.events : d.events[e].key # salted
    BY <1>5, <2>2
  <2> QED BY <1>5, <1>6, <2>1, <2>3
<1> QED BY <1>7, <1>8

\* The rows of an event are those of its match, if its fields are those of a listing of it.
LEMMA FieldsOfMatch ==
    ASSUME NEW d, NEW m \in Match, NEW l, Listed(d, m, l), NEW x,
           d.events[x].sport = l.sport, d.events[x].comp = l.comp, d.events[x].home = l.home,
           d.events[x].away = l.away, d.events[x].start = l.start,
           d.events[x].key.sport = l.sport,
           \E i \in DOMAIN Plan[m].times : d.events[x].key.minute = Plan[m].times[i] \div 2
    PROVE  OfMatch(d, x, m)
  BY DEF OfMatch, Listed

\* OfMatch is about the fields of the event only.
LEMMA SameRows ==
    ASSUME NEW d, NEW e, e.entities = d.entities, e.comps = d.comps
    PROVE  /\ \A x, m : e.events[x] = d.events[x] => (OfMatch(e, x, m) <=> OfMatch(d, x, m))
           /\ \A m, l : Listed(e, m, l) <=> Listed(d, m, l)
<1>1. \A i, sport, a : Stands(d, i, sport, a) <=> Stands(e, i, sport, a)
  BY DEF Stands
<1>2. \A i, sport, c : IsComp(d, i, sport, c) <=> IsComp(e, i, sport, c)
  BY DEF IsComp
<1>3. \A x, m : e.events[x] = d.events[x] => (OfMatch(e, x, m) <=> OfMatch(d, x, m))
  BY <1>1, <1>2 DEF OfMatch, Between
<1>4. \A m, l : Listed(e, m, l) <=> Listed(d, m, l)
  BY <1>1, <1>2 DEF Listed, Between
<1> QED BY <1>3, <1>4

\* What Write makes of the database: a new event, or a known one with the listing's fields.
LEMMA WriteFields ==
    ASSUME NEW d, Types(d), NEW p, NEW m, NEW l
    PROVE  LET target == Target(d, p, m, l)
               id == First(target)
               Made(events, eventOf) ==
                   [entities |-> d.entities, mapped |-> d.mapped, aliases |-> d.aliases,
                    comps |-> d.comps, events |-> events, eventOf |-> eventOf]
               Fields(status, key, by) ==
                   [sport |-> l.sport, comp |-> l.comp, home |-> l.home, away |-> l.away,
                    start |-> l.start, status |-> status, key |-> key, by |-> by]
           IN  /\ target = {} =>
                    Write(d, p, m, l) =
                        Made(Append(d.events, Fields(l.status, NewKey(d, p, m, l), <<p, m>>)),
                             Put(d.eventOf, <<p, m>>, Len(d.events) + 1))
               /\ target # {} =>
                    Write(d, p, m, l) =
                        Made([d.events EXCEPT ![id] =
                                 Fields(Status(p, d.events[id].status, l.status),
                                        d.events[id].key, d.events[id].by)],
                             Put(d.eventOf, <<p, m>>, id))
<1> DEFINE target == Target(d, p, m, l)
           id == IF target = {} THEN Len(d.events) + 1 ELSE First(target)
           old == d.events[id]
           Fields(status, key, by) ==
               [sport |-> l.sport, comp |-> l.comp, home |-> l.home, away |-> l.away,
                start |-> l.start, status |-> status, key |-> key, by |-> by]
           new == Fields(l.status, NewKey(d, p, m, l), <<p, m>>)
           known == Fields(Status(p, old.status, l.status), old.key, old.by)
           events == IF target = {} THEN Append(d.events, new) ELSE [d.events EXCEPT ![id] = known]
           eventOf == Put(d.eventOf, <<p, m>>, id)
<1>1. Write(d, p, m, l) = [d EXCEPT !.eventOf = eventOf, !.events = events]
  BY DEF Write
<1>2. Write(d, p, m, l) = [entities |-> d.entities, mapped |-> d.mapped, aliases |-> d.aliases,
                           comps |-> d.comps, events |-> events, eventOf |-> eventOf]
  <2> HIDE DEF events, eventOf
  <2> QED BY <1>1 DEF Types
<1>3. CASE target = {}
  <2>1. id = Len(d.events) + 1 /\ events = Append(d.events, new)
    BY <1>3
  <2> HIDE DEF events, id
  <2> QED BY <1>2, <1>3, <2>1
<1>4. CASE target # {}
  <2>1. id = First(target) /\ events = [d.events EXCEPT ![id] = known]
    BY <1>4
  <2> HIDE DEF events, id
  <2> QED BY <1>2, <1>4, <2>1
<1> QED BY <1>3, <1>4

\* The same, field by field.
LEMMA WriteRows ==
    ASSUME NEW d, Types(d), NEW p, NEW m, NEW l
    PROVE  LET target == Target(d, p, m, l)
               id == First(target)
               e == Write(d, p, m, l)
               Fields(status, key, by) ==
                   [sport |-> l.sport, comp |-> l.comp, home |-> l.home, away |-> l.away,
                    start |-> l.start, status |-> status, key |-> key, by |-> by]
           IN  /\ e.entities = d.entities /\ e.comps = d.comps
               /\ target = {} =>
                    /\ e.events = Append(d.events,
                                         Fields(l.status, NewKey(d, p, m, l), <<p, m>>))
                    /\ e.eventOf = Put(d.eventOf, <<p, m>>, Len(d.events) + 1)
               /\ target # {} =>
                    /\ e.events = [d.events EXCEPT ![id] =
                                      Fields(Status(p, d.events[id].status, l.status),
                                             d.events[id].key, d.events[id].by)]
                    /\ e.eventOf = Put(d.eventOf, <<p, m>>, id)
<1> DEFINE target == Target(d, p, m, l)
           id == First(target)
           e == Write(d, p, m, l)
           Fields(status, key, by) ==
               [sport |-> l.sport, comp |-> l.comp, home |-> l.home, away |-> l.away,
                start |-> l.start, status |-> status, key |-> key, by |-> by]
           Made(events, eventOf) ==
               [entities |-> d.entities, mapped |-> d.mapped, aliases |-> d.aliases,
                comps |-> d.comps, events |-> events, eventOf |-> eventOf]
           more == Append(d.events, Fields(l.status, NewKey(d, p, m, l), <<p, m>>))
           changed == [d.events EXCEPT ![id] =
                          Fields(Status(p, d.events[id].status, l.status),
                                 d.events[id].key, d.events[id].by)]
<1>1. \A events, eventOf : /\ Made(events, eventOf).events = events
                          /\ Made(events, eventOf).eventOf = eventOf
                          /\ Made(events, eventOf).entities = d.entities
                          /\ Made(events, eventOf).comps = d.comps
  OBVIOUS
<1>2. /\ target = {} => e = Made(more, Put(d.eventOf, <<p, m>>, Len(d.events) + 1))
      /\ target # {} => e = Made(changed, Put(d.eventOf, <<p, m>>, id))
  BY WriteFields
<1> HIDE DEF Made, more, changed, e, target, id
<1>3. /\ e.entities = d.entities /\ e.comps = d.comps
      /\ target = {} => e.events = more /\ e.eventOf = Put(d.eventOf, <<p, m>>, Len(d.events) + 1)
      /\ target # {} => e.events = changed /\ e.eventOf = Put(d.eventOf, <<p, m>>, id)
  BY <1>1, <1>2
<1> QED BY <1>3 DEF more, changed, e, target, id

\* What the listing leads to from then on.
LEMMA WriteLeads ==
    ASSUME NEW d, Types(d), NEW p, NEW m, NEW l
    PROVE  Write(d, p, m, l).eventOf =
               Put(d.eventOf, <<p, m>>, IF Target(d, p, m, l) = {} THEN Len(d.events) + 1
                                        ELSE First(Target(d, p, m, l)))
<1> DEFINE id == IF Target(d, p, m, l) = {} THEN Len(d.events) + 1 ELSE First(Target(d, p, m, l))
           eventOf == Put(d.eventOf, <<p, m>>, id)
<1>1. \E events : Write(d, p, m, l) = [d EXCEPT !.eventOf = eventOf, !.events = events]
  BY DEF Write
<1> HIDE DEF eventOf
<1>2. Write(d, p, m, l).eventOf = eventOf
  BY <1>1 DEF Types
<1> QED BY <1>2 DEF eventOf

\* An event is left alone, or it is the one the listing is written to.
LEMMA WriteOne ==
    ASSUME NEW d, Types(d), NEW p, NEW m, NEW l, NEW x \in DOMAIN d.events
    PROVE  \/ Write(d, p, m, l).events[x] = d.events[x]
           \/ /\ Target(d, p, m, l) # {} /\ x = First(Target(d, p, m, l))
              /\ Write(d, p, m, l).events[x].status = Status(p, d.events[x].status, l.status)
              /\ Write(d, p, m, l).eventOf = Put(d.eventOf, <<p, m>>, x)
<1> DEFINE e == Write(d, p, m, l)
           target == Target(d, p, m, l)
           id == First(target)
           Fields(status, key, by) ==
               [sport |-> l.sport, comp |-> l.comp, home |-> l.home, away |-> l.away,
                start |-> l.start, status |-> status, key |-> key, by |-> by]
           Made(events, eventOf) ==
               [entities |-> d.entities, mapped |-> d.mapped, aliases |-> d.aliases,
                comps |-> d.comps, events |-> events, eventOf |-> eventOf]
           new == Fields(l.status, NewKey(d, p, m, l), <<p, m>>)
           status == Status(p, d.events[id].status, l.status)
           known == Fields(status, d.events[id].key, d.events[id].by)
<1>1. \A events, eventOf : /\ Made(events, eventOf).events = events
                          /\ Made(events, eventOf).eventOf = eventOf
  OBVIOUS
<1>2. d.events \in Seq(Event) /\ DOMAIN d.events = 1..Len(d.events) /\ Len(d.events) \in Nat
  BY DEF Types
<1>3. CASE target = {}
  <2>1. e = Made(Append(d.events, new), Put(d.eventOf, <<p, m>>, Len(d.events) + 1))
    BY <1>3, WriteFields
  <2> HIDE DEF e, new, Made
  <2>2. e.events = Append(d.events, new)
    BY <1>1, <2>1
  <2>3. e.events[x] = d.events[x]
    BY <1>2, <2>2
  <2> QED BY <2>3 DEF e
<1>4. CASE target # {}
  <2>1. e = Made([d.events EXCEPT ![id] = known], Put(d.eventOf, <<p, m>>, id))
    BY <1>4, WriteFields
  <2>2. known.status = status
    OBVIOUS
  <2> HIDE DEF e, id, known, Made
  <2>3. e.events = [d.events EXCEPT ![id] = known] /\ e.eventOf = Put(d.eventOf, <<p, m>>, id)
    BY <1>1, <2>1
  <2>4. CASE x = id
    <3>1. e.events[x] = known
      BY <2>3, <2>4, <1>2
    <3> QED BY <1>4, <2>2, <2>3, <2>4, <3>1 DEF e, id
  <2>5. CASE x # id
    <3>1. e.events[x] = d.events[x]
      BY <1>2, <2>3, <2>5
    <3> QED BY <3>1 DEF e
  <2> QED BY <2>4, <2>5
<1> QED BY <1>3, <1>4

\* Writing a listing keeps every event with its match.
LEMMA WriteRight ==
    ASSUME NEW d, Identity(d), NEW p \in Provider, NEW m \in Match, NEW l, Listed(d, m, l)
    PROVE  Identity(Write(d, p, m, l))
<1> DEFINE target == Target(d, p, m, l)
           e == Write(d, p, m, l)
           Fields(status, key, by) ==
               [sport |-> l.sport, comp |-> l.comp, home |-> l.home, away |-> l.away,
                start |-> l.start, status |-> status, key |-> key, by |-> by]
           Made(events, eventOf) ==
               [entities |-> d.entities, mapped |-> d.mapped, aliases |-> d.aliases,
                comps |-> d.comps, events |-> events, eventOf |-> eventOf]
<1>1. /\ d.events \in Seq(Event) /\ Len(d.events) \in Nat /\ DOMAIN d.events = 1..Len(d.events)
      /\ <<p, m>> \in Listing
  BY DEF Identity, Types, Listing
<1>2. /\ l.sport \in Sport /\ l.sport = Plan[m].sport /\ l.comp \in Nat /\ l.home \in Nat /\ l.away \in Nat
      /\ l.start \in Nat /\ l.status \in {"SCHEDULED", "FINAL"}
  BY MatchTeams DEF Listed
<1>3. ASSUME NEW events \in Seq(Event), NEW eventOf, e = Made(events, eventOf)
      PROVE  /\ Types(e) /\ MappedRight(e) /\ AliasedRight(e) /\ CompsRight(e)
             /\ e.events = events /\ e.eventOf = eventOf
             /\ e.entities = d.entities /\ e.comps = d.comps
             /\ \A i, sport, a : Stands(d, i, sport, a) <=> Stands(e, i, sport, a)
             /\ \A i, sport, c : IsComp(d, i, sport, c) <=> IsComp(e, i, sport, c)
  <2> HIDE DEF e
  <2>1. /\ e.entities = d.entities /\ e.mapped = d.mapped /\ e.aliases = d.aliases
        /\ e.comps = d.comps /\ e.events = events /\ e.eventOf = eventOf
        /\ e = Made(e.events, e.eventOf)
    BY <1>3
  <2>2. Types(e)
    BY <2>1 DEF Identity, Types
  <2>3. /\ \A i, sport, a : Stands(d, i, sport, a) <=> Stands(e, i, sport, a)
        /\ \A i, sport, c : IsComp(d, i, sport, c) <=> IsComp(e, i, sport, c)
    BY <2>1 DEF Stands, IsComp
  <2>4. MappedRight(e)
    BY <2>1, <2>3 DEF Identity, MappedRight
  <2>5. AliasedRight(e)
    BY <2>1, <2>3 DEF Identity, AliasedRight
  <2>6. CompsRight(e)
    BY <2>1, <2>3 DEF Identity, CompsRight
  <2> QED BY <2>1, <2>2, <2>3, <2>4, <2>5, <2>6
<1>4. CASE target = {}
  <2> DEFINE key == NewKey(d, p, m, l)
             new == Fields(l.status, key, <<p, m>>)
             id == Len(d.events) + 1
             events == Append(d.events, new)
             eventOf == Put(d.eventOf, <<p, m>>, id)
  <2>1. e = Made(events, eventOf)
    BY <1>4, WriteFields DEF Identity
  <2>2. <<p, m>> \notin DOMAIN d.eventOf
    BY <1>4 DEF Target
  <2>3. /\ key \in Key /\ key.sport = l.sport /\ key.minute = l.start \div 2
        /\ key.salt \in {<<>>, <<p, m>>}
        /\ \A x \in DOMAIN d.events : d.events[x].key # key
    BY <2>2, NewKeyFree
  <2> HIDE DEF key
  <2>4. new \in Event
    BY <1>1, <1>2, <2>3 DEF Event
  <2>5. /\ new.sport = l.sport /\ new.comp = l.comp /\ new.home = l.home /\ new.away = l.away
        /\ new.start = l.start /\ new.key = key /\ new.by = <<p, m>>
    OBVIOUS
  <2> HIDE DEF new
  <2>6. /\ events \in Seq(Event) /\ id \in DOMAIN events /\ events[id] = new
        /\ \A x \in DOMAIN d.events : x \in DOMAIN events /\ events[x] = d.events[x]
        /\ \A x \in DOMAIN events : x \in DOMAIN d.events \/ x = id
        /\ id \notin DOMAIN d.events
    BY <1>1, <2>4, AppendRow
  <2>7. /\ <<p, m>> \in DOMAIN eventOf /\ eventOf[<<p, m>>] = id
        /\ \A k \in DOMAIN d.eventOf : k \in DOMAIN eventOf /\ eventOf[k] = d.eventOf[k]
        /\ \A k \in DOMAIN eventOf : k \in DOMAIN d.eventOf \/ k = <<p, m>>
    BY <2>2 DEF Put
  <2> HIDE DEF events, eventOf, id, e
  <2>8. /\ Types(e) /\ MappedRight(e) /\ AliasedRight(e) /\ CompsRight(e)
        /\ e.events = events /\ e.eventOf = eventOf /\ e.entities = d.entities /\ e.comps = d.comps
    BY <1>3, <2>1, <2>6
  <2>9. OfMatch(e, id, m)
    <3>1. Listed(e, m, l)
      BY <2>8, SameRows
    <3>2. \E i \in DOMAIN Plan[m].times : e.events[id].key.minute = Plan[m].times[i] \div 2
      BY <2>3, <2>5, <2>6, <2>8 DEF Listed
    <3> QED BY <2>3, <2>5, <2>6, <2>8, <3>1, <3>2, FieldsOfMatch
  <2>10. \A x \in DOMAIN d.events : \A n : OfMatch(d, x, n) => OfMatch(e, x, n)
    BY <2>6, <2>8, SameRows
  <2>11. EventsRight(e)
    <3>1. ASSUME NEW k \in DOMAIN e.eventOf
          PROVE  /\ k \in Listing /\ e.eventOf[k] \in DOMAIN e.events
                 /\ OfMatch(e, e.eventOf[k], k[2])
      <4>1. CASE k = <<p, m>>
        BY <1>1, <2>6, <2>7, <2>8, <2>9, <4>1
      <4>2. CASE k \in DOMAIN d.eventOf
        <5>1. /\ k \in Listing /\ d.eventOf[k] \in DOMAIN d.events
              /\ OfMatch(d, d.eventOf[k], k[2])
          BY <4>2 DEF Identity, EventsRight
        <5>2. e.eventOf[k] = d.eventOf[k]
          BY <2>7, <2>8, <4>2
        <5> QED BY <2>6, <2>8, <2>10, <5>1, <5>2
      <4> QED BY <2>7, <2>8, <3>1, <4>1, <4>2
    <3>2. ASSUME NEW x \in DOMAIN e.events
          PROVE  e.events[x].by \in DOMAIN e.eventOf /\ e.eventOf[e.events[x].by] = x
      <4>1. CASE x = id
        BY <2>5, <2>6, <2>7, <2>8, <4>1
      <4>2. CASE x \in DOMAIN d.events
        <5>1. d.events[x].by \in DOMAIN d.eventOf /\ d.eventOf[d.events[x].by] = x
          BY <4>2 DEF Identity, EventsRight
        <5>2. e.events[x].by = d.events[x].by
          BY <2>6, <2>8, <4>2
        <5> QED BY <2>7, <2>8, <5>1, <5>2
      <4> QED BY <2>6, <2>8, <3>2, <4>1, <4>2
    <3> QED BY <3>1, <3>2 DEF EventsRight
  <2>12. KeysRight(e)
    BY <2>3, <2>5, <2>6, <2>8 DEF Identity, KeysRight
  <2> QED BY <2>8, <2>11, <2>12 DEF Identity, e
<1>5. CASE target # {}
  <2> DEFINE id == First(target)
             old == d.events[id]
             known == Fields(Status(p, old.status, l.status), old.key, old.by)
             events == [d.events EXCEPT ![id] = known]
             eventOf == Put(d.eventOf, <<p, m>>, id)
  <2>1. e = Made(events, eventOf)
    BY <1>5, WriteFields DEF Identity
  <2>2. id \in DOMAIN d.events /\ OfMatch(d, id, m)
    <3>1. target \in SUBSET Nat
      BY <1>1, TargetRight
    <3>2. id \in target
      BY <1>5, <3>1, FirstOfThem
    <3> QED BY <3>2, TargetRight
  <2>3. <<p, m>> \in DOMAIN d.eventOf => d.eventOf[<<p, m>>] = id
    <3>1. ASSUME <<p, m>> \in DOMAIN d.eventOf PROVE d.eventOf[<<p, m>>] = id
      <4>1. target = {d.eventOf[<<p, m>>]}
        BY <3>1 DEF Target
      <4>2. target \in SUBSET Nat
        BY <1>1, TargetRight
      <4>3. id \in target
        BY <1>5, <4>2, FirstOfThem
      <4> QED BY <4>1, <4>3
    <3> QED BY <3>1
  <2> HIDE DEF id
  <2>4. old \in Event
    BY <1>1, <2>2
  <2>5. Status(p, old.status, l.status) \in {"SCHEDULED", "FINAL"}
    BY <1>2, <2>4 DEF Status, Event
  <2>6. known \in Event
    BY <1>2, <2>4, <2>5 DEF Event
  <2>7. /\ known.sport = l.sport /\ known.comp = l.comp /\ known.home = l.home
        /\ known.away = l.away /\ known.start = l.start
        /\ known.key = old.key /\ known.by = old.by
    OBVIOUS
  <2> HIDE DEF known
  <2>8. /\ events \in Seq(Event) /\ DOMAIN events = DOMAIN d.events /\ events[id] = known
        /\ \A x \in DOMAIN d.events : x # id => events[x] = d.events[x]
    BY <1>1, <2>2, <2>6
  <2>9. /\ DOMAIN eventOf = DOMAIN d.eventOf \cup {<<p, m>>} /\ eventOf[<<p, m>>] = id
        /\ \A k \in DOMAIN d.eventOf : eventOf[k] = d.eventOf[k]
    BY <2>3 DEF Put
  <2> HIDE DEF events, eventOf, e
  <2>10. /\ Types(e) /\ MappedRight(e) /\ AliasedRight(e) /\ CompsRight(e)
         /\ e.events = events /\ e.eventOf = eventOf /\ e.entities = d.entities /\ e.comps = d.comps
    BY <1>3, <2>1, <2>8
  <2>11. OfMatch(e, id, m)
    <3>1. Listed(e, m, l)
      BY <2>10, SameRows
    <3>2. /\ old.key.sport = l.sport
          /\ \E i \in DOMAIN Plan[m].times : old.key.minute = Plan[m].times[i] \div 2
      BY <1>2, <2>2 DEF OfMatch
    <3> QED BY <2>7, <2>8, <2>10, <3>1, <3>2, FieldsOfMatch
  <2>12. \A x \in DOMAIN d.events : \A n : x # id /\ OfMatch(d, x, n) => OfMatch(e, x, n)
    BY <2>8, <2>10, SameRows
  <2>13. ASSUME NEW n \in Match, OfMatch(d, id, n) PROVE n = m
    <3>1. Plan[n].sport = Plan[m].sport
      BY <2>2, <2>13 DEF OfMatch
    <3>2. PICK i \in DOMAIN Plan[m].times : old.start = Plan[m].times[i]
      BY <2>2 DEF OfMatch
    <3>3. PICK j \in DOMAIN Plan[n].times : old.start = Plan[n].times[j]
      BY <2>13 DEF OfMatch
    <3>4. Distance(Plan[m].times[i], Plan[n].times[j]) <= Window
      BY <2>4, <3>2, <3>3 DEF Event, Distance, Window
    <3>5. /\ IsComp(d, old.comp, Plan[m].sport, Plan[m].comp) /\ Between(d, old.home, old.away, m)
          /\ IsComp(d, old.comp, Plan[n].sport, Plan[n].comp) /\ Between(d, old.home, old.away, n)
      BY <2>2, <2>13 DEF OfMatch
    <3> HIDE DEF old
    <3> QED BY <3>1, <3>4, <3>5, OneFixture
  <2>14. EventsRight(e)
    <3>1. ASSUME NEW k \in DOMAIN e.eventOf
          PROVE  /\ k \in Listing /\ e.eventOf[k] \in DOMAIN e.events
                 /\ OfMatch(e, e.eventOf[k], k[2])
      <4>1. CASE k = <<p, m>>
        BY <1>1, <2>2, <2>8, <2>9, <2>10, <2>11, <4>1
      <4>2. CASE k \in DOMAIN d.eventOf
        <5>1. /\ k \in Listing /\ d.eventOf[k] \in DOMAIN d.events
              /\ OfMatch(d, d.eventOf[k], k[2])
          BY <4>2 DEF Identity, EventsRight
        <5>2. e.eventOf[k] = d.eventOf[k]
          BY <2>9, <2>10, <4>2
        <5>3. CASE d.eventOf[k] = id
          <6>1. k[2] = m
            BY <2>13, <5>1, <5>3 DEF Listing
          <6> QED BY <2>8, <2>10, <2>11, <5>1, <5>2, <5>3, <6>1
        <5>4. CASE d.eventOf[k] # id
          BY <2>8, <2>10, <2>12, <5>1, <5>2, <5>4
        <5> QED BY <5>3, <5>4
      <4> QED BY <2>9, <2>10, <3>1, <4>1, <4>2
    <3>2. ASSUME NEW x \in DOMAIN e.events
          PROVE  e.events[x].by \in DOMAIN e.eventOf /\ e.eventOf[e.events[x].by] = x
      <4>1. x \in DOMAIN d.events /\ e.events[x].by = d.events[x].by
        BY <2>7, <2>8, <2>10
      <4>2. d.events[x].by \in DOMAIN d.eventOf /\ d.eventOf[d.events[x].by] = x
        BY <4>1 DEF Identity, EventsRight
      <4> QED BY <2>9, <2>10, <4>1, <4>2
    <3> QED BY <3>1, <3>2 DEF EventsRight
  <2>15. KeysRight(e)
    <3>1. \A x \in DOMAIN d.events : /\ e.events[x].key = d.events[x].key
                                     /\ e.events[x].by = d.events[x].by
      BY <2>7, <2>8, <2>10
    <3> QED BY <2>8, <2>10, <3>1 DEF Identity, KeysRight
  <2> QED BY <2>10, <2>14, <2>15 DEF Identity, e
<1> QED BY <1>4, <1>5

\* An upsert writes a listing whose competition and sides are resolved.
LEMMA UpsertWrites ==
    ASSUME IInv, NEW p \in Provider, NEW m \in Match, Upsert(p, m)
    PROVE  \E d, l : /\ Identity(d) /\ Listed(d, m, l) /\ db' = Write(d, p, m, l)
                     /\ d.events = db.events /\ d.eventOf = db.eventOf
                     /\ l.status = IF view[p][m].over THEN "FINAL" ELSE "SCHEDULED"
                     /\ l.start = Plan[m].times[view[p][m].rev]
                     /\ Stands(d, l.home, Plan[m].sport, Home(p, m))
                     /\ Stands(d, l.away, Plan[m].sport, Away(p, m))
                     /\ Extends(db, d) /\ (Unique(db) => Unique(d))
<1> DEFINE sport == Plan[m].sport
           key == CompKeyOf[p][Plan[m].comp]
           name == CompNameOf[p][Plan[m].comp]
           comp == CompOf(db, sport, key, name)
           d1 == WithComp(db, sport, key, name)
<1>1. PICK homeName \in NamesOf[p][Home(p, m)], awayName \in NamesOf[p][Away(p, m)] :
          LET homeId == ParticipantId(p, Home(p, m), homeName)
              awayId == ParticipantId(p, Away(p, m), awayName)
              d2 == Resolve(d1, p, sport, homeId, homeName)
              d3 == Resolve(d2, p, sport, awayId, awayName)
          IN  db' = Write(d3, p, m, [sport |-> sport, comp |-> comp,
                          home |-> d3.mapped[<<p, sport, homeId>>],
                          away |-> d3.mapped[<<p, sport, awayId>>],
                          homeName |-> homeName, awayName |-> awayName,
                          start |-> Plan[m].times[view[p][m].rev],
                          status |-> IF view[p][m].over THEN "FINAL" ELSE "SCHEDULED"])
  BY DEF Upsert
<1> DEFINE home == Home(p, m)
           away == Away(p, m)
           homeKey == <<p, sport, ParticipantId(p, home, homeName)>>
           awayKey == <<p, sport, ParticipantId(p, away, awayName)>>
           d2 == Resolve(d1, p, sport, ParticipantId(p, home, homeName), homeName)
           d3 == Resolve(d2, p, sport, ParticipantId(p, away, awayName), awayName)
           status == IF view[p][m].over THEN "FINAL" ELSE "SCHEDULED"
           l == [sport |-> sport, comp |-> comp, home |-> d3.mapped[homeKey], away |-> d3.mapped[awayKey],
                 homeName |-> homeName, awayName |-> awayName,
                 start |-> Plan[m].times[view[p][m].rev], status |-> status]
<1>2. /\ sport \in Sport /\ home \in Teams(sport) /\ away \in Teams(sport)
      /\ Plan[m].comp \in Comps(sport)
      /\ \/ home = Plan[m].home /\ away = Plan[m].away
         \/ home = Plan[m].away /\ away = Plan[m].home
  BY MatchTeams DEF Home, Away
<1>3. /\ Identity(d1) /\ comp \in Nat /\ IsComp(d1, comp, sport, Plan[m].comp)
      /\ d1.events = db.events /\ d1.eventOf = db.eventOf
      /\ Extends(db, d1)
  BY <1>2, CompRight DEF IInv
<1>3b. Unique(db) => Unique(d3)
  <2> SUFFICES ASSUME Unique(db) PROVE Unique(d3)
    OBVIOUS
  <2>1. Unique(d1)
    BY CompUnique DEF IInv, Identity
  <2> HIDE DEF d1
  <2>2. Unique(d2)
    BY <1>3, <2>1, ResolveUnique DEF Identity
  <2>3. Types(d2)
    BY <1>1, <1>2, <1>3, ResolveRight DEF Identity
  <2> HIDE DEF d2
  <2> QED BY <2>2, <2>3, ResolveUnique
<1> HIDE DEF sport, home, away, comp, d1
<1>4. /\ Identity(d2) /\ homeKey \in DOMAIN d2.mapped /\ Stands(d2, d2.mapped[homeKey], sport, home)
      /\ d2.comps = d1.comps /\ d2.events = d1.events /\ d2.eventOf = d1.eventOf
      /\ Extends(d1, d2)
  BY <1>1, <1>2, <1>3, ResolveRight DEF home
<1> HIDE DEF d2
<1>5. /\ Identity(d3) /\ Extends(d2, d3)
      /\ awayKey \in DOMAIN d3.mapped /\ Stands(d3, d3.mapped[awayKey], sport, away)
      /\ d3.comps = d2.comps /\ d3.events = d2.events /\ d3.eventOf = d2.eventOf
  BY <1>1, <1>2, <1>4, ResolveRight DEF away
<1> HIDE DEF d3, homeKey, awayKey
<1>6. Stands(d3, d3.mapped[homeKey], sport, home)
  <2>1. d3.mapped[homeKey] = d2.mapped[homeKey]
    BY <1>4, <1>5 DEF Extends
  <2> QED BY <1>4, <1>5, <2>1, RowsKept
<1>7. IsComp(d3, comp, sport, Plan[m].comp)
  BY <1>3, <1>4, <1>5 DEF IsComp
<1>8. l.home \in Nat /\ l.away \in Nat /\ Between(d3, l.home, l.away, m)
  <2>1. d3.mapped[homeKey] \in Nat /\ d3.mapped[awayKey] \in Nat
    BY <1>5, <1>6 DEF Identity, Types, Stands
  <2>2. Between(d3, d3.mapped[homeKey], d3.mapped[awayKey], m)
    BY <1>2, <1>5, <1>6 DEF Between, sport
  <2> QED BY <2>1, <2>2
<1>9. \E i \in DOMAIN Plan[m].times : l.start = Plan[m].times[i]
  <2>1. view[p][m].rev \in 1..Len(Plan[m].times)
    <3>1. view[p][m].rev \in 0..Len(Plan[m].times) /\ view[p][m].rev > 0
      BY DEF IInv, Revisions, Upsert
    <3> QED BY <3>1, MatchTeams
  <2> QED BY <2>1, MatchTeams
<1>10. homeName \in Name /\ awayName \in Name
  <2>1. homeName \in NamesOf[p][home] /\ awayName \in NamesOf[p][away]
    BY <1>1 DEF home, away
  <2> QED BY <1>2, <2>1, TeamName
<1>11. Listed(d3, m, l)
  <2>1. l.sport = Plan[m].sport
    BY DEF sport
  <2>2. l.comp = comp /\ l.homeName = homeName /\ l.awayName = awayName /\ l.status = status
    OBVIOUS
  <2>3. IsComp(d3, l.comp, Plan[m].sport, Plan[m].comp)
    BY <1>7, <2>2 DEF sport
  <2> HIDE DEF l
  <2> QED BY <1>3, <1>8, <1>9, <1>10, <2>1, <2>2, <2>3 DEF Listed
<1>12. db' = Write(d3, p, m, l)
  BY <1>1 DEF sport, home, away, comp, d1, d2, d3, homeKey, awayKey
<1>13. l.status = IF view[p][m].over THEN "FINAL" ELSE "SCHEDULED"
  OBVIOUS
<1>14. /\ l.start = Plan[m].times[view[p][m].rev]
       /\ l.home = d3.mapped[homeKey] /\ l.away = d3.mapped[awayKey]
  OBVIOUS
<1>15. /\ Stands(d3, l.home, Plan[m].sport, Home(p, m))
       /\ Stands(d3, l.away, Plan[m].sport, Away(p, m))
  BY <1>5, <1>6, <1>14 DEF sport, home, away
<1>16. Extends(db, d3)
  BY <1>3, <1>4, <1>5 DEF Extends
<1> HIDE DEF l
<1> QED BY <1>3, <1>4, <1>5, <1>11, <1>12, <1>13, <1>14, <1>15, <1>16, <1>3b

---------------------------------------------------------------------------
(* The invariant *)

\* No event and no row, and nothing listed.
LEMMA InitIInv == Init => IInv
<1> SUFFICES ASSUME Init PROVE IInv
  OBVIOUS
<1>1. Revisions
  <2>1. \A m \in Match : 1 \in 1..Len(Plan[m].times) /\ 0 \in 0..Len(Plan[m].times)
    BY MatchTeams
  <2>2. \A m \in Match : real[m].rev = 1 /\ real[m].over = FALSE
    BY DEF Init
  <2>3. \A p \in Provider, m \in Match : view[p][m].rev = 0
    BY DEF Init
  <2>4. real \in [Match -> [rev : Nat, over : BOOLEAN]]
    BY DEF Init
  <2>5. view \in [Provider -> [Match -> [rev : Nat, over : BOOLEAN]]]
    BY DEF Init
  <2> QED BY <2>1, <2>2, <2>3, <2>4, <2>5 DEF Revisions
<1>2. Types(db)
  BY DEF Init, Types
<1>3. DOMAIN db.mapped = {} /\ DOMAIN db.eventOf = {} /\ DOMAIN db.events = {}
      /\ DOMAIN db.comps = {} /\ db.aliases = {}
  BY DEF Init
<1> QED BY <1>1, <1>2, <1>3
        DEF IInv, Identity, MappedRight, AliasedRight, CompsRight, EventsRight, KeysRight

\* Matches are rescheduled and finished, and listed, without the database.
LEMMA ListingIInv ==
    ASSUME IInv, NEW m \in Match,
           Reschedule(m) \/ Finish(m) \/ \E p \in Provider : Publish(p, m)
    PROVE  IInv'
<1>1. UNCHANGED db
  BY DEF Reschedule, Finish, Publish
<1>2. Identity(db)'
  BY <1>1 DEF IInv
<1>3. Revisions'
  <2> USE DEF IInv, Revisions
  <2>1. CASE Reschedule(m)
    <3>1. /\ real' \in [Match -> [rev : Nat, over : BOOLEAN]]
          /\ \A n \in Match : n # m => real'[n] = real[n]
      BY <2>1 DEF Reschedule
    <3>2. real[m].rev + 1 \in 1..Len(Plan[m].times)
      BY <2>1, MatchTeams DEF Reschedule
    <3>3. real'[m].rev = real[m].rev + 1 /\ real'[m].over \in BOOLEAN
      BY <2>1, <3>1 DEF Reschedule
    <3>4. \A n \in Match : real'[n].rev \in 1..Len(Plan[n].times) /\ real'[n].over \in BOOLEAN
      BY <3>1, <3>2, <3>3
    <3> QED BY <2>1, <3>1, <3>4 DEF Reschedule
  <2>2. CASE Finish(m)
    BY <2>2 DEF Finish
  <2>3. ASSUME NEW p \in Provider, Publish(p, m) PROVE Revisions'
    <3>1. real[m].rev \in 0..Len(Plan[m].times) /\ real[m].rev \in Nat
      BY MatchTeams
    <3>2. view' \in [Provider -> [Match -> [rev : Nat, over : BOOLEAN]]]
      BY <2>3, <3>1 DEF Publish
    <3>3. view'[p][m].rev = real[m].rev
      BY <2>3 DEF Publish
    <3>4. \A q \in Provider, n \in Match : q # p \/ n # m => view'[q][n] = view[q][n]
      BY <2>3 DEF Publish
    <3>5. \A q \in Provider, n \in Match : view'[q][n].rev \in 0..Len(Plan[n].times)
      BY <3>1, <3>3, <3>4
    <3> QED BY <2>3, <3>2, <3>5 DEF Publish
  <2> QED BY <2>1, <2>2, <2>3
<1> QED BY <1>2, <1>3 DEF IInv

\* Every step keeps rows with their teams and events with their matches.
LEMMA NextIInv == IInv /\ [Next]_vars => IInv'
<1> SUFFICES ASSUME IInv, [Next]_vars PROVE IInv'
  OBVIOUS
<1>1. ASSUME NEW p \in Provider, NEW m \in Match, Upsert(p, m) PROVE IInv'
  <2>1. Identity(db)'
    <3>1. PICK d, l : Identity(d) /\ Listed(d, m, l) /\ db' = Write(d, p, m, l)
      BY <1>1, UpsertWrites
    <3>2. Identity(db')
      BY <3>1, WriteRight
    <3> QED BY <3>2
  <2>2. Revisions'
    BY <1>1 DEF IInv, Revisions, Upsert
  <2> QED BY <2>1, <2>2 DEF IInv
<1>2. CASE UNCHANGED vars
  BY <1>2 DEF IInv, Revisions, vars
<1> QED BY <1>1, <1>2, ListingIInv DEF Next

---------------------------------------------------------------------------
(* The results *)

\* Rows and events stand for one thing each at every moment.
THEOREM Invariance == Spec => []IInv
  BY InitIInv, NextIInv, PTL DEF Spec

\* No two matches ever share an event, for any matches and providers whose names and ids
\* are used consistently, in whatever order and however late listings arrive.
THEOREM SpecNoFalseMerge == Spec => []NoFalseMerge
<1>1. ASSUME IInv PROVE NoFalseMerge
  <2> SUFFICES ASSUME NEW j \in DOMAIN db.eventOf, NEW k \in DOMAIN db.eventOf,
                      db.eventOf[j] = db.eventOf[k]
               PROVE  j[2] = k[2]
    BY DEF NoFalseMerge
  <2>1. /\ j \in Listing /\ k \in Listing /\ db.eventOf[j] \in DOMAIN db.events
        /\ OfMatch(db, db.eventOf[j], j[2]) /\ OfMatch(db, db.eventOf[j], k[2])
    BY <1>1 DEF IInv, Identity, EventsRight
  <2>2. j[2] \in Match /\ k[2] \in Match
    BY <2>1 DEF Listing
  <2> QED BY <1>1, <2>1, <2>2, OneMatch DEF IInv
<1> QED BY <1>1, Invariance, PTL

\* Neither unique constraint of the events table is ever violated by an upsert.
THEOREM SpecKeysUnique == Spec => []KeysUnique
<1>1. ASSUME IInv PROVE KeysUnique
  BY <1>1 DEF IInv, Identity, EventsRight, KeysRight, KeysUnique
<1> QED BY <1>1, Invariance, PTL

\* An event is between rows of the two teams of its match.
THEOREM SpecTeamsApart == Spec => []TeamsApart
<1>1. ASSUME IInv PROVE TeamsApart
  <2> SUFFICES ASSUME NEW k \in DOMAIN db.eventOf
               PROVE  LET e == db.events[db.eventOf[k]]
                          Names(team) == UNION {NamesOf[p][team] : p \in Provider}
                      IN  \/ /\ db.entities[e.home].name \in Names(Plan[k[2]].home)
                             /\ db.entities[e.away].name \in Names(Plan[k[2]].away)
                          \/ /\ db.entities[e.home].name \in Names(Plan[k[2]].away)
                             /\ db.entities[e.away].name \in Names(Plan[k[2]].home)
    BY DEF TeamsApart
  <2>1. OfMatch(db, db.eventOf[k], k[2])
    BY <1>1 DEF IInv, Identity, EventsRight
  <2>2. ASSUME NEW i, NEW sport, NEW a, Stands(db, i, sport, a)
        PROVE  db.entities[i].name \in UNION {NamesOf[p][a] : p \in Provider}
    BY <2>2 DEF Stands
  <2> DEFINE v == db.events[db.eventOf[k]]
             sport == Plan[k[2]].sport
             Names(team) == UNION {NamesOf[p][team] : p \in Provider}
  <2>3. \/ Stands(db, v.home, sport, Plan[k[2]].home) /\ Stands(db, v.away, sport, Plan[k[2]].away)
        \/ Stands(db, v.home, sport, Plan[k[2]].away) /\ Stands(db, v.away, sport, Plan[k[2]].home)
    BY <2>1 DEF OfMatch, Between
  <2>4. \A i, a : Stands(db, i, sport, a) => db.entities[i].name \in Names(a)
    BY <2>2
  <2> HIDE DEF Names, sport, v
  <2>5. \/ db.entities[v.home].name \in Names(Plan[k[2]].home)
           /\ db.entities[v.away].name \in Names(Plan[k[2]].away)
        \/ db.entities[v.home].name \in Names(Plan[k[2]].away)
           /\ db.entities[v.away].name \in Names(Plan[k[2]].home)
    BY <2>3, <2>4
  <2> QED BY <2>5 DEF Names, v
<1> QED BY <1>1, Invariance, PTL

\* Only a listing of a provider of results that has not seen the result reopens a match.
THEOREM SpecFinalStays == Spec => FinalStays
<1> DEFINE Stays ==
        \A e \in DOMAIN db.events :
          db.events[e].status = "FINAL" =>
              \/ db'.events[e].status = "FINAL"
              \/ \E p \in Scorer, m \in Match : /\ view[p][m].rev > 0 /\ ~view[p][m].over
                                              /\ <<p, m>> \in DOMAIN db'.eventOf
                                              /\ db'.eventOf[<<p, m>>] = e
<1>1. ASSUME IInv, [Next]_vars PROVE Stays
  <2> SUFFICES ASSUME NEW e \in DOMAIN db.events, db.events[e].status = "FINAL",
                      db'.events[e].status # "FINAL"
               PROVE  \E p \in Scorer, m \in Match :
                          /\ view[p][m].rev > 0 /\ ~view[p][m].over
                          /\ <<p, m>> \in DOMAIN db'.eventOf /\ db'.eventOf[<<p, m>>] = e
    OBVIOUS
  <2>1. PICK p \in Provider, m \in Match : Upsert(p, m)
    <3>1. UNCHANGED db \/ \E p \in Provider, m \in Match : Upsert(p, m)
      BY <1>1 DEF Next, Reschedule, Finish, Publish, vars
    <3> QED BY <3>1
  <2>2. PICK d, l : /\ Identity(d) /\ Listed(d, m, l) /\ db' = Write(d, p, m, l)
                    /\ d.events = db.events /\ d.eventOf = db.eventOf
                    /\ l.status = IF view[p][m].over THEN "FINAL" ELSE "SCHEDULED"
    BY <1>1, <2>1, UpsertWrites
  <2> DEFINE target == Target(d, p, m, l)
             id == First(target)
  <2>3. d.events \in Seq(Event) /\ e \in DOMAIN d.events /\ DOMAIN d.events = 1..Len(d.events)
        /\ Len(d.events) \in Nat
    BY <2>2 DEF Identity, Types
  <2>4. e \in DOMAIN d.events /\ Types(d)
    BY <2>2 DEF Identity
  <2>5. /\ target # {} /\ e = id
        /\ db'.events[e].status = Status(p, d.events[e].status, l.status)
        /\ db'.eventOf = Put(d.eventOf, <<p, m>>, e)
    BY <2>2, <2>4, WriteOne
  <2>6. p \in Scorer /\ l.status # "FINAL"
    BY <2>2, <2>5 DEF Status
  <2>7. <<p, m>> \in DOMAIN d.eventOf => d.eventOf[<<p, m>>] = e
    <3>1. ASSUME <<p, m>> \in DOMAIN d.eventOf PROVE d.eventOf[<<p, m>>] = e
      <4>1. target = {d.eventOf[<<p, m>>]}
        BY <3>1 DEF Target
      <4>2. target \in SUBSET Nat
        BY <2>2, <2>3, TargetRight
      <4>3. id \in target
        BY <2>5, <4>2, FirstOfThem
      <4> QED BY <2>5, <4>1, <4>3
    <3> QED BY <3>1
  <2>8. <<p, m>> \in DOMAIN db'.eventOf /\ db'.eventOf[<<p, m>>] = e
    BY <2>5, <2>7 DEF Put
  <2>9. view[p][m].rev > 0 /\ ~view[p][m].over
    BY <2>1, <2>2, <2>6 DEF Upsert
  <2> QED BY <2>6, <2>8, <2>9
<1>2. [][Next]_vars /\ []IInv => [][Stays]_vars
  BY <1>1, PTL
<1> QED BY <1>2, Invariance, PTL DEF Spec, FinalStays

---------------------------------------------------------------------------
(* Agreeing providers *)

\* Providers agree on football: one name for a team and for a competition, home sides first.
Agreement ==
    /\ \A a \in Teams("football") : \E n : \A p \in Provider : NamesOf[p][a] \subseteq {n}
    /\ \A c \in Comps("football"), p, q \in Provider : CompNameOf[p][c] = CompNameOf[q][c]
    /\ \A p \in Provider, m \in Match : Plan[m].sport = "football" => <<p, m>> \notin Swapped

\* Then a team and a competition have one row.
LEMMA OneRow ==
    ASSUME Agreement, NEW d, Types(d), Unique(d), NEW i, NEW j
    PROVE  /\ \A a : Stands(d, i, "football", a) /\ Stands(d, j, "football", a) => i = j
           /\ \A c : IsComp(d, i, "football", c) /\ IsComp(d, j, "football", c) => i = j
<1>1. ASSUME NEW a, Stands(d, i, "football", a), Stands(d, j, "football", a) PROVE i = j
  <2>1. d.entities[i] \in Entity /\ d.entities[j] \in Entity
    BY <1>1 DEF Stands, Types
  <2>2. PICK n : \A p \in Provider : NamesOf[p][a] \subseteq {n}
    BY <1>1 DEF Stands, Agreement
  <2>3. d.entities[i].name = n /\ d.entities[j].name = n
    BY <1>1, <2>2 DEF Stands
  <2>4. d.entities[i] = d.entities[j]
    BY <1>1, <2>1, <2>3 DEF Stands, Entity
  <2> QED BY <1>1, <2>4 DEF Unique, Stands
<1>2. ASSUME NEW c, IsComp(d, i, "football", c), IsComp(d, j, "football", c) PROVE i = j
  <2>1. d.comps[i].name = d.comps[j].name
    BY <1>2 DEF IsComp, Agreement
  <2> QED BY <1>2, <2>1 DEF Unique, IsComp
<1> QED BY <1>1, <1>2

\* Writing a listing leaves the rows alone, and football events in the order of the plan.
LEMMA WriteInOrder ==
    ASSUME NEW d, Identity(d), Unique(d), InOrder(d), NEW p \in Provider, NEW m \in Match,
           NEW l, Listed(d, m, l),
           Plan[m].sport = "football" => /\ Stands(d, l.home, Plan[m].sport, Plan[m].home)
                                         /\ Stands(d, l.away, Plan[m].sport, Plan[m].away)
    PROVE  Unique(Write(d, p, m, l)) /\ InOrder(Write(d, p, m, l))
<1> DEFINE target == Target(d, p, m, l)
           id == First(target)
           e == Write(d, p, m, l)
           Fields(status, key, by) ==
               [sport |-> l.sport, comp |-> l.comp, home |-> l.home, away |-> l.away,
                start |-> l.start, status |-> status, key |-> key, by |-> by]
           new == Fields(l.status, NewKey(d, p, m, l), <<p, m>>)
           known == Fields(Status(p, d.events[id].status, l.status),
                           d.events[id].key, d.events[id].by)
<1>1. /\ d.events \in Seq(Event) /\ DOMAIN d.events = 1..Len(d.events) /\ Len(d.events) \in Nat
      /\ Types(d)
  BY DEF Identity, Types
<1>2. /\ e.entities = d.entities /\ e.comps = d.comps
      /\ target = {} => e.events = Append(d.events, new)
      /\ target # {} => e.events = [d.events EXCEPT ![id] = known]
  <2>1. Types(d)
    BY <1>1
  <2> QED BY ONLY <2>1, WriteRows
<1>3. /\ new.home = l.home /\ new.away = l.away /\ new.by[2] = m
      /\ known.home = l.home /\ known.away = l.away /\ known.by = d.events[id].by
  OBVIOUS
<1>4. target # {} => id \in DOMAIN d.events /\ d.events[id].by[2] = m
  <2> SUFFICES ASSUME target # {} PROVE id \in DOMAIN d.events /\ d.events[id].by[2] = m
    OBVIOUS
  <2>1. target \in SUBSET Nat
    BY <1>1, TargetRight
  <2>2. id \in target
    BY <2>1, FirstOfThem
  <2>3. id \in DOMAIN d.events /\ OfMatch(d, id, m)
    BY <2>2, TargetRight
  <2> QED BY <2>3, EventMatch, OneMatch
<1> HIDE DEF e, new, known, id, target
<1>5. Unique(e)
  BY <1>2 DEF Unique
<1>6. \A i, sport, a : Stands(d, i, sport, a) <=> Stands(e, i, sport, a)
  BY <1>2 DEF Stands
<1>7. ASSUME NEW x \in DOMAIN e.events
      PROVE  \/ x \in DOMAIN d.events /\ e.events[x] = d.events[x]
             \/ e.events[x].home = l.home /\ e.events[x].away = l.away /\ e.events[x].by[2] = m
  <2>1. CASE target = {}
    <3>1. /\ DOMAIN e.events = 1..Len(d.events) + 1
          /\ e.events[Len(d.events) + 1] = new
          /\ \A y \in DOMAIN d.events : e.events[y] = d.events[y]
      BY <1>1, <1>2, <2>1
    <3>2. x \in DOMAIN d.events \/ x = Len(d.events) + 1
      BY <1>1, <3>1
    <3> QED BY <1>3, <3>1, <3>2
  <2>2. CASE target # {}
    <3>1. e.events = [d.events EXCEPT ![id] = known]
      BY <1>2, <2>2
    <3> QED BY <1>3, <1>4, <2>2, <3>1
  <2> QED BY <2>1, <2>2
<1>8. InOrder(e)
  <2> SUFFICES ASSUME NEW x \in DOMAIN e.events, NEW n, n = e.events[x].by[2],
                      Plan[n].sport = "football"
               PROVE  /\ Stands(e, e.events[x].home, Plan[n].sport, Plan[n].home)
                      /\ Stands(e, e.events[x].away, Plan[n].sport, Plan[n].away)
    BY DEF InOrder
  <2>1. CASE x \in DOMAIN d.events /\ e.events[x] = d.events[x]
    BY <1>6, <2>1 DEF InOrder
  <2>2. CASE e.events[x].home = l.home /\ e.events[x].away = l.away /\ e.events[x].by[2] = m
    BY <1>6, <2>2
  <2> QED BY <1>7, <2>1, <2>2
<1> QED BY <1>5, <1>8 DEF e

\* The rows are unique and the events in order at every step.
LEMMA UpsertInOrder ==
    ASSUME Agreement, IInv, Unique(db), InOrder(db), NEW p \in Provider, NEW m \in Match,
           Upsert(p, m)
    PROVE  /\ Unique(db') /\ InOrder(db')
           /\ \E d, l : /\ Identity(d) /\ Listed(d, m, l) /\ db' = Write(d, p, m, l)
                        /\ d.events = db.events /\ d.eventOf = db.eventOf
                        /\ l.start = Plan[m].times[view[p][m].rev]
                        /\ Unique(d) /\ InOrder(d)
                        /\ Plan[m].sport = "football" =>
                              /\ Stands(d, l.home, Plan[m].sport, Plan[m].home)
                              /\ Stands(d, l.away, Plan[m].sport, Plan[m].away)
<1>1. PICK d, l : /\ Identity(d) /\ Listed(d, m, l) /\ db' = Write(d, p, m, l)
                  /\ d.events = db.events /\ d.eventOf = db.eventOf
                  /\ l.start = Plan[m].times[view[p][m].rev]
                  /\ Stands(d, l.home, Plan[m].sport, Home(p, m))
                  /\ Stands(d, l.away, Plan[m].sport, Away(p, m))
                  /\ Extends(db, d) /\ Unique(d)
  BY UpsertWrites
<1>2. Plan[m].sport = "football" => Home(p, m) = Plan[m].home /\ Away(p, m) = Plan[m].away
  BY DEF Agreement, Home, Away
<1>3. InOrder(d)
  BY <1>1, RowsKept DEF InOrder
<1>4. Plan[m].sport = "football" => /\ Stands(d, l.home, Plan[m].sport, Plan[m].home)
                                    /\ Stands(d, l.away, Plan[m].sport, Plan[m].away)
  BY <1>1, <1>2
<1>5. Unique(db') /\ InOrder(db')
  BY <1>1, <1>3, <1>4, WriteInOrder
<1> QED BY <1>1, <1>3, <1>4, <1>5

\* A new listing joins the only event of its match, if that is near.
LEMMA Joins ==
    ASSUME Agreement, NEW d, Identity(d), Unique(d), InOrder(d), NEW p \in Provider,
           NEW m \in Match, NEW l, Listed(d, m, l), Plan[m].sport = "football",
           Stands(d, l.home, Plan[m].sport, Plan[m].home),
           Stands(d, l.away, Plan[m].sport, Plan[m].away),
           <<p, m>> \notin DOMAIN d.eventOf, NEW e,
           \E j \in DOMAIN d.eventOf : j[2] = m /\ d.eventOf[j] = e,
           \A j \in DOMAIN d.eventOf : j[2] = m => d.eventOf[j] = e,
           Distance(d.events[e].start, l.start) <= Window
    PROVE  Write(d, p, m, l).eventOf[<<p, m>>] = e
<1> DEFINE near == {x \in DOMAIN d.events :
                       /\ d.events[x].sport = l.sport /\ d.events[x].comp = l.comp
                       /\ d.events[x].home = l.home /\ d.events[x].away = l.away
                       /\ Distance(d.events[x].start, l.start) <= Window}
<1>1. PICK j \in DOMAIN d.eventOf : j[2] = m /\ d.eventOf[j] = e
  OBVIOUS
<1>2. e \in DOMAIN d.events /\ OfMatch(d, e, m) /\ Types(d)
  BY <1>1 DEF Identity, EventsRight
<1>3. d.events[e].by[2] = m
  BY <1>2, EventMatch, OneMatch
<1>4. e \in near
  <2>1. /\ Stands(d, d.events[e].home, "football", Plan[m].home)
        /\ Stands(d, d.events[e].away, "football", Plan[m].away)
    BY <1>2, <1>3 DEF InOrder
  <2>2. d.events[e].home = l.home /\ d.events[e].away = l.away
    BY <1>2, <2>1, OneRow
  <2>3. IsComp(d, d.events[e].comp, "football", Plan[m].comp)
        /\ IsComp(d, l.comp, "football", Plan[m].comp)
    BY <1>2 DEF OfMatch, Listed
  <2>4. d.events[e].comp = l.comp
    BY <1>2, <2>3, OneRow
  <2>5. d.events[e].sport = l.sport
    BY <1>2 DEF OfMatch, Listed
  <2> QED BY <1>2, <2>2, <2>4, <2>5
<1>5. ASSUME NEW x \in near PROVE x = e
  <2>1. d.events[x].by[2] = m
    BY <1>5, NearMatch
  <2>2. d.events[x].by \in DOMAIN d.eventOf /\ d.eventOf[d.events[x].by] = x
    BY <1>5 DEF Identity, EventsRight
  <2> QED BY <2>1, <2>2
<1>6. near = {e}
  <2> HIDE DEF near
  <2> QED BY <1>4, <1>5
<1>7. Near(d, l) = {e}
  <2>1. Cardinality(near) = 1
    BY <1>6, FS_Singleton
  <2>2. l.sport = "football"
    BY DEF Listed
  <2>3. Near(d, l) = near
    BY <2>1, <2>2 DEF Near
  <2> QED BY <1>6, <2>3
<1>8. Target(d, p, m, l) = {e}
  BY <1>7 DEF Target
<1>9. First({e}) = e
  <2>1. {e} \in SUBSET Nat
    BY <1>2 DEF Types
  <2> QED BY <2>1, FirstOfThem
<1>10. Write(d, p, m, l).eventOf = Put(d.eventOf, <<p, m>>, e)
  <2>1. Types(d) /\ Target(d, p, m, l) # {}
    BY <1>2, <1>8
  <2>2. Write(d, p, m, l).eventOf = Put(d.eventOf, <<p, m>>, First(Target(d, p, m, l)))
    BY <2>1, WriteLeads
  <2> QED BY <1>8, <1>9, <2>2
<1>11. <<p, m>> \in DOMAIN Put(d.eventOf, <<p, m>>, e)
       /\ Put(d.eventOf, <<p, m>>, e)[<<p, m>>] = e
  BY DEF Put
<1> QED BY <1>10, <1>11

\* If providers agree on the names of football, a listing joins the event of its match that
\* is within ten minutes of it, unless other listings are split already, for any matches,
\* ids, keys, reschedules and order of arrival (upsert_event's candidates).
THEOREM SpecAgreeingListingsJoin == Agreement => (Spec => AgreeingListingsJoin)
<1> DEFINE Order == Agreement /\ Unique(db) /\ InOrder(db)
           Join ==
             \A k \in DOMAIN db'.eventOf \ DOMAIN db.eventOf :
                LET p == k[1]
                    m == k[2]
                    others == {db.eventOf[j] : j \in {j \in DOMAIN db.eventOf : j[2] = m}}
                IN  Plan[m].sport = "football" /\ k \notin Swapped =>
                        \A e \in others :
                            /\ Distance(db.events[e].start, Plan[m].times[view[p][m].rev]) <= Window
                            /\ others = {e}
                            => db'.eventOf[k] = e
<1>1. Agreement /\ Init => Order
  <2>1. Init => DOMAIN db.entities = {} /\ DOMAIN db.comps = {} /\ DOMAIN db.events = {}
    BY DEF Init
  <2> QED BY <2>1 DEF Unique, InOrder
<1>2. ASSUME IInv, Order, [Next]_vars PROVE Order'
  <2>1. CASE UNCHANGED db
    BY <1>2, <2>1 DEF Unique, InOrder, Stands, Agreement
  <2>2. ASSUME NEW p \in Provider, NEW m \in Match, Upsert(p, m) PROVE Order'
    <3>1. Unique(db') /\ InOrder(db')
      BY <1>2, <2>2, UpsertInOrder
    <3> QED BY <1>2, <3>1 DEF Agreement
  <2> QED BY <1>2, <2>1, <2>2 DEF Next, Reschedule, Finish, Publish, vars
<1>3. ASSUME IInv, Order, [Next]_vars PROVE Join
  <2> SUFFICES ASSUME NEW k \in DOMAIN db'.eventOf \ DOMAIN db.eventOf,
                      Plan[k[2]].sport = "football", NEW e,
                      {db.eventOf[j] : j \in {j \in DOMAIN db.eventOf : j[2] = k[2]}} = {e},
                      Distance(db.events[e].start, Plan[k[2]].times[view[k[1]][k[2]].rev])
                          <= Window
               PROVE  db'.eventOf[k] = e
    OBVIOUS
  <2>1. PICK p \in Provider, m \in Match : Upsert(p, m)
    <3>1. UNCHANGED db \/ \E p \in Provider, m \in Match : Upsert(p, m)
      BY <1>3 DEF Next, Reschedule, Finish, Publish, vars
    <3> QED BY <3>1
  <2>2. PICK d, l : /\ Identity(d) /\ Listed(d, m, l) /\ db' = Write(d, p, m, l)
                    /\ d.events = db.events /\ d.eventOf = db.eventOf
                    /\ l.start = Plan[m].times[view[p][m].rev]
                    /\ Unique(d) /\ InOrder(d)
                    /\ Plan[m].sport = "football" =>
                          /\ Stands(d, l.home, Plan[m].sport, Plan[m].home)
                          /\ Stands(d, l.away, Plan[m].sport, Plan[m].away)
    BY <1>3, <2>1, UpsertInOrder
  <2>3. k = <<p, m>>
    <3>1. Types(d)
      BY <2>2 DEF Identity
    <3>2. \E id : db'.eventOf = Put(d.eventOf, <<p, m>>, id)
      <4>1. \E id : Write(d, p, m, l).eventOf = Put(d.eventOf, <<p, m>>, id)
        BY <3>1, WriteLeads
      <4> QED BY <2>2, <4>1
    <3> QED BY <2>2, <3>2 DEF Put
  <2>4. k[1] = p /\ k[2] = m
    BY <2>3
  <2>5. /\ Plan[m].sport = "football" /\ <<p, m>> \notin DOMAIN d.eventOf
        /\ \E j \in DOMAIN d.eventOf : j[2] = m /\ d.eventOf[j] = e
        /\ \A j \in DOMAIN d.eventOf : j[2] = m => d.eventOf[j] = e
        /\ Distance(d.events[e].start, l.start) <= Window
    BY <2>2, <2>3, <2>4
  <2>6. Write(d, p, m, l).eventOf[<<p, m>>] = e
    BY <1>3, <2>2, <2>5, Joins
  <2> QED BY <2>2, <2>3, <2>6
<1>4. Agreement /\ Spec /\ []IInv => []Order
  BY <1>1, <1>2, PTL DEF Spec
<1>5. []Order /\ []IInv /\ [][Next]_vars => [][Join]_vars
  BY <1>3, PTL
<1> QED BY <1>4, <1>5, Invariance, PTL DEF Spec, AgreeingListingsJoin

===========================================================================
