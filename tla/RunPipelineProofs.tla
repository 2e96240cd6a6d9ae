-------------------------- MODULE RunPipelineProofs --------------------------
(***************************************************************************)
(* Proofs about RunPipeline and ProviderSync, for any job types, football  *)
(* providers, quotas, prices and bounds.                                   *)
(*                                                                         *)
(* None of the four invariants is inductive.  What a sync has committed    *)
(* depends on where it is in its plan of requests (Fits), what it may      *)
(* still be charged on the number of its attempts (Charged), and what a    *)
(* finished run says of a provider on what was known of it when the loop   *)
(* over the syncs left it (Synced).                                        *)
(***************************************************************************)
EXTENDS RunPipeline, SequenceTheorems, WellFoundedInduction, TLAPS

---------------------------------------------------------------------------
(* The inductive invariant *)

Within == {"fetching", "saved", "online", "audited", "failing", "degraded"}
After == {"settle", "settling", "infer", "inferred", "report", "finish", "done"}
Ended == {"report", "finish", "done"}

Item == {"sports", "odds", "leagues", "fixtures", "statistics", "standings", "teams", "lineups",
         "injuries", "matches", "rankings"} \cup DOMAIN Commits
Shown == {"NOT_CONFIGURED", "ONLINE", "EMPTY", "DEGRADED", "FORBIDDEN", "FAILED", "OFFLINE"}

Types ==
    /\ job \in JobType
    /\ configured \in SUBSET Provider
    /\ football \in {"sportmonks", "api_football"}
    /\ step \in [Step -> {"QUEUED", "RUNNING"} \cup Closed]
    /\ provider \in [Provider -> Shown]
    /\ boot \in {"no", "done"} \cup Provider
    /\ predicted \in BOOLEAN /\ stored \in BOOLEAN /\ reported \in BOOLEAN
    /\ at \in 1..3
    /\ pc \in {"enter", "unconfigured", "stopped"} \cup Within \cup After
    /\ plan \in Seq(Item)
    /\ attempt \in 0..2
    /\ quota \in Nat
    /\ silent \in SUBSET Nat

\* Items of the set S, and a last one.
Ends(s, last, S) ==
    /\ s \in Seq(Item)
    /\ s # <<>>
    /\ s[Len(s)] = last
    /\ \A i \in 1..Len(s) - 1 : s[i] \in S

Extras == {"statistics", "standings", "teams", "lineups"}
Needed == {"standings", "teams", "injuries", "lineups"}

\* Nothing of the current provider is committed.
Unsaved == Data[Current] \cap saved = {}

\* Where a client is in its plan, and what it has committed by then.
FitsOdds ==
    /\ Unsaved
    /\ \/ plan = <<"sports">> /\ silent = {}
       \/ Ends(plan, "ODDS", {"odds"})
FitsTennis == Unsaved /\ (plan = <<"matches">> \/ Ends(plan, "TENNIS", {"rankings"}))
FitsApi == Unsaved /\ (plan = <<"fixtures">> \/ Ends(plan, "FOOTBALL", Needed))
FitsSportmonks ==
    \/ /\ Unsaved
       /\ \/ plan \in {<<"leagues">>, <<"LEAGUES", "fixtures">>, <<"fixtures">>}
          \/ /\ plan \in Seq(Item) /\ plan # <<>>
             /\ Head(plan) = "FIXTURES" /\ Ends(Tail(plan), "DETAILS", Extras)
    \/ "fixtures" \in saved /\ Ends(plan, "DETAILS", Extras)

Fits ==
    /\ Client = "the_odds_api" => FitsOdds
    /\ Client = "api_tennis" => FitsTennis
    /\ Client = "api_football" => FitsApi
    /\ Client = "sportmonks" => FitsSportmonks

\* What the attempts of n targets cost.
Lost(n) == n * (Attempts * Cost)

\* After an answer that told, the first attempt is made knowing what is left; each attempt
\* since then, also those of targets whose answers did not tell, may have cost its price.
Charged ==
    Head(plan) = "odds" =>
        \A n \in silent :
            IF n = 0 /\ attempt = 0 THEN known = {quota}
            ELSE quota > Floor - Lost(n) - attempt * Cost

Requests == pc = "fetching" => Fits /\ Charged

\* The loop has left the provider behind.
Place == [odds |-> 1, football |-> 2, tennis |-> 3]
Past(p) == pc \in After \/ Place[p] < at

Delivering(p) ==
    provider[p] \in {"ONLINE", "EMPTY"} \cup (IF boot = "done" THEN {"OFFLINE"} ELSE {})

\* What is known of a provider before its sync and after it.
Untouched(p) == step[p] \in {"QUEUED", "RUNNING"}
Clean(p) ==
    /\ step[p] \in {"COMPLETED", "SKIPPED"}
    /\ p \in configured \cap Scope(job) =>
        step[p] = "COMPLETED" /\ Data[p] \subseteq saved /\ Delivering(p)
Synced(p) ==
    /\ ~Past(p) => Untouched(p)
    /\ ~Past(p) /\ (p # Current \/ pc \in {"enter", "unconfigured"}) => Data[p] \cap saved = {}
    /\ Past(p) /\ p \notin errors => Clean(p)

\* What is known of the provider whose sync is running.
Working ==
    /\ pc \in Within => Current \in Scope(job) \cap configured
    /\ pc = "unconfigured" => Current \notin configured
    /\ pc \in {"saved", "online", "audited"} => Data[Current] \subseteq saved
    /\ pc \in {"online", "audited"} => Delivering(Current)
    /\ pc = "degraded" => provider[Current] \notin {"ONLINE", "EMPTY"}
    /\ pc \in {"failing", "degraded"} /\ Current \notin broken => Unsaved

Syncs == pc # "stopped" => Working /\ \A p \in Provider : Synced(p)

Closing ==
    /\ run = "COMPLETED" => pc = "done" /\ errors = {} /\ configured \cap Scope(job) # {}
    /\ pc \in {"infer", "inferred"} \cup Ended /\ "settlement" \notin errors
            => step["SETTLEMENT"] = "SKIPPED"
    /\ pc \notin Ended \cup {"stopped"} =>
        stored = FALSE /\ \A s \in Reporting : step[s] = "QUEUED"
    /\ pc \notin Ended \cup {"inferred", "stopped"} => predicted = FALSE
    /\ pc \in Ended =>
        /\ stored = predicted
        /\ \A s \in Reporting : step[s] \in {"QUEUED", IF predicted THEN "COMPLETED" ELSE "SKIPPED"}
    /\ pc \in {"finish", "done"} =>
        step["PERSIST_OUTPUT"] = "COMPLETED" /\ \A s \in Reporting : step[s] # "QUEUED"
    /\ pc = "done" => reported = predicted

IInv == Types /\ Requests /\ Syncs /\ Closing /\ FailureShown /\ RefusalsCostNothing

---------------------------------------------------------------------------
(* Plans *)

\* The parts of a plan that ends with a given item.
LEMMA EndsParts ==
    ASSUME NEW s, NEW last, NEW S, Ends(s, last, S)
    PROVE  /\ s \in Seq(Item) /\ s # <<>> /\ Len(s) \in Nat \ {0} /\ Head(s) = s[1]
           /\ s[Len(s)] = last
           /\ \A i \in 1..Len(s) - 1 : s[i] \in S
BY DEF Ends

\* Its first item.
LEMMA EndsFirst ==
    ASSUME NEW s, NEW last, NEW S, Ends(s, last, S)
    PROVE  Head(s) \in S \cup {last}
BY EndsParts

\* What is left of it after an item that is not its last.
LEMMA EndsTail ==
    ASSUME NEW s, NEW last, NEW S, Ends(s, last, S), Head(s) # last
    PROVE  Ends(Tail(s), last, S)
<1>1. s \in Seq(Item) /\ s # <<>> /\ Len(s) \in Nat \ {0, 1}
    BY EndsParts
<1> DEFINE t == Tail(s)
<1>2. t \in Seq(Item) /\ Len(t) = Len(s) - 1
    BY <1>1
<1>3. \A i \in 1..Len(s) - 1 : t[i] = s[i + 1]
    BY <1>1
<1> HIDE DEF t
<1>4. t # <<>> /\ t[Len(t)] = last
    BY <1>1, <1>2, <1>3, EndsParts
<1>5. \A i \in 1..Len(t) - 1 : t[i] \in S
    BY <1>1, <1>2, <1>3, EndsParts
<1>6. Ends(t, last, S)
    BY <1>2, <1>4, <1>5 DEF Ends
<1> QED
    BY <1>6 DEF t

\* Nothing is left after its last item.
LEMMA EndsLast ==
    ASSUME NEW s, NEW last, NEW S, Ends(s, last, S), Head(s) = last, last \notin S
    PROVE  Tail(s) = <<>>
<1> DEFINE n == Len(s)
<1>1. s \in Seq(Item) /\ s # <<>> /\ n \in Nat \ {0}
    BY EndsParts
<1>2. s[1] \notin S
    BY EndsParts
<1>3. \A i \in 1..n - 1 : s[i] \in S
    BY EndsParts
<1>4. n = 1
    <2> HIDE DEF n
    <2> QED
        BY <1>1, <1>2, <1>3
<1>5. Tail(s) \in Seq(Item) /\ Len(Tail(s)) = 0
    BY <1>1, <1>4, HeadTailProperties
<1> QED
    BY <1>5, EmptySeq

\* Any items of the set may come before.
LEMMA EndsAfter ==
    ASSUME NEW s, NEW last, NEW S, S \subseteq Item, NEW a \in Seq(S), Ends(s, last, S)
    PROVE  Ends(a \o s, last, S)
<1>1. a \in Seq(Item)
    BY SeqMonotonic
<1>2. s \in Seq(Item) /\ Len(s) \in Nat \ {0} /\ Len(a) \in Nat
    BY <1>1, EndsParts
<1> DEFINE t == a \o s
<1>3. t \in Seq(Item) /\ Len(t) = Len(a) + Len(s)
    BY <1>1, <1>2
<1>4. \A i \in 1..Len(a) + Len(s) : t[i] = IF i <= Len(a) THEN a[i] ELSE s[i - Len(a)]
    BY <1>1, <1>2, SMTT(30)
<1> HIDE DEF t
<1>5. t # <<>> /\ t[Len(t)] = last
    BY <1>2, <1>3, <1>4, EndsParts
<1>6. ASSUME NEW i \in 1..Len(t) - 1
      PROVE  t[i] \in S
    <2>1. CASE i <= Len(a)
        BY <2>1, <1>2, <1>3, <1>4, ElementOfSeq
    <2>2. CASE i > Len(a)
        <3>1. t[i] = s[i - Len(a)] /\ i - Len(a) \in 1..Len(s) - 1
            BY <2>2, <1>2, <1>3, <1>4
        <3> QED
            BY <3>1, EndsParts
    <2> QED
        BY <2>1, <2>2, <1>2, <1>3
<1>7. Ends(t, last, S)
    BY <1>3, <1>5, <1>6 DEF Ends
<1> QED
    BY <1>7 DEF t

\* A plan of one item.
LEMMA EndsOne ==
    ASSUME NEW last \in Item, NEW S
    PROVE  Ends(<<last>>, last, S)
<1> DEFINE s == <<last>>
<1>1. s \in Seq(Item) /\ s # <<>> /\ Len(s) = 1 /\ s[1] = last
    OBVIOUS
<1> HIDE DEF s
<1>2. Ends(s, last, S)
    BY <1>1 DEF Ends
<1> QED
    BY <1>2 DEF s

\* Repeating requests makes a sequence of the same requests.
LEMMA TimesOf ==
    ASSUME NEW n \in Nat, NEW S, NEW s \in Seq(S), s # <<>>
    PROVE  Times(n, s) \in Seq(S)
<1> DEFINE len == Len(s)
<1>1. len \in Nat \ {0}
    OBVIOUS
<1>2. n * len \in Nat
    BY <1>1
<1>3. ASSUME NEW i \in 1..n * len
      PROVE  s[((i - 1) % len) + 1] \in S
    <2>1. (i - 1) % len \in 0..len - 1
        BY <1>1, <1>2, <1>3
    <2> QED
        BY <2>1, <1>1
<1> QED
    BY <1>2, <1>3 DEF Times

\* Sequences of one and of two.
LEMMA ShortSeq ==
    ASSUME NEW S, NEW x \in S, NEW y \in S
    PROVE  <<x>> \in Seq(S) /\ <<x>> # <<>> /\ <<x, y>> \in Seq(S) /\ <<x, y>> # <<>>
OBVIOUS

\* The statistics of fixtures.
LEMMA StatisticsOf ==
    ASSUME NEW n \in Nat, NEW S, "standings" \in S, "teams" \in S
    PROVE  FootballStatistics(n) \in Seq(S)
<1>1. TeamStatistics \in Seq(S) /\ TeamStatistics # <<>>
    BY ShortSeq DEF TeamStatistics
<1>2. Times(n, TeamStatistics) \in Seq(S)
    BY <1>1, TimesOf
<1>3. <<"standings">> \in Seq(S)
    BY ShortSeq
<1>4. <<"standings">> \o Times(n, TeamStatistics) \in Seq(S)
    BY <1>2, <1>3, ConcatProperties
<1> QED
    BY <1>4, EmptySeq DEF FootballStatistics

\* What follows a listing of the odds provider.
LEMMA OddsPlan ==
    ASSUME NEW n \in Nat
    PROVE  Ends(TargetOdds(n), "ODDS", {"odds"})
<1>1. <<"odds">> \in Seq({"odds"}) /\ <<"odds">> # <<>>
    BY ShortSeq
<1>2. Times(n, <<"odds">>) \in Seq({"odds"})
    BY <1>1, TimesOf
<1>3. Ends(<<"ODDS">>, "ODDS", {"odds"})
    BY EndsOne DEF Item, Commits
<1>4. {"odds"} \subseteq Item
    BY DEF Item
<1> QED
    BY <1>2, <1>3, <1>4, EndsAfter DEF TargetOdds

\* What follows the fixtures of API-Football.
LEMMA ApiPlan ==
    ASSUME NEW n \in Nat
    PROVE  Ends(FootballData(n), "FOOTBALL", Needed)
<1>1. FootballStatistics(n) \in Seq(Needed)
    BY StatisticsOf DEF Needed
<1>2. FootballAvailability(n) \in Seq(Needed)
    <2>1. <<"injuries", "lineups">> \in Seq(Needed) /\ <<"injuries", "lineups">> # <<>>
        BY ShortSeq DEF Needed
    <2> QED
        BY <2>1, TimesOf DEF FootballAvailability
<1>3. FootballStatistics(n) \o FootballAvailability(n) \in Seq(Needed)
    BY <1>1, <1>2, ConcatProperties
<1>4. Ends(<<"FOOTBALL">>, "FOOTBALL", Needed)
    BY EndsOne DEF Item, Commits
<1>5. Needed \subseteq Item
    BY DEF Needed, Item
<1> QED
    BY <1>3, <1>4, <1>5, EndsAfter DEF FootballData

\* What follows the fixtures of Sportmonks.
LEMMA SportmonksPlan ==
    ASSUME NEW n \in Nat
    PROVE  /\ SportmonksData(n) \in Seq(Item)
           /\ SportmonksData(n) # <<>>
           /\ Head(SportmonksData(n)) = "FIXTURES"
           /\ Ends(Tail(SportmonksData(n)), "DETAILS", Extras)
<1> DEFINE stat == Times(n, <<"statistics">>)
           teams == FootballStatistics(n)
           lineups == IF n = 0 THEN <<>> ELSE <<"lineups">>
           rest == ((stat \o teams) \o lineups) \o <<"DETAILS">>
<1>1. stat \in Seq(Extras)
    <2>1. <<"statistics">> \in Seq(Extras) /\ <<"statistics">> # <<>>
        BY ShortSeq DEF Extras
    <2> QED
        BY <2>1, TimesOf
<1>2. teams \in Seq(Extras)
    BY StatisticsOf DEF Extras
<1>3. lineups \in Seq(Extras)
    <2>1. <<"lineups">> \in Seq(Extras)
        BY ShortSeq DEF Extras
    <2> QED
        BY <2>1, EmptySeq
<1>4. SportmonksData(n) = (((<<"FIXTURES">> \o stat) \o teams) \o lineups) \o <<"DETAILS">>
    BY DEF SportmonksData
<1> HIDE DEF stat, teams, lineups
<1>5. (stat \o teams) \o lineups \in Seq(Extras)
    BY <1>1, <1>2, <1>3, ConcatProperties
<1>6. Extras \subseteq Item
    BY DEF Extras, Item
<1>7. Ends(rest, "DETAILS", Extras)
    <2>1. Ends(<<"DETAILS">>, "DETAILS", Extras)
        BY EndsOne DEF Item, Commits
    <2> QED
        BY <1>5, <1>6, <2>1, EndsAfter
<1>8. <<"FIXTURES">> \in Seq(Item) /\ <<"DETAILS">> \in Seq(Item)
    BY ShortSeq DEF Item, Commits
<1>9. stat \in Seq(Item) /\ teams \in Seq(Item) /\ lineups \in Seq(Item)
    BY <1>1, <1>2, <1>3, <1>6, SeqMonotonic
<1>10. SportmonksData(n) = <<"FIXTURES">> \o rest
    <2> DEFINE first == <<"FIXTURES">>
               last == <<"DETAILS">>
    <2>1. first \in Seq(Item) /\ last \in Seq(Item)
        BY <1>8
    <2>2. stat \in Seq(Item) /\ teams \in Seq(Item) /\ lineups \in Seq(Item)
        BY <1>9
    <2> HIDE DEF first, last, rest
    <2>3. stat \o teams \in Seq(Item)
        BY <2>2, ConcatProperties
    <2>4. (stat \o teams) \o lineups \in Seq(Item)
        BY <2>2, <2>3, ConcatProperties
    <2>5. (first \o stat) \o teams = first \o (stat \o teams)
        BY <2>1, <2>2, ConcatAssociative, SMTT(30)
    <2>6. (first \o (stat \o teams)) \o lineups = first \o ((stat \o teams) \o lineups)
        BY <2>1, <2>2, <2>3, ConcatAssociative, SMTT(30)
    <2>7. (first \o ((stat \o teams) \o lineups)) \o last
                = first \o (((stat \o teams) \o lineups) \o last)
        BY <2>1, <2>4, ConcatAssociative, SMTT(30)
    <2> QED
        BY <1>4, <2>5, <2>6, <2>7, Zenon DEF first, last, rest
<1>11. rest \in Seq(Item)
    BY <1>7 DEF Ends
<1> HIDE DEF rest
<1>12. /\ <<"FIXTURES">> \o rest \in Seq(Item)
       /\ <<"FIXTURES">> \o rest # <<>>
       /\ Head(<<"FIXTURES">> \o rest) = "FIXTURES"
       /\ Tail(<<"FIXTURES">> \o rest) = rest
    BY <1>8, <1>11
<1> QED
    BY <1>7, <1>10, <1>12

\* A set of natural numbers has a least one.
LEMMA Least ==
    ASSUME NEW S \in SUBSET Nat, S # {}
    PROVE  \E m \in S : \A y \in S : m <= y
<1>1. PICK m \in S : \A y \in S : ~(<<y, m>> \in OpToRel(<, Nat))
    BY NatLessThanWellFounded, WFMin
<1>2. \A y \in S : ~(y < m)
    BY <1>1 DEF OpToRel
<1> QED
    BY <1>2

\* Leaving the statistics out leaves the rest of the plan.
LEMMA StatisticsLeftOut ==
    ASSUME Ends(plan, "DETAILS", Extras)
    PROVE  Ends(AfterStatistics, "DETAILS", Extras)
<1> DEFINE Fit(i) == plan[i] # "statistics" /\ \A j \in 1..i - 1 : plan[j] = "statistics"
           Others == {i \in 1..Len(plan) : plan[i] # "statistics"}
<1>1. /\ Len(plan) \in Nat \ {0} /\ plan \in Seq(Item) /\ plan[Len(plan)] = "DETAILS"
      /\ \A i \in 1..Len(plan) - 1 : plan[i] \in Extras
    BY EndsParts
<1>2. \E k \in 1..Len(plan) : Fit(k)
    <2>1. Others \in SUBSET Nat /\ Others # {}
        BY <1>1
    <2> HIDE DEF Others
    <2>2. PICK m \in Others : \A y \in Others : m <= y
        BY <2>1, Least
    <2> QED
        BY <1>1, <2>2 DEF Others
<1> DEFINE next == CHOOSE k \in 1..Len(plan) : Fit(k)
           t == SubSeq(plan, next, Len(plan))
<1>4. next \in 1..Len(plan)
    BY <1>2
<1>5. AfterStatistics = t
    BY DEF AfterStatistics
<1> HIDE DEF next
<1>6. t \in Seq(Item) /\ Len(t) = Len(plan) - next + 1
    BY <1>1, <1>4
<1>7. \A k \in 1..Len(plan) - next + 1 : t[k] = plan[next + k - 1]
    BY <1>1, <1>4
<1> HIDE DEF t
<1>8. t # <<>> /\ t[Len(t)] = "DETAILS"
    BY <1>1, <1>4, <1>6, <1>7
<1>9. \A k \in 1..Len(t) - 1 : t[k] \in Extras
    BY <1>1, <1>4, <1>6, <1>7
<1>10. Ends(t, "DETAILS", Extras)
    BY <1>6, <1>8, <1>9 DEF Ends
<1> QED
    BY <1>5, <1>10

---------------------------------------------------------------------------
(* One client *)

\* Whose turn it is, and which client it has.
LEMMA Clients ==
    ASSUME Types
    PROVE  \/ at = 1 /\ Current = "odds" /\ Client = "the_odds_api"
           \/ at = 2 /\ Current = "football" /\ Client = football /\ Client = "sportmonks"
           \/ at = 2 /\ Current = "football" /\ Client = football /\ Client = "api_football"
           \/ at = 3 /\ Current = "tennis" /\ Client = "api_tennis"
BY DEF Types, Client, Current, SyncOrder

\* Plans of one and of two items.
LEMMA ShortPlan ==
    ASSUME NEW x, NEW y
    PROVE  /\ Head(<<x>>) = x /\ Tail(<<x>>) = <<>> /\ <<x>> # <<>>
           /\ Head(<<x, y>>) = x /\ Tail(<<x, y>>) = <<y>> /\ <<x, y>> # <<>>
OBVIOUS

\* An answer that lists nothing is followed by the rest of the plan.
LEMMA FollowsNothing ==
    ASSUME plan \in Seq(Item), plan # <<>>, NEW c, NEW n,
           Head(plan) \notin {"sports", "leagues", "matches", "fixtures"}
    PROVE  Follows(c, n) \o Tail(plan) = Tail(plan)
<1>1. Follows(c, n) = <<>>
    BY DEF Follows
<1>2. Tail(plan) \in Seq(Item)
    BY HeadTailProperties
<1> QED
    BY <1>1, <1>2, ConcatEmptySeq

\* What an answer leaves to be done, for each client.
LEMMA AnswerFits ==
    ASSUME Types, Fits, IsRequest, NEW n \in Nat, saved' = saved, UNCHANGED <<inputs, at>>,
           plan' = Follows(Client, n) \o Tail(plan)
    PROVE  Fits'
<1>1. Client' = Client /\ Current' = Current /\ plan \in Seq(Item) /\ plan # <<>>
      /\ Head(plan) \notin {"LEAGUES", "FIXTURES", "DETAILS", "FOOTBALL", "ODDS", "TENNIS"}
    BY DEF Client, Current, inputs, Types, IsRequest, Commits
<1>2. ASSUME Unsaved PROVE Unsaved'
    BY <1>1, <1>2 DEF Unsaved, Data
<1>3. \A s \in Seq(Item) : s \o <<>> = s
    BY ConcatEmptySeq
<1>4. ASSUME NEW x, plan = <<x>>, Follows(Client, n) \in Seq(Item)
      PROVE  plan' = Follows(Client, n)
    BY <1>3, <1>4, ShortPlan
<1>5. CASE Client = "the_odds_api"
    <2>1. CASE plan = <<"sports">>
        <3>1. Follows(Client, n) = TargetOdds(n)
            BY <2>1, ShortPlan DEF Follows
        <3>2. Ends(plan', "ODDS", {"odds"})
            BY <3>1, <2>1, <1>4, OddsPlan, EndsParts
        <3> QED
            BY <3>2, <1>1, <1>2, <1>5 DEF Fits, FitsOdds
    <2>2. CASE Ends(plan, "ODDS", {"odds"})
        <3>1. Head(plan) = "odds"
            BY <2>2, <1>1, EndsFirst
        <3>2. plan' = Tail(plan)
            BY <3>1, <1>1, FollowsNothing
        <3>3. Ends(plan', "ODDS", {"odds"})
            BY <3>1, <3>2, <2>2, EndsTail
        <3> QED
            BY <3>3, <1>1, <1>2, <1>5 DEF Fits, FitsOdds
    <2> QED
        BY <2>1, <2>2, <1>5 DEF Fits, FitsOdds
<1>6. CASE Client = "api_tennis"
    <2>1. CASE plan = <<"matches">>
        <3>1. Follows(Client, n) = TennisStatistics \o <<"TENNIS">>
            BY <2>1, ShortPlan DEF Follows
        <3>2. TennisStatistics \in Seq({"rankings"})
            BY ShortSeq DEF TennisStatistics
        <3>3. Ends(<<"TENNIS">>, "TENNIS", {"rankings"}) /\ {"rankings"} \subseteq Item
            BY EndsOne DEF Item, Commits
        <3>4. Ends(TennisStatistics \o <<"TENNIS">>, "TENNIS", {"rankings"})
            BY <3>2, <3>3, EndsAfter
        <3>5. Ends(plan', "TENNIS", {"rankings"})
            BY <3>1, <3>4, <2>1, <1>4, EndsParts
        <3> QED
            BY <3>5, <1>1, <1>2, <1>6 DEF Fits, FitsTennis
    <2>2. CASE Ends(plan, "TENNIS", {"rankings"})
        <3>1. Head(plan) = "rankings"
            BY <2>2, <1>1, EndsFirst
        <3>2. plan' = Tail(plan)
            BY <3>1, <1>1, FollowsNothing
        <3>3. Ends(plan', "TENNIS", {"rankings"})
            BY <3>1, <3>2, <2>2, EndsTail
        <3> QED
            BY <3>3, <1>1, <1>2, <1>6 DEF Fits, FitsTennis
    <2> QED
        BY <2>1, <2>2, <1>6 DEF Fits, FitsTennis
<1>7. CASE Client = "api_football"
    <2>1. CASE plan = <<"fixtures">>
        <3>1. Follows(Client, n) = FootballData(n)
            BY <2>1, <1>7, ShortPlan DEF Follows
        <3>2. Ends(plan', "FOOTBALL", Needed)
            BY <3>1, <2>1, <1>4, ApiPlan, EndsParts
        <3> QED
            BY <3>2, <1>1, <1>2, <1>7 DEF Fits, FitsApi
    <2>2. CASE Ends(plan, "FOOTBALL", Needed)
        <3>1. Head(plan) \in Needed
            BY <2>2, <1>1, EndsFirst
        <3>2. plan' = Tail(plan)
            BY <3>1, <1>1, FollowsNothing DEF Needed
        <3>3. Ends(plan', "FOOTBALL", Needed)
            BY <3>1, <3>2, <2>2, EndsTail DEF Needed
        <3> QED
            BY <3>3, <1>1, <1>2, <1>7 DEF Fits, FitsApi
    <2> QED
        BY <2>1, <2>2, <1>7 DEF Fits, FitsApi
<1>8. CASE Client = "sportmonks"
    <2>1. CASE Unsaved /\ plan = <<"leagues">>
        <3>1. Follows(Client, n) = <<"LEAGUES", "fixtures">>
            BY <2>1, ShortPlan DEF Follows
        <3>2. plan' = <<"LEAGUES", "fixtures">>
            BY <3>1, <2>1, <1>4, ShortSeq DEF Item, Commits
        <3> QED
            BY <3>2, <2>1, <1>1, <1>2, <1>8 DEF Fits, FitsSportmonks
    <2>2. CASE Unsaved /\ plan = <<"fixtures">>
        <3>1. Follows(Client, n) = SportmonksData(n)
            BY <2>2, <1>8, ShortPlan DEF Follows
        <3>2. plan' = SportmonksData(n)
            BY <3>1, <2>2, <1>4, SportmonksPlan
        <3>3. /\ plan' \in Seq(Item) /\ plan' # <<>> /\ Head(plan') = "FIXTURES"
              /\ Ends(Tail(plan'), "DETAILS", Extras)
            BY <3>2, SportmonksPlan
        <3> QED
            BY <3>3, <2>2, <1>1, <1>2, <1>8 DEF Fits, FitsSportmonks
    <2>3. CASE "fixtures" \in saved /\ Ends(plan, "DETAILS", Extras)
        <3>1. Head(plan) \in Extras
            BY <2>3, <1>1, EndsFirst
        <3>2. plan' = Tail(plan)
            BY <3>1, <1>1, FollowsNothing DEF Extras
        <3>3. Ends(plan', "DETAILS", Extras)
            BY <3>1, <3>2, <2>3, EndsTail DEF Extras
        <3> QED
            BY <3>3, <2>3, <1>1, <1>8 DEF Fits, FitsSportmonks
    <2> QED
        BY <2>1, <2>2, <2>3, <1>1, <1>8, ShortPlan DEF Fits, FitsSportmonks
<1> QED
    BY <1>5, <1>6, <1>7, <1>8, Clients

\* Only the odds provider is asked for odds, and never may fail to.
LEMMA OddsOfOdds ==
    ASSUME Types, Fits, Head(plan) = "odds", plan # <<>>
    PROVE  Client = "the_odds_api" /\ ~Optional(Client, Head(plan)) /\ Price = Cost
<1>1. Client \in {"the_odds_api", "api_tennis", "api_football", "sportmonks"}
    BY Clients
<1>2. Client # "api_tennis"
    BY ShortPlan, EndsFirst DEF Fits, FitsTennis
<1>3. Client # "api_football"
    BY ShortPlan, EndsFirst DEF Fits, FitsApi, Needed
<1>4. Client # "sportmonks"
    BY ShortPlan, EndsFirst DEF Fits, FitsSportmonks, Extras
<1> QED
    BY <1>1, <1>2, <1>3, <1>4 DEF Optional, Price

\* One more target costs three attempts more.
LEMMA LostMore ==
    ASSUME NEW n \in Nat
    PROVE  /\ Lost(n) \in Nat /\ Lost(0) = 0
           /\ Lost(n + 1) = Lost(n) + Cost + Cost + Cost
<1>1. Cost \in Nat
    BY SyncAssumption
<1> DEFINE c == Attempts * Cost
<1>2. c \in Nat /\ c = Cost + Cost + Cost
    BY <1>1 DEF Attempts
<1> HIDE DEF c
<1>3. n * c \in Nat /\ 0 * c = 0 /\ (n + 1) * c = n * c + c
    BY <1>2
<1>4. Lost(n) = n * c /\ Lost(0) = 0 * c /\ Lost(n + 1) = (n + 1) * c
    BY DEF Lost, c
<1>5. n * c + c = n * c + Cost + Cost + Cost
    BY <1>1, <1>2, <1>3
<1> QED
    BY <1>3, <1>4, <1>5

\* An attempt begins with more credits than its predecessors may have left.
LEMMA Affordable ==
    ASSUME Types, Charged, Requesting, Head(plan) = "odds", NEW n \in silent
    PROVE  /\ attempt = 0 => quota > Floor - Lost(n)
           /\ attempt = 1 => quota > Floor - Lost(n) - Cost
           /\ attempt = 2 => quota > Floor - Lost(n) - (Cost + Cost)
           /\ attempt \in {0, 1, 2} /\ quota \in Int /\ Cost \in Nat /\ Floor \in Nat
           /\ n \in Nat /\ Lost(n) \in Nat
<1>1. attempt \in {0, 1, 2} /\ quota \in Nat /\ Cost \in Nat /\ Floor \in Nat /\ n \in Nat
    <2>1. attempt \in 0..2 /\ quota \in Nat /\ silent \in SUBSET Nat
        BY DEF Types
    <2>2. Cost \in Nat /\ Floor \in Nat
        BY SyncAssumption
    <2>3. n \in Nat
        BY <2>1
    <2> QED
        BY <2>1, <2>2, <2>3
<1>2. Lost(n) \in Nat /\ Lost(0) = 0
    BY <1>1, LostMore
<1>3. CASE attempt = 0 /\ n = 0
    BY <1>1, <1>2, <1>3 DEF Charged, Requesting, AtFloor
<1>4. CASE attempt = 0 /\ n # 0
    <2>1. quota > Floor - Lost(n) - 0 * Cost
        BY <1>4 DEF Charged
    <2> QED
        BY <1>1, <1>2, <1>4, <2>1
<1>5. CASE attempt = 1
    <2>1. quota > Floor - Lost(n) - 1 * Cost
        BY <1>5 DEF Charged
    <2> QED
        BY <1>1, <1>2, <1>5, <2>1
<1>6. CASE attempt = 2
    <2>1. quota > Floor - Lost(n) - 2 * Cost
        BY <1>6 DEF Charged
    <2> QED
        BY <1>1, <1>2, <1>6, <2>1
<1> QED
    BY <1>1, <1>2, <1>3, <1>4, <1>5, <1>6

\* What an attempt may be charged.
KeepsFloor == quota' < quota => \A n \in silent : quota' > Floor - (n + 1) * (Attempts * Cost)

\* An attempt that is charged its price, or not, leaves more than one more target may cost.
LEMMA Spent ==
    ASSUME Types, Fits, Charged, Requesting, Head(plan) = "odds",
           quota' = quota \/ quota' = quota - Price, NEW n \in silent
    PROVE  quota' > Floor - Lost(n + 1)
<1>1. quota \in Nat /\ Cost \in Nat /\ Floor \in Nat /\ plan # <<>> /\ n \in Nat
    BY SyncAssumption DEF Types, Requesting, IsRequest
<1>2. Price = Cost
    BY <1>1, OddsOfOdds
<1>3. quota > Floor - Lost(n) - (Cost + Cost) /\ Lost(n) \in Nat
    BY <1>1, Affordable
<1>4. Lost(n + 1) = Lost(n) + Cost + Cost + Cost
    BY <1>1, LostMore
<1> QED
    BY <1>1, <1>2, <1>3, <1>4

\* So the floor is kept as far as the client was told of it.
LEMMA AttemptCharged ==
    ASSUME Types, Fits, Charged, Requesting, quota' = quota \/ quota' = quota - Price
    PROVE  KeepsFloor
<1>1. CASE Head(plan) = "odds"
    BY <1>1, Spent DEF KeepsFloor, Lost
<1>2. CASE Head(plan) # "odds"
    BY <1>2 DEF Price, KeepsFloor, Types
<1> QED
    BY <1>1, <1>2

\* What the steps of a client keep.
Asking ==
    /\ Fits' /\ Charged' /\ KeepsFloor
    /\ plan' \in Seq(Item) /\ attempt' \in 0..2 /\ quota' \in Nat /\ silent' \in SUBSET Nat
    /\ saved' = saved

\* A plan that fits, and is not empty, is one of items.
LEMMA PlanTyped ==
    ASSUME Types, Fits', UNCHANGED <<inputs, at>>
    PROVE  plan' \in Seq(Item) /\ plan' # <<>>
<1>1. Client' = Client
    BY DEF Client, Current, inputs
<1>2. \A x \in Item : <<x>> \in Seq(Item) /\ <<x>> # <<>>
    BY ShortSeq
<1>3. <<"LEAGUES", "fixtures">> \in Seq(Item) /\ <<"LEAGUES", "fixtures">> # <<>>
    BY ShortSeq DEF Item, Commits
<1>4. {"sports", "matches", "fixtures", "leagues", "FIXTURES"} \subseteq Item
    BY DEF Item, Commits
<1>5. CASE Client = "the_odds_api"
    BY <1>1, <1>2, <1>4, <1>5, EndsParts DEF Fits, FitsOdds
<1>6. CASE Client = "api_tennis"
    BY <1>1, <1>2, <1>4, <1>6, EndsParts DEF Fits, FitsTennis
<1>7. CASE Client = "api_football"
    BY <1>1, <1>2, <1>4, <1>7, EndsParts DEF Fits, FitsApi
<1>8. CASE Client = "sportmonks"
    BY <1>1, <1>2, <1>3, <1>4, <1>8, EndsParts DEF Fits, FitsSportmonks
<1> QED
    BY <1>5, <1>6, <1>7, <1>8, Clients

\* The client is answered.
LEMMA AnsweredAsks ==
    ASSUME Types, Fits, Charged, Answered(Client), UNCHANGED <<inputs, at>>
    PROVE  Asking
<1>1. PICK n \in 0..(IF Head(plan) = "sports" THEN MaxTargets
                     ELSE IF Head(plan) = "fixtures" THEN MaxFixtures ELSE 0) :
            plan' = Follows(Client, n) \o Tail(plan)
    BY DEF Answered
<1>2. /\ Requesting /\ IsRequest /\ quota >= Price /\ quota' = quota - Price /\ attempt' = 0
      /\ known' \in Told(Client) /\ saved' = saved
      /\ silent' = (IF Client # "the_odds_api" THEN silent
                    ELSE IF known' # {} THEN {0} ELSE {k + 1 : k \in silent})
    BY DEF Answered, Requesting
<1>3. n \in Nat
    BY <1>1, SyncAssumption
<1>4. Fits'
    BY <1>1, <1>2, <1>3, AnswerFits
<1>5. plan' \in Seq(Item) /\ plan' # <<>>
    BY <1>4, PlanTyped
<1>6. Client' = Client
    BY DEF Client, Current, inputs
<1>7. Charged'
    <2>1. CASE Client = "the_odds_api"
        <3>1. CASE known' # {}
            BY <1>2, <2>1, <3>1 DEF Charged, Told
        <3>2. ASSUME known' = {}, NEW n1 \in silent'
              PROVE  n1 # 0 /\ quota' > Floor - Lost(n1) - attempt' * Cost
            <4>1. PICK k \in silent : n1 = k + 1
                BY <1>2, <2>1, <3>2
            <4>2. k \in Nat /\ Head(plan) = "odds" /\ plan # <<>>
                <5>1. silent # {} /\ silent \subseteq Nat
                    BY <4>1 DEF Types
                <5>2. Ends(plan, "ODDS", {"odds"})
                    BY <2>1, <5>1 DEF Fits, FitsOdds
                <5>3. Head(plan) = "odds"
                    BY <1>2, <5>2, EndsFirst DEF IsRequest, Commits
                <5> QED
                    BY <1>2, <4>1, <5>1, <5>3 DEF IsRequest
            <4>3. quota' > Floor - Lost(n1)
                BY <1>2, <4>1, <4>2, Spent
            <4>4. Floor \in Nat /\ Cost \in Nat
                BY SyncAssumption
            <4>5. n1 \in Nat /\ n1 # 0
                BY <4>1, <4>2
            <4>6. Lost(n1) \in Nat
                BY <4>5, LostMore
            <4>7. attempt' * Cost = 0
                <5>1. attempt' = 0
                    BY <1>2
                <5> QED
                    BY <4>4, <5>1
            <4>8. Floor - Lost(n1) - 0 = Floor - Lost(n1) /\ quota' \in Int
                BY <1>2, <4>4, <4>6, SyncAssumption DEF Types, Price
            <4> QED
                BY <4>3, <4>5, <4>7, <4>8
        <3> QED
            BY <3>1, <3>2 DEF Charged
    <2>2. CASE Client = "api_tennis"
        <3>1. Head(plan') # "odds"
            BY <1>4, <1>6, <2>2, ShortPlan, EndsFirst DEF Fits, FitsTennis
        <3> QED
            BY <3>1 DEF Charged
    <2>3. CASE Client = "api_football"
        <3>1. Head(plan') # "odds"
            BY <1>4, <1>6, <2>3, ShortPlan, EndsFirst DEF Fits, FitsApi, Needed
        <3> QED
            BY <3>1 DEF Charged
    <2>4. CASE Client = "sportmonks"
        <3>1. Head(plan') # "odds"
            BY <1>4, <1>6, <2>4, ShortPlan, EndsFirst DEF Fits, FitsSportmonks, Extras
        <3> QED
            BY <3>1 DEF Charged
    <2> QED
        BY <2>1, <2>2, <2>3, <2>4, Clients
<1>8. KeepsFloor
    BY <1>2, AttemptCharged
<1>9. quota' \in Nat
    BY <1>2, SyncAssumption DEF Types, Price
<1>10. silent' \in SUBSET Nat
    BY <1>2 DEF Types
<1> QED
    BY <1>2, <1>4, <1>5, <1>7, <1>8, <1>9, <1>10 DEF Asking

\* Nothing in a plan that is not asked again changes what it fits.
LEMMA SamePlan ==
    ASSUME Types, Fits, plan' = plan, silent' = silent, saved' = saved, UNCHANGED <<inputs, at>>
    PROVE  Fits'
<1>1. Client' = Client /\ Current' = Current
    BY DEF Client, Current, inputs
<1>2. Unsaved' = Unsaved
    BY <1>1 DEF Unsaved, Data
<1> QED
    BY <1>1, <1>2 DEF Fits, FitsOdds, FitsTennis, FitsApi, FitsSportmonks

\* What an attempt that is not answered is charged.
LEMMA UnansweredQuota ==
    ASSUME Types, NEW new, Unanswered(Client, new)
    PROVE  (quota' = quota \/ quota' = quota - Price) /\ quota' \in Nat
BY SyncAssumption DEF Types, Unanswered, Price

\* The client tries again.
LEMMA RetryAsks ==
    ASSUME Types, Fits, Charged, Retry(Client), UNCHANGED <<inputs, at>>
    PROVE  Asking
<1>1. PICK new \in Retried(Client) : Unanswered(Client, new)
    BY DEF Retry
<1>2. /\ Requesting /\ attempt < 2 /\ attempt' = attempt + 1 /\ plan' = plan /\ saved' = saved
      /\ silent' = silent
    BY DEF Retry, Attempts
<1>3. attempt \in {0, 1} /\ attempt' \in {1, 2} /\ plan \in Seq(Item) /\ plan # <<>>
    BY <1>2 DEF Types, Requesting, IsRequest
<1>4. (quota' = quota \/ quota' = quota - Price) /\ quota' \in Nat
    BY <1>1, UnansweredQuota
<1>5. KeepsFloor
    BY <1>2, <1>4, AttemptCharged
<1>6. Fits'
    BY <1>2, SamePlan
<1>7. ASSUME Head(plan) = "odds", NEW n \in silent
      PROVE  quota' > Floor - Lost(n) - attempt' * Cost
    <2>1. Price = Cost /\ Cost \in Nat /\ Floor \in Nat /\ quota \in Nat
        BY <1>3, <1>7, OddsOfOdds, SyncAssumption DEF Types
    <2>2. CASE attempt = 0
        <3>1. quota > Floor - Lost(n) /\ Lost(n) \in Nat
            BY <1>2, <1>7, <2>2, Affordable
        <3>2. attempt' = 1
            BY <1>2, <2>2
        <3> QED
            BY <3>1, <3>2, <2>1, <1>4
    <2>3. CASE attempt = 1
        <3>1. quota > Floor - Lost(n) - Cost /\ Lost(n) \in Nat
            BY <1>2, <1>7, <2>3, Affordable
        <3>2. attempt' = 2
            BY <1>2, <2>3
        <3> QED
            BY <3>1, <3>2, <2>1, <1>4
    <2> QED
        BY <2>2, <2>3, <1>3
<1>8. Charged'
    BY <1>2, <1>3, <1>7 DEF Charged, Lost
<1> QED
    BY <1>2, <1>3, <1>4, <1>5, <1>6, <1>8 DEF Asking, Types

\* The odds provider is not asked for more targets.
LEMMA FloorAsks ==
    ASSUME Types, Fits, Charged, StopAtFloor, UNCHANGED <<inputs, at>>
    PROVE  Asking
<1>1. /\ Head(plan) = "odds" /\ plan # <<>> /\ plan' = <<"ODDS">> /\ attempt' = attempt
      /\ quota' = quota /\ silent' = silent /\ saved' = saved
    BY DEF StopAtFloor, AtFloor, IsRequest, client, credits
<1>2. Client = "the_odds_api" /\ Client' = Client /\ Current' = Current
    BY <1>1, OddsOfOdds DEF Client, Current, inputs
<1>3. Unsaved'
    BY <1>1, <1>2 DEF Fits, FitsOdds, Unsaved, Data
<1>4. Ends(plan', "ODDS", {"odds"})
    BY <1>1, EndsOne DEF Item, Commits
<1>5. Fits'
    BY <1>2, <1>3, <1>4 DEF Fits, FitsOdds
<1>6. Charged'
    BY <1>1, ShortPlan DEF Charged
<1>7. plan' \in Seq(Item)
    BY <1>4, EndsParts
<1> QED
    BY <1>1, <1>5, <1>6, <1>7 DEF Asking, Types, KeepsFloor

\* The client gives up a request that is not needed.
LEMMA ToleratedAsks ==
    ASSUME Types, Fits, Charged, Tolerated(Client), UNCHANGED <<inputs, at>>
    PROVE  Asking
<1>1. PICK new \in Final(Client) \cup (IF attempt = Attempts - 1 THEN Retried(Client) ELSE {}) :
            Unanswered(Client, new)
    BY DEF Tolerated, GivesUp
<1>2. /\ Requesting /\ IsRequest /\ plan # <<>> /\ Optional(Client, Head(plan))
      /\ plan' = (IF Head(plan) = "statistics" /\ code' = "forbidden" THEN AfterStatistics
                  ELSE Tail(plan))
      /\ attempt' = 0 /\ saved' = saved /\ silent' = silent
    BY DEF Tolerated, GivesUp, Requesting, IsRequest
<1>3. Head(plan) # "odds"
    BY <1>2, OddsOfOdds
<1>4. quota' = quota /\ quota' \in Nat /\ KeepsFloor /\ silent' \in SUBSET Nat
    BY <1>1, <1>2, <1>3, UnansweredQuota DEF Price, KeepsFloor, Types
<1>5. Client' = Client /\ Current' = Current
    BY DEF Client, Current, inputs
<1>6. Head(plan) \in {"standings", "teams", "statistics", "lineups"}
    BY <1>2 DEF Optional
<1>7. Client # "the_odds_api"
    BY <1>6, <1>2, ShortPlan, EndsFirst DEF Fits, FitsOdds
<1>8. Client # "api_tennis"
    BY <1>6, <1>2, ShortPlan, EndsFirst DEF Fits, FitsTennis
<1>9. CASE Client = "api_football"
    <2>1. Unsaved /\ Unsaved'
        BY <1>2, <1>5, <1>9 DEF Fits, FitsApi, Unsaved, Data
    <2>2. Ends(plan, "FOOTBALL", Needed)
        BY <1>6, <1>9, ShortPlan DEF Fits, FitsApi
    <2>3. plan' = Tail(plan)
        BY <1>2, <1>9 DEF Optional
    <2>4. Ends(plan', "FOOTBALL", Needed)
        BY <1>6, <2>2, <2>3, EndsTail
    <2>5. Fits'
        BY <1>5, <1>9, <2>1, <2>4 DEF Fits, FitsApi
    <2>6. Head(plan') # "odds" /\ plan' \in Seq(Item)
        BY <2>4, EndsFirst, EndsParts DEF Needed
    <2>7. Charged'
        BY <2>6 DEF Charged
    <2> QED
        BY <1>2, <1>4, <2>5, <2>6, <2>7 DEF Asking
<1>10. CASE Client = "sportmonks"
    <2>1. "fixtures" \in saved /\ Ends(plan, "DETAILS", Extras)
        BY <1>6, <1>10, ShortPlan DEF Fits, FitsSportmonks
    <2>2. Ends(Tail(plan), "DETAILS", Extras)
        BY <1>6, <2>1, EndsTail
    <2>3. Ends(plan', "DETAILS", Extras)
        BY <1>2, <2>1, <2>2, StatisticsLeftOut
    <2>4. Fits'
        BY <1>2, <1>5, <1>10, <2>1, <2>3 DEF Fits, FitsSportmonks
    <2>5. Head(plan') # "odds" /\ plan' \in Seq(Item)
        BY <2>3, EndsFirst, EndsParts DEF Extras
    <2>6. Charged'
        BY <2>5 DEF Charged
    <2> QED
        BY <1>2, <1>4, <2>4, <2>5, <2>6 DEF Asking
<1> QED
    BY <1>7, <1>8, <1>9, <1>10, Clients

\* A client raises only before anything of its provider is committed.
LEMMA RefusedEarly ==
    ASSUME Types, Fits, Charged, Refused(Client)
    PROVE  Unsaved /\ KeepsFloor /\ quota' \in Nat /\ silent' = silent
<1>1. PICK new \in Final(Client) \cup (IF attempt = Attempts - 1 THEN Retried(Client) ELSE {}) :
            Unanswered(Client, new)
    BY DEF Refused, GivesUp
<1>2. /\ Requesting /\ Head(plan) \notin DOMAIN Commits /\ ~Optional(Client, Head(plan))
      /\ silent' = silent
    BY DEF Refused, GivesUp, Requesting, IsRequest
<1>3. ~Ends(plan, "DETAILS", Extras) \/ Client # "sportmonks"
    BY <1>2, EndsFirst DEF Extras, Optional, Commits
<1>4. Unsaved
    BY <1>3, Clients DEF Fits, FitsOdds, FitsTennis, FitsApi, FitsSportmonks
<1> QED
    BY <1>1, <1>2, <1>4, UnansweredQuota, AttemptCharged

\* A commit completes the data of the provider, or the plan goes on; it is none of another
\* provider's.
LEMMA CommitFits ==
    ASSUME Types, Fits, Commit, UNCHANGED <<inputs, at>>
    PROVE  /\ plan' \in Seq(Item)
           /\ plan' = <<>> => Data[Current] \subseteq saved'
           /\ plan' # <<>> => Fits' /\ Charged'
           /\ \A p \in Provider \ {Current} : Data[p] \cap saved' = Data[p] \cap saved
           /\ saved \subseteq saved'
<1>1. /\ plan # <<>> /\ Head(plan) \in DOMAIN Commits /\ plan' = Tail(plan)
      /\ saved' = saved \cup Commits[Head(plan)]
      /\ Head(plan) \in {"LEAGUES", "FIXTURES", "DETAILS", "FOOTBALL", "ODDS", "TENNIS"}
    BY DEF Commit, IsRequest, Commits
<1>2. Client' = Client /\ Current' = Current /\ plan' \in Seq(Item) /\ saved \subseteq saved'
    BY <1>1, HeadTailProperties DEF Client, Current, inputs, Types
<1>3. CASE Client = "the_odds_api"
    <2>1. Current = "odds"
        BY <1>3, Clients
    <2>2. Ends(plan, "ODDS", {"odds"})
        BY <1>1, <1>3, ShortPlan DEF Fits, FitsOdds
    <2>3. Head(plan) = "ODDS" /\ plan' = <<>>
        <3>1. Head(plan) = "ODDS"
            BY <1>1, <2>2, EndsFirst
        <3>2. "ODDS" \notin {"odds"}
            OBVIOUS
        <3> QED
            BY <1>1, <2>2, <3>1, <3>2, EndsLast
    <2>4. saved' = saved \cup {"odds"}
        BY <1>1, <2>3 DEF Commits
    <2> QED
        BY <1>2, <2>1, <2>3, <2>4 DEF Data, Provider
<1>4. CASE Client = "api_tennis"
    <2>1. Current = "tennis"
        BY <1>4, Clients
    <2>2. Ends(plan, "TENNIS", {"rankings"})
        BY <1>1, <1>4, ShortPlan DEF Fits, FitsTennis
    <2>3. Head(plan) = "TENNIS" /\ plan' = <<>>
        <3>1. Head(plan) = "TENNIS"
            BY <1>1, <2>2, EndsFirst
        <3>2. "TENNIS" \notin {"rankings"}
            OBVIOUS
        <3> QED
            BY <1>1, <2>2, <3>1, <3>2, EndsLast
    <2>4. saved' = saved \cup {"tennis"}
        BY <1>1, <2>3 DEF Commits
    <2> QED
        BY <1>2, <2>1, <2>3, <2>4 DEF Data, Provider
<1>5. CASE Client = "api_football"
    <2>1. Current = "football"
        BY <1>5, Clients
    <2>2. Ends(plan, "FOOTBALL", Needed)
        BY <1>1, <1>5, ShortPlan DEF Fits, FitsApi
    <2>3. Head(plan) = "FOOTBALL" /\ plan' = <<>>
        <3>1. Head(plan) = "FOOTBALL"
            BY <1>1, <2>2, EndsFirst DEF Needed
        <3>2. "FOOTBALL" \notin Needed
            BY DEF Needed
        <3> QED
            BY <1>1, <2>2, <3>1, <3>2, EndsLast
    <2>4. saved' = saved \cup {"fixtures", "details"}
        BY <1>1, <2>3 DEF Commits
    <2> QED
        BY <1>2, <2>1, <2>3, <2>4 DEF Data, Provider
<1>6. CASE Client = "sportmonks"
    <2>1. Current = "football" /\ Data[Current] = {"fixtures", "details"}
        BY <1>6, Clients DEF Data
    <2>2. CASE Unsaved /\ plan = <<"LEAGUES", "fixtures">>
        <3>1. plan' = <<"fixtures">> /\ plan' # <<>> /\ Head(plan') = "fixtures"
            BY <1>1, <2>2, ShortPlan
        <3>2. saved' = saved \cup {"leagues"}
            BY <1>1, <2>2, ShortPlan DEF Commits
        <3>3. Unsaved'
            BY <1>2, <2>1, <2>2, <3>2 DEF Unsaved, Data
        <3>4. Fits'
            BY <1>2, <1>6, <3>1, <3>3 DEF Fits, FitsSportmonks
        <3> QED
            BY <1>2, <2>1, <3>1, <3>2, <3>4 DEF Data, Provider, Charged
    <2>3. CASE Head(plan) = "FIXTURES" /\ Ends(Tail(plan), "DETAILS", Extras)
        <3>1. Ends(plan', "DETAILS", Extras) /\ plan' # <<>> /\ Head(plan') # "odds"
            <4>1. Ends(plan', "DETAILS", Extras)
                BY <1>1, <2>3
            <4>2. Head(plan') \in Extras \cup {"DETAILS"} /\ plan' # <<>>
                BY <4>1, EndsParts, EndsFirst
            <4> QED
                BY <4>1, <4>2 DEF Extras
        <3>2. saved' = saved \cup {"fixtures"}
            BY <1>1, <2>3 DEF Commits
        <3>3. Fits'
            BY <1>2, <1>6, <3>1, <3>2 DEF Fits, FitsSportmonks
        <3> QED
            BY <1>2, <2>1, <3>1, <3>2, <3>3 DEF Data, Provider, Charged
    <2>4. CASE "fixtures" \in saved /\ Ends(plan, "DETAILS", Extras)
        <3>1. Head(plan) = "DETAILS" /\ plan' = <<>>
            <4>1. Head(plan) = "DETAILS"
                BY <1>1, <2>4, EndsFirst DEF Extras
            <4>2. "DETAILS" \notin Extras
                BY DEF Extras
            <4> QED
                BY <1>1, <2>4, <4>1, <4>2, EndsLast
        <3>2. saved' = saved \cup {"details"}
            BY <1>1, <3>1 DEF Commits
        <3> QED
            BY <1>2, <2>1, <2>4, <3>1, <3>2 DEF Data, Provider
    <2> QED
        BY <2>2, <2>3, <2>4, <1>1, <1>6, ShortPlan DEF Fits, FitsSportmonks
<1> QED
    BY <1>3, <1>4, <1>5, <1>6, Clients

\* The requests of a sync.
LEMMA FetchAsks ==
    ASSUME Types, Requests, Fetch
    PROVE  Asking
<1>1. Fits /\ Charged /\ UNCHANGED <<inputs, at>>
    BY DEF Fetch, Requests
<1>2. Answered(Client) \/ Retry(Client) \/ Tolerated(Client) \/ StopAtFloor
    BY DEF Fetch
<1> QED
    BY <1>1, <1>2, AnsweredAsks, RetryAsks, ToleratedAsks, FloorAsks

---------------------------------------------------------------------------
(* The providers *)

\* Places in the order of the syncs.
LEMMA Turns ==
    ASSUME Types
    PROVE  /\ Current \in Provider /\ Place[Current] = at
           /\ \A p \in Provider : Place[p] \in 1..3 /\ (Place[p] = at <=> p = Current)
           /\ Provider \subseteq Step
<1>1. \A p \in Provider : p = "odds" \/ p = "football" \/ p = "tennis"
    BY DEF Provider
<1>2. Place["odds"] = 1 /\ Place["football"] = 2 /\ Place["tennis"] = 3
    BY DEF Place
<1> QED
    BY <1>1, <1>2, Clients DEF Types, Provider, Step

\* What setting a step sets.
LEMMA StepSet ==
    ASSUME Types, NEW s \in Step, NEW x \in {"RUNNING"} \cup Closed, SetStep(s, x)
    PROVE  /\ step' \in [Step -> {"QUEUED", "RUNNING"} \cup Closed]
           /\ step'[s] = x
           /\ \A r \in Step \ {s} : step'[r] = step[r]
BY DEF Types, SetStep

\* What setting a status sets.
LEMMA StatusSet ==
    ASSUME Types, NEW p \in Provider, NEW x \in Shown, provider' = [provider EXCEPT ![p] = x]
    PROVE  /\ provider' \in [Provider -> Shown]
           /\ provider'[p] = x
           /\ \A q \in Provider \ {p} : provider'[q] = provider[q]
BY DEF Types

\* Where the loop over the syncs is.
Looping == pc \in {"enter", "unconfigured"} \cup Within

LEMMA PastInLoop ==
    ASSUME Types, Looping
    PROVE  /\ \A p \in Provider : Past(p) <=> Place[p] < at
           /\ ~Past(Current) /\ pc # "stopped"
BY Turns DEF Looping, Within, After, Past, Types

Shared == Syncs /\ FailureShown /\ RefusalsCostNothing

\* A step of a sync changes nothing of the other providers.
LEMMA SyncMoves ==
    ASSUME Types, Shared, Looping, pc' \in {"unconfigured"} \cup Within,
           UNCHANGED <<inputs, at, boot, errors>>,
           broken \subseteq broken', saved \subseteq saved',
           \A p \in Provider \ {Current} : /\ step'[p] = step[p] /\ provider'[p] = provider[p]
                                          /\ Data[p] \cap saved' = Data[p] \cap saved,
           step'[Current] \in {"QUEUED", "RUNNING"},
           pc' = "unconfigured" => Data[Current] \cap saved' = {},
           Working'
    PROVE  Shared'
<1>1. Current' = Current /\ Scope(job)' = Scope(job) /\ configured' = configured
    BY DEF Current, inputs, Scope
<1>2. \A p \in Provider : (Past(p)' <=> Place[p] < at) /\ (Past(p) <=> Place[p] < at)
    BY PastInLoop DEF Past, Within, After, Place
<1>3. pc' # "stopped" /\ pc # "stopped" /\ pc' # "enter"
    BY PastInLoop DEF Within
<1>4. ASSUME NEW p \in Provider
      PROVE  Synced(p)'
    <2>1. Synced(p)
        BY <1>3 DEF Shared, Syncs
    <2>2. CASE p = Current
        <3>1. ~Past(p)'
            BY <1>2, <2>2, PastInLoop
        <3> QED
            BY <3>1, <1>1, <1>3, <2>2 DEF Synced, Untouched, Data
    <2>3. CASE p # Current
        <3>1. Past(p)' <=> Past(p)
            BY <1>2
        <3>2. Untouched(p) => Untouched(p)'
            BY <2>3 DEF Untouched
        <3>3. Data[p] \cap saved = {} => Data[p]' \cap saved' = {}
            BY <2>3 DEF Data
        <3>4. Clean(p) => Clean(p)'
            BY <2>3, <1>1 DEF Clean, Delivering, Data
        <3> QED
            BY <2>1, <2>3, <3>1, <3>2, <3>3, <3>4 DEF Synced
    <2> QED
        BY <2>2, <2>3
<1>5. FailureShown'
    BY DEF Shared, FailureShown
<1>6. RefusalsCostNothing'
    BY DEF Shared, RefusalsCostNothing, Data
<1> QED
    BY <1>3, <1>4, <1>5, <1>6 DEF Shared, Syncs

\* The loop goes on to the next provider, or ends.
LEMMA SyncEnds ==
    ASSUME Types, Shared, Looping, NextSync,
           UNCHANGED <<inputs, provider, boot, broken, saved>>,
           errors \subseteq errors',
           \A p \in Provider \ {Current} : step'[p] = step[p],
           \A p \in Provider : p = Current => p \in errors' \/ Clean(p)',
           step'[Current] = "FAILED" => provider[Current] \notin {"ONLINE", "EMPTY"},
           step'[Current] = "FAILED" /\ Current \notin broken => Unsaved
    PROVE  Shared'
<1>1. Scope(job)' = Scope(job) /\ configured' = configured
    BY DEF inputs, Scope
<1>2. \A p \in Provider : Past(p) <=> Place[p] < at
    BY PastInLoop
<1>3. \A p \in Provider : Past(p)' <=> Place[p] <= at
    BY Turns DEF Types, NextSync, Past, After, Place
<1>4. pc' \in {"enter", "settle"} /\ pc # "stopped"
    BY PastInLoop DEF NextSync
<1>5. ASSUME NEW p \in Provider
      PROVE  Synced(p)'
    <2>1. Synced(p) /\ Place[p] \in Nat /\ at \in Nat /\ (Place[p] = at <=> p = Current)
        BY <1>4, Turns DEF Shared, Syncs, Types
    <2>2. CASE p = Current
        BY <2>1, <2>2, <1>3 DEF Synced
    <2>3. CASE p # Current
        <3>1. Past(p)' <=> Past(p)
            BY <1>2, <1>3, <2>1, <2>3
        <3>2. Untouched(p) => Untouched(p)'
            BY <2>3 DEF Untouched
        <3>3. Data[p] \cap saved = {} => Data[p]' \cap saved' = {}
            BY <2>3 DEF Data
        <3>4. Clean(p) => Clean(p)'
            BY <2>3, <1>1 DEF Clean, Delivering, Data
        <3> QED
            BY <2>1, <2>3, <3>1, <3>2, <3>3, <3>4 DEF Synced
    <2> QED
        BY <2>2, <2>3
<1>6. Working'
    BY <1>4 DEF Working, Within
<1>7. FailureShown'
    BY DEF Shared, FailureShown
<1>8. RefusalsCostNothing'
    BY DEF Shared, RefusalsCostNothing, Unsaved, Data
<1> QED
    BY <1>5, <1>6, <1>7, <1>8 DEF Shared, Syncs

\* After the loop nothing is changed of any provider.
LEMMA SyncsOver ==
    ASSUME Types, Shared, pc \in After, pc' \in After,
           UNCHANGED <<inputs, provider, boot, broken, saved, at>>,
           errors \subseteq errors',
           \A p \in Provider : step'[p] = step[p]
    PROVE  Shared'
<1>1. Scope(job)' = Scope(job) /\ configured' = configured /\ Current' = Current
    BY DEF inputs, Scope, Current
<1>2. pc # "stopped"
    BY DEF After
<1>3. ASSUME NEW p \in Provider
      PROVE  Synced(p)'
    <2>1. Synced(p) /\ Past(p) /\ Past(p)'
        BY <1>2 DEF Shared, Syncs, Past
    <2>2. Clean(p) => Clean(p)'
        BY <1>1 DEF Clean, Delivering, Data
    <2> QED
        BY <2>1, <2>2 DEF Synced
<1>4. Working'
    BY DEF Working, After, Within
<1>5. FailureShown'
    BY DEF Shared, FailureShown
<1>6. RefusalsCostNothing'
    BY DEF Shared, RefusalsCostNothing, Data
<1> QED
    BY <1>3, <1>4, <1>5, <1>6 DEF Shared, Syncs

---------------------------------------------------------------------------
(* Types *)

\* The status a failed sync leaves.
LEMMA DegradedShown == Degraded \in Shown \ {"ONLINE", "EMPTY"}
BY DEF Degraded, Shown

\* A sync is started, and its plan fits.
LEMMA BeginFits ==
    ASSUME Types, Syncs, pc = "enter", BeginRequests(Client), UNCHANGED <<inputs, at>>
    PROVE  /\ Fits' /\ Charged' /\ plan' \in Seq(Item) /\ attempt' \in 0..2
           /\ quota' = quota /\ saved' = saved /\ silent' \in SUBSET Nat
<1>1. /\ plan' = Start(Client) /\ attempt' = 0 /\ quota' = quota /\ saved' = saved
      /\ silent' = {}
      /\ Client' = Client /\ Current' = Current
    BY DEF BeginRequests, Client, Current, inputs
<1>2. Unsaved'
    <2>1. Synced(Current) /\ ~Past(Current)
        BY Turns DEF Syncs, Past, After, Types
    <2> QED
        BY <1>1, <2>1 DEF Synced, Unsaved, Data
<1>3. CASE Client = "the_odds_api"
    <2>1. plan' = <<"sports">>
        BY <1>1, <1>3 DEF Start
    <2>2. plan' \in Seq(Item) /\ Head(plan') # "odds"
        BY <2>1, ShortPlan, ShortSeq DEF Item
    <2>3. Fits'
        BY <1>1, <1>2, <1>3, <2>1 DEF Fits, FitsOdds
    <2> QED
        BY <1>1, <2>2, <2>3 DEF Charged
<1>4. CASE Client = "api_tennis"
    <2>1. plan' = <<"matches">>
        BY <1>1, <1>4 DEF Start
    <2>2. plan' \in Seq(Item) /\ Head(plan') # "odds"
        BY <2>1, ShortPlan, ShortSeq DEF Item
    <2>3. Fits'
        BY <1>1, <1>2, <1>4, <2>1 DEF Fits, FitsTennis
    <2> QED
        BY <1>1, <2>2, <2>3 DEF Charged
<1>5. CASE Client = "api_football"
    <2>1. plan' = <<"fixtures">>
        BY <1>1, <1>5 DEF Start
    <2>2. plan' \in Seq(Item) /\ Head(plan') # "odds"
        BY <2>1, ShortPlan, ShortSeq DEF Item
    <2>3. Fits'
        BY <1>1, <1>2, <1>5, <2>1 DEF Fits, FitsApi
    <2> QED
        BY <1>1, <2>2, <2>3 DEF Charged
<1>6. CASE Client = "sportmonks"
    <2>1. plan' = <<"leagues">>
        BY <1>1, <1>6 DEF Start
    <2>2. plan' \in Seq(Item) /\ Head(plan') # "odds"
        BY <2>1, ShortPlan, ShortSeq DEF Item
    <2>3. Fits'
        BY <1>1, <1>2, <1>6, <2>1 DEF Fits, FitsSportmonks
    <2> QED
        BY <1>1, <2>2, <2>3 DEF Charged
<1> QED
    BY <1>3, <1>4, <1>5, <1>6, Clients

\* The steps named in the actions.
LEMMA StepNames ==
    ASSUME Types
    PROVE  /\ Current \in Step /\ Reporting \cup {"SETTLEMENT", "PERSIST_OUTPUT"} \subseteq Step
           /\ Provider \cap Reporting = {} /\ Provider \cap {"SETTLEMENT", "PERSIST_OUTPUT"} = {}
           /\ Reporting \cap {"SETTLEMENT", "PERSIST_OUTPUT"} = {}
BY Turns DEF Step, Reporting, Provider

\* Where the loop goes on.
LEMMA NextSyncTyped ==
    ASSUME Types, NextSync
    PROVE  at' \in 1..3 /\ pc' \in {"enter", "settle"}
BY DEF Types, NextSync

\* What the plan of requests and its counters are after a step.
Asked == plan' \in Seq(Item) /\ attempt' \in 0..2 /\ quota' \in Nat /\ silent' \in SUBSET Nat

\* Every step keeps the types.
LEMMA TypesStep ==
    ASSUME Types, Requests, Syncs, [Next]_vars
    PROVE  Types'
<1> USE DEF inputs, statuses, syncing, syncVars, client, credits, output, Closed
<1>1. CASE SkipProvider
    <2>1. SetStep(Current, "SKIPPED") /\ NextSync
        BY <1>1 DEF SkipProvider
    <2> QED
        BY <1>1, <2>1, StepSet, StepNames, NextSyncTyped DEF SkipProvider, Types, After
<1>2. CASE NotConfigured
    <2>1. provider' \in [Provider -> Shown]
        BY <1>2, Turns, StatusSet DEF NotConfigured, Shown
    <2> QED
        BY <1>2, <2>1 DEF NotConfigured, Types
<1>3. CASE SkipUnconfigured
    <2>1. SetStep(Current, "SKIPPED") /\ NextSync
        BY <1>3 DEF SkipUnconfigured
    <2> QED
        BY <1>3, <2>1, StepSet, StepNames, NextSyncTyped DEF SkipUnconfigured, Types, After
<1>4. CASE BeginSync
    <2>1. SetStep(Current, "RUNNING") /\ Asked
        BY <1>4, BeginFits DEF BeginSync, Asked, Types
    <2> QED
        BY <1>4, <2>1, StepSet, StepNames DEF BeginSync, Asked, Types, Within
<1>5. CASE Fetch
    <2>1. Asked
        BY <1>5, FetchAsks DEF Asking, Asked
    <2> QED
        BY <1>5, <2>1 DEF Fetch, Asked, Types
<1>6. CASE RequestFails
    <2>1. quota' \in Nat /\ silent' = silent
        BY <1>6, RefusedEarly DEF RequestFails, Requests
    <2>2. plan' = <<>> /\ attempt' = attempt
        BY <1>6 DEF RequestFails, Refused
    <2> QED
        BY <1>6, <2>1, <2>2, EmptySeq DEF RequestFails, Types, Within
<1>7. CASE SaveData
    <2>1. plan' \in Seq(Item) /\ attempt' = attempt /\ quota' = quota /\ silent' = silent
        BY <1>7, CommitFits DEF SaveData, Requests, Commit
    <2> QED
        BY <1>7, <2>1 DEF SaveData, Types, Within
<1>8. CASE ReportOnline
    <2>1. provider' \in [Provider -> Shown]
        BY <1>8, Turns, StatusSet DEF ReportOnline, Shown
    <2> QED
        BY <1>8, <2>1 DEF ReportOnline, Types, Within
<1>9. CASE Audit
    BY <1>9 DEF Audit, Types, Within
<1>10. CASE CompleteSync
    <2>1. SetStep(Current, "COMPLETED") /\ NextSync
        BY <1>10 DEF CompleteSync
    <2> QED
        BY <1>10, <2>1, StepSet, StepNames, NextSyncTyped DEF CompleteSync, Types, After
<1>11. CASE ReportDegraded
    <2>1. provider' \in [Provider -> Shown]
        BY <1>11, Turns, StatusSet, DegradedShown DEF ReportDegraded
    <2> QED
        BY <1>11, <2>1 DEF ReportDegraded, Types, Within
<1>12. CASE FailSync
    <2>1. SetStep(Current, "FAILED") /\ NextSync
        BY <1>12 DEF FailSync
    <2> QED
        BY <1>12, <2>1, StepSet, StepNames, NextSyncTyped DEF FailSync, Types, After
<1>13. CASE BeginSettlement
    BY <1>13, StepSet, StepNames DEF BeginSettlement, Types, After
<1>14. CASE EndSettlement
    BY <1>14, StepSet, StepNames DEF EndSettlement, Types, After
<1>15. CASE SkipInference
    BY <1>15 DEF SkipInference, Types, After
<1>16. CASE Infer
    BY <1>16 DEF Infer, Types, After
<1>17. CASE StorePredictions
    BY <1>17 DEF StorePredictions, Types, After
<1>18. ASSUME NEW s \in Step, ReportStep(s)
       PROVE  Types'
    <2>1. \E x \in {"RUNNING"} \cup Closed : SetStep(s, x)
        BY <1>18 DEF ReportStep
    <2>2. step' \in [Step -> {"QUEUED", "RUNNING"} \cup Closed]
        BY <2>1, StepSet
    <2> QED
        BY <1>18, <2>2 DEF ReportStep, Types
<1>19. CASE PersistOutput
    BY <1>19, StepSet, StepNames DEF PersistOutput, Types, After
<1>20. CASE Finish
    BY <1>20 DEF Finish, Types, After
<1>21. CASE SyncFails
    BY <1>21, EmptySeq DEF SyncFails, Abandon, Types, Within
<1>22. CASE SyncEscapes
    BY <1>22, NextSyncTyped DEF SyncEscapes, Types, After
<1>23. CASE SettlementFails
    BY <1>23, StepSet, StepNames DEF SettlementFails, Types, After
<1>24. CASE InferenceFails
    BY <1>24 DEF InferenceFails, Types, After
<1>25. CASE Stop
    BY <1>25 DEF Stop, Types
<1>26. CASE Recover
    BY <1>26 DEF Recover, Types
<1>27. CASE WriteStatus
    <2>1. provider' \in [Provider -> Shown]
        BY <1>27, StatusSet DEF WriteStatus, Shown
    <2> QED
        BY <1>27, <2>1 DEF WriteStatus, Types
<1>28. ASSUME NEW p \in Provider, ReadStatus(p)
       PROVE  Types'
    BY <1>28 DEF ReadStatus, Types
<1>29. CASE UNCHANGED vars
    BY <1>29 DEF vars, Types
<1> QED
    BY <1>1, <1>2, <1>3, <1>4, <1>5, <1>6, <1>7, <1>8, <1>9, <1>10, <1>11, <1>12, <1>13, <1>14,
       <1>15, <1>16, <1>17, <1>18, <1>19, <1>20, <1>21, <1>22, <1>23, <1>24, <1>25, <1>26, <1>27,
       <1>28, <1>29 DEF Next, Pipeline, Failure

---------------------------------------------------------------------------
(* What is known of the providers *)

\* The premises of SyncMoves for a step that changes neither steps nor data.
LEMMA SameData ==
    ASSUME Types, Looping, UNCHANGED <<step, saved>>, Syncs
    PROVE  /\ saved \subseteq saved' /\ step'[Current] \in {"QUEUED", "RUNNING"}
           /\ \A p \in Provider : step'[p] = step[p] /\ Data[p] \cap saved' = Data[p] \cap saved
BY Turns, PastInLoop DEF Syncs, Synced, Untouched

\* What is known while a provider's sync runs, one step later.
LEMMA WorkingStep ==
    ASSUME Types, Syncs, Looping, UNCHANGED <<inputs, at, boot>>, saved \subseteq saved',
           broken \subseteq broken',
           pc' \in Within => Current \in Scope(job) \cap configured,
           pc' = "unconfigured" => Current \notin configured,
           pc' \in {"saved", "online", "audited"} => Data[Current] \subseteq saved',
           pc' \in {"online", "audited"} =>
                provider'[Current] \in {"ONLINE", "EMPTY"} \cup
                                       (IF boot = "done" THEN {"OFFLINE"} ELSE {}),
           pc' = "degraded" => provider'[Current] \notin {"ONLINE", "EMPTY"},
           pc' \in {"failing", "degraded"} /\ Current \notin broken'
                => Data[Current] \cap saved' = {}
    PROVE  Working'
<1>1. Current' = Current /\ Scope(job)' = Scope(job) /\ configured' = configured /\ boot' = boot
    BY DEF Current, inputs, Scope
<1> QED
    BY <1>1 DEF Working, Delivering, Unsaved, Data

\* The steps of a sync that do not end it.
LEMMA SharedInSync ==
    ASSUME Types, Requests, Shared,
           \/ NotConfigured \/ BeginSync \/ Fetch \/ RequestFails \/ SaveData
           \/ ReportOnline \/ Audit \/ SyncFails \/ ReportDegraded
    PROVE  Shared'
<1> USE DEF inputs, statuses, output
<1>1. Syncs
    BY DEF Shared
<1>2. CASE NotConfigured
    <2>1. Looping /\ pc' = "unconfigured" /\ pc' \notin Within
        BY <1>2 DEF NotConfigured, Looping, Within
    <2>2. \A p \in Provider \ {Current} : provider'[p] = provider[p]
        BY <1>2, Turns, StatusSet DEF NotConfigured, Shown
    <2>3. UNCHANGED <<inputs, at, boot, errors, broken, saved, step>>
        BY <1>2 DEF NotConfigured, syncing, syncVars
    <2>4. Data[Current] \cap saved' = {}
        <3>1. Synced(Current) /\ ~Past(Current)
            BY <1>1, <2>1, Turns, PastInLoop DEF Syncs
        <3> QED
            BY <1>2, <2>3, <3>1 DEF Synced, NotConfigured
    <2>5. Current \notin configured
        BY <1>2 DEF NotConfigured
    <2>6. Working'
        BY <1>1, <2>1, <2>3, <2>5, WorkingStep
    <2> QED
        BY <1>1, <2>1, <2>2, <2>3, <2>4, <2>6, SameData, SyncMoves
<1>3. CASE BeginSync
    <2>1. Looping /\ pc' = "fetching" /\ pc' \in Within
        BY <1>3 DEF BeginSync, Looping, Within
    <2>2. UNCHANGED <<inputs, at, boot, errors, broken, saved, provider>>
        BY <1>3 DEF BeginSync, BeginRequests
    <2>3. step'[Current] = "RUNNING" /\ \A p \in Provider \ {Current} : step'[p] = step[p]
        BY <1>3, StepSet, StepNames, Turns DEF BeginSync
    <2>4. Current \in Scope(job) \cap configured
        BY <1>3 DEF BeginSync
    <2>5. Working'
        BY <1>1, <2>1, <2>2, <2>4, WorkingStep
    <2> QED
        BY <2>1, <2>2, <2>3, <2>5, SyncMoves
<1>4. CASE Fetch
    <2>1. Looping /\ pc' = "fetching" /\ pc = "fetching" /\ pc \in Within
        BY <1>4 DEF Fetch, Looping, Within
    <2>2. UNCHANGED <<inputs, at, boot, errors, broken, saved, provider, step>>
        BY <1>4, FetchAsks DEF Fetch, Asking
    <2>3. Current \in Scope(job) \cap configured
        BY <1>1, <2>1 DEF Syncs, Working
    <2>4. Working'
        BY <1>1, <2>1, <2>2, <2>3, WorkingStep
    <2> QED
        BY <1>1, <2>1, <2>2, <2>4, SameData, SyncMoves
<1>5. CASE RequestFails
    <2>1. Looping /\ pc' = "failing" /\ pc = "fetching" /\ {pc, pc'} \subseteq Within
        BY <1>5 DEF RequestFails, Looping, Within
    <2>2. UNCHANGED <<inputs, at, boot, errors, broken, saved, provider, step>>
        BY <1>5 DEF RequestFails, Refused
    <2>3. Data[Current] \cap saved' = {}
        BY <1>5, <2>2, RefusedEarly DEF RequestFails, Requests, Unsaved
    <2>4. Current \in Scope(job) \cap configured
        BY <1>1, <2>1 DEF Syncs, Working
    <2>5. Working'
        BY <1>1, <2>1, <2>2, <2>3, <2>4, WorkingStep
    <2> QED
        BY <1>1, <2>1, <2>2, <2>5, SameData, SyncMoves
<1>6. CASE SaveData
    <2>1. /\ Looping /\ pc = "fetching" /\ {pc, pc'} \subseteq Within
          /\ pc' = (IF plan' = <<>> THEN "saved" ELSE "fetching")
        BY <1>6 DEF SaveData, Looping, Within
    <2>2. UNCHANGED <<inputs, at, boot, errors, broken, provider, step>>
        BY <1>6 DEF SaveData
    <2>3. /\ plan' = <<>> => Data[Current] \subseteq saved'
          /\ \A p \in Provider \ {Current} : Data[p] \cap saved' = Data[p] \cap saved
          /\ saved \subseteq saved'
        BY <1>6, <2>2, CommitFits DEF SaveData, Requests
    <2>4. Current \in Scope(job) \cap configured
        BY <1>1, <2>1 DEF Syncs, Working
    <2>5. step'[Current] \in {"QUEUED", "RUNNING"}
        BY <1>1, <2>1, <2>2, Turns, PastInLoop DEF Syncs, Synced, Untouched
    <2>6. Working'
        BY <1>1, <2>1, <2>2, <2>3, <2>4, WorkingStep
    <2> QED
        BY <2>1, <2>2, <2>3, <2>5, <2>6, SyncMoves
<1>7. CASE ReportOnline
    <2>1. Looping /\ pc' = "online" /\ pc = "saved" /\ {pc, pc'} \subseteq Within
        BY <1>7 DEF ReportOnline, Looping, Within
    <2>2. UNCHANGED <<inputs, at, boot, errors, broken, saved, step>>
        BY <1>7 DEF ReportOnline, syncing, syncVars
    <2>3. /\ provider'[Current] \in {"ONLINE", "EMPTY"}
          /\ \A p \in Provider \ {Current} : provider'[p] = provider[p]
        <3>1. \E x \in {"ONLINE", "EMPTY"} : provider' = [provider EXCEPT ![Current] = x]
            BY <1>7 DEF ReportOnline
        <3>2. {"ONLINE", "EMPTY"} \subseteq Shown
            BY DEF Shown
        <3> QED
            BY <3>1, <3>2, Turns, StatusSet
    <2>4. Current \in Scope(job) \cap configured /\ Data[Current] \subseteq saved
        BY <1>1, <2>1 DEF Syncs, Working
    <2>5. Working'
        BY <1>1, <2>1, <2>2, <2>3, <2>4, WorkingStep
    <2> QED
        BY <1>1, <2>1, <2>2, <2>3, <2>5, SameData, SyncMoves
<1>8. CASE Audit
    <2>1. Looping /\ pc' = "audited" /\ pc = "online" /\ {pc, pc'} \subseteq Within
        BY <1>8 DEF Audit, Looping, Within
    <2>2. UNCHANGED <<inputs, at, boot, errors, broken, saved, step, provider>>
        BY <1>8 DEF Audit, syncing, syncVars
    <2>3. /\ Current \in Scope(job) \cap configured /\ Data[Current] \subseteq saved
          /\ Delivering(Current)
        BY <1>1, <2>1 DEF Syncs, Working
    <2>4. Working'
        BY <1>1, <2>1, <2>2, <2>3, WorkingStep DEF Delivering
    <2> QED
        BY <1>1, <2>1, <2>2, <2>4, SameData, SyncMoves
<1>9. CASE SyncFails
    <2>1. Looping /\ pc' = "failing" /\ {pc, pc'} \subseteq Within /\ pc # "stopped"
        BY <1>9 DEF SyncFails, Looping, Within
    <2>2. UNCHANGED <<inputs, at, boot, errors, saved, step, provider>>
          /\ broken' = broken \cup {Current}
        BY <1>9 DEF SyncFails, Abandon
    <2>3. Current \in Scope(job) \cap configured
        BY <1>1, <2>1 DEF Syncs, Working
    <2>4. Working'
        BY <1>1, <2>1, <2>2, <2>3, WorkingStep
    <2> QED
        BY <1>1, <2>1, <2>2, <2>4, SameData, SyncMoves
<1>10. CASE ReportDegraded
    <2>1. Looping /\ pc' = "degraded" /\ pc = "failing" /\ {pc, pc'} \subseteq Within
        BY <1>10 DEF ReportDegraded, Looping, Within
    <2>2. UNCHANGED <<inputs, at, boot, errors, broken, saved, step>>
        BY <1>10 DEF ReportDegraded, syncing, syncVars
    <2>3. /\ provider'[Current] \notin {"ONLINE", "EMPTY"}
          /\ \A p \in Provider \ {Current} : provider'[p] = provider[p]
        BY <1>10, Turns, StatusSet, DegradedShown DEF ReportDegraded
    <2>4. /\ Current \in Scope(job) \cap configured
          /\ Current \notin broken' => Data[Current] \cap saved' = {}
        BY <1>1, <2>1, <2>2 DEF Syncs, Working, Unsaved
    <2>5. Working'
        BY <1>1, <2>1, <2>2, <2>3, <2>4, WorkingStep
    <2> QED
        BY <1>1, <2>1, <2>2, <2>3, <2>5, SameData, SyncMoves
<1> QED
    BY <1>2, <1>3, <1>4, <1>5, <1>6, <1>7, <1>8, <1>9, <1>10

\* The steps that end a sync.
LEMMA SharedAfterSync ==
    ASSUME Types, Shared,
           SkipProvider \/ SkipUnconfigured \/ CompleteSync \/ FailSync \/ SyncEscapes
    PROVE  Shared'
<1>1. /\ Looping /\ NextSync /\ UNCHANGED <<inputs, provider, boot, broken, saved>>
      /\ errors \subseteq errors'
    BY DEF SkipProvider, SkipUnconfigured, CompleteSync, FailSync, SyncEscapes, Looping, Within,
           inputs, statuses, syncing, syncVars
<1>2. Syncs /\ Working /\ Current \in Provider /\ Current \in Step
    BY <1>1, Turns, PastInLoop DEF Shared, Syncs
<1>3. \A p \in Provider : p \in configured' \cap Scope(job)' <=> p \in configured \cap Scope(job)
    BY <1>1 DEF inputs, Scope
<1>4. CASE SkipProvider \/ SkipUnconfigured
    <2>1. step'[Current] = "SKIPPED" /\ \A p \in Provider \ {Current} : step'[p] = step[p]
        BY <1>2, <1>4, StepSet, Turns DEF SkipProvider, SkipUnconfigured, Closed
    <2>2. Current \notin configured \cap Scope(job)
        BY <1>2, <1>4 DEF SkipProvider, SkipUnconfigured, Working
    <2>3. \A p \in Provider : p = Current => Clean(p)'
        BY <1>3, <2>1, <2>2 DEF Clean
    <2> QED
        BY <1>1, <2>1, <2>3, SyncEnds
<1>5. CASE CompleteSync
    <2>1. step'[Current] = "COMPLETED" /\ \A p \in Provider \ {Current} : step'[p] = step[p]
        BY <1>2, <1>5, StepSet, Turns DEF CompleteSync, Closed
    <2>2. Data[Current] \subseteq saved /\ Delivering(Current)
        BY <1>2, <1>5 DEF CompleteSync, Working
    <2>3. \A p \in Provider : p = Current => Clean(p)'
        BY <1>1, <2>1, <2>2 DEF Clean, Delivering, Data
    <2> QED
        BY <1>1, <2>1, <2>3, SyncEnds
<1>6. CASE FailSync
    <2>1. \A p \in Provider \ {Current} : step'[p] = step[p]
        BY <1>2, <1>6, StepSet, Turns DEF FailSync, Closed
    <2>2. /\ provider[Current] \notin {"ONLINE", "EMPTY"}
          /\ Current \notin broken => Unsaved
        BY <1>2, <1>6 DEF FailSync, Working
    <2>3. Current \in errors'
        BY <1>6 DEF FailSync
    <2> QED
        BY <1>1, <2>1, <2>2, <2>3, SyncEnds
<1>7. CASE SyncEscapes
    <2>1. step' = step /\ Current \in errors'
        BY <1>7 DEF SyncEscapes
    <2>2. step[Current] \in {"QUEUED", "RUNNING"}
        BY <1>1, <1>2, PastInLoop DEF Syncs, Synced, Untouched
    <2> QED
        BY <1>1, <2>1, <2>2, SyncEnds
<1> QED
    BY <1>4, <1>5, <1>6, <1>7

\* The steps after the loop.
LEMMA SharedAfterLoop ==
    ASSUME Types, Shared,
           \/ BeginSettlement \/ EndSettlement \/ SettlementFails \/ SkipInference \/ Infer
           \/ StorePredictions \/ InferenceFails \/ PersistOutput \/ Finish
           \/ \E s \in Step : ReportStep(s)
    PROVE  Shared'
<1>1. /\ pc \in After /\ pc' \in After
      /\ UNCHANGED <<inputs, provider, boot, broken, saved, at>>
      /\ errors \subseteq errors'
    BY DEF BeginSettlement, EndSettlement, SettlementFails, SkipInference, Infer,
           StorePredictions, InferenceFails, PersistOutput, Finish, ReportStep, After,
           inputs, statuses, syncing, syncVars
<1>2. \/ step' = step
      \/ \E s \in {"SETTLEMENT", "PERSIST_OUTPUT"} \cup Reporting, x \in {"RUNNING"} \cup Closed :
            SetStep(s, x)
    BY DEF BeginSettlement, EndSettlement, SettlementFails, SkipInference, Infer,
           StorePredictions, InferenceFails, PersistOutput, Finish, ReportStep, Closed
<1>3. \A p \in Provider : step'[p] = step[p]
    BY <1>2, StepSet, StepNames, Turns
<1> QED
    BY <1>1, <1>3, SyncsOver

\* A stopped run, and an API process beside the pipeline.
LEMMA SharedBeside ==
    ASSUME Types, Shared,
           \/ Stop \/ Recover \/ WriteStatus \/ UNCHANGED vars
           \/ \E p \in Provider : ReadStatus(p)
    PROVE  Shared'
<1>1. UNCHANGED <<inputs, at, errors, broken, saved, step>>
    BY DEF Stop, Recover, WriteStatus, ReadStatus, vars, inputs, syncing, syncVars
<1>2. /\ Current' = Current /\ Scope(job)' = Scope(job)
      /\ configured' = configured
    BY <1>1 DEF Current, inputs, Scope
<1>3. CASE Stop
    <2>1. pc' = "stopped" /\ provider' = provider
        BY <1>3 DEF Stop, statuses
    <2> QED
        BY <1>1, <2>1 DEF Shared, Syncs, FailureShown, RefusalsCostNothing, Data
<1>4. ASSUME pc' = pc,
             \A p \in Provider : /\ Delivering(p) => Delivering(p)'
                                 /\ provider[p] \notin {"ONLINE", "EMPTY"} =>
                                        provider'[p] \notin {"ONLINE", "EMPTY"}
      PROVE  Shared'
    <2>1. ASSUME pc # "stopped" PROVE Working'
        <3>1. Working /\ Current \in Provider
            BY <2>1, Turns DEF Shared, Syncs
        <3>2. Delivering(Current) => Delivering(Current)'
            BY <1>2, <1>4, <3>1 DEF Delivering
        <3>3. provider[Current] \notin {"ONLINE", "EMPTY"} =>
                    provider'[Current] \notin {"ONLINE", "EMPTY"}
            BY <1>4, <3>1
        <3> QED
            BY <1>1, <1>2, <1>4, <3>1, <3>2, <3>3 DEF Working, Unsaved, Data
    <2>2. ASSUME NEW p \in Provider, pc # "stopped" PROVE Synced(p)'
        <3>1. Synced(p) /\ (Past(p)' <=> Past(p))
            BY <1>1, <1>4, <2>2 DEF Shared, Syncs, Past, Place
        <3>2. Clean(p) => Clean(p)'
            BY <1>1, <1>2, <1>4 DEF Clean, Data
        <3>3. Untouched(p) => Untouched(p)'
            BY <1>1 DEF Untouched
        <3> QED
            BY <1>1, <1>2, <1>4, <3>1, <3>2, <3>3 DEF Synced, Data
    <2>3. FailureShown'
        BY <1>1, <1>4 DEF Shared, FailureShown
    <2>4. RefusalsCostNothing'
        BY <1>1 DEF Shared, RefusalsCostNothing, Data
    <2> QED
        BY <1>4, <2>1, <2>2, <2>3, <2>4 DEF Shared, Syncs
<1>5. CASE Recover \/ UNCHANGED vars
    BY <1>4, <1>5 DEF Recover, vars, statuses, Delivering
<1>6. ASSUME NEW p \in Provider, ReadStatus(p)
      PROVE  Shared'
    <2>1. pc' = pc /\ provider' = provider /\ boot = "no"
        BY <1>6 DEF ReadStatus
    <2> QED
        BY <1>4, <2>1 DEF Delivering
<1>7. CASE WriteStatus
    <2>1. /\ pc' = pc /\ boot' = "done" /\ boot \in Provider
          /\ provider' = [provider EXCEPT ![boot] = "OFFLINE"]
        BY <1>7 DEF WriteStatus
    <2>2. /\ provider'[boot] = "OFFLINE"
          /\ \A q \in Provider \ {boot} : provider'[q] = provider[q]
        BY <2>1, StatusSet DEF Shown
    <2> QED
        BY <1>4, <2>1, <2>2 DEF Delivering
<1> QED
    BY <1>3, <1>5, <1>6, <1>7

\* Every step keeps what is known of the providers.
LEMMA SharedStep ==
    ASSUME Types, Requests, Shared, [Next]_vars
    PROVE  Shared'
BY SharedInSync, SharedAfterSync, SharedAfterLoop, SharedBeside DEF Next, Pipeline, Failure

---------------------------------------------------------------------------
(* Requests *)

\* A sync that goes on asking has a plan that fits.
LEMMA RequestsStep ==
    ASSUME Types, Requests, Syncs, [Next]_vars
    PROVE  Requests'
<1> SUFFICES ASSUME pc' = "fetching" PROVE Fits' /\ Charged'
    BY DEF Requests
<1>1. CASE BeginSync
    BY <1>1, BeginFits DEF BeginSync
<1>2. CASE Fetch
    BY <1>2, FetchAsks DEF Asking
<1>3. CASE SaveData
    BY <1>3, CommitFits DEF SaveData, Requests
<1>4. ASSUME pc = "fetching", UNCHANGED <<inputs, at, syncVars>>
      PROVE  Fits' /\ Charged'
    <2>1. Fits /\ Charged
        BY <1>4 DEF Requests
    <2>2. /\ plan' = plan /\ saved' = saved /\ attempt' = attempt
          /\ known' = known /\ quota' = quota /\ silent' = silent
        BY <1>4 DEF syncVars, client, credits
    <2> QED
        BY <1>4, <2>1, <2>2, SamePlan DEF Charged, Lost
<1>5. CASE UNCHANGED vars
    BY <1>4, <1>5 DEF vars, inputs
<1>6. CASE WriteStatus \/ Recover \/ \E p \in Provider : ReadStatus(p)
    BY <1>4, <1>6 DEF WriteStatus, Recover, ReadStatus, inputs, syncing
<1>7. ASSUME SkipProvider \/ SkipUnconfigured \/ CompleteSync \/ FailSync \/ SyncEscapes
      PROVE  FALSE
    BY <1>7 DEF SkipProvider, SkipUnconfigured, CompleteSync, FailSync, SyncEscapes, NextSync
<1>8. ~(\/ NotConfigured \/ RequestFails \/ ReportOnline \/ Audit \/ ReportDegraded \/ SyncFails
        \/ Stop)
    BY DEF NotConfigured, RequestFails, ReportOnline, Audit, ReportDegraded, SyncFails, Stop
<1>9. ~(\/ BeginSettlement \/ EndSettlement \/ SettlementFails \/ SkipInference \/ Infer
        \/ StorePredictions \/ InferenceFails \/ PersistOutput \/ Finish
        \/ \E s \in Step : ReportStep(s))
    BY DEF BeginSettlement, EndSettlement, SettlementFails, SkipInference, Infer,
           StorePredictions, InferenceFails, PersistOutput, Finish, ReportStep
<1> QED
    BY <1>1, <1>2, <1>3, <1>5, <1>6, <1>7, <1>8, <1>9 DEF Next, Pipeline, Failure

---------------------------------------------------------------------------
(* The end of a run *)

\* Nothing of the end is touched in the loop over the syncs.
LEMMA ClosingInLoop ==
    ASSUME Types, Closing, Looping, UNCHANGED <<run, output>>,
           pc' \in {"enter", "unconfigured", "settle"} \cup Within,
           \A s \in Reporting : step'[s] = step[s]
    PROVE  Closing'
BY DEF Closing, Looping, Within, Ended, output

\* Every step keeps what the end of a run tells.
LEMMA ClosingStep ==
    ASSUME Types, Closing, [Next]_vars
    PROVE  Closing'
<1> USE DEF output, Ended
<1>1. ASSUME \/ SkipProvider \/ SkipUnconfigured \/ CompleteSync \/ FailSync \/ BeginSync
      PROVE  Closing'
    <2>1. /\ Looping /\ UNCHANGED <<run, output>>
          /\ pc' \in {"enter", "unconfigured", "settle"} \cup Within
          /\ \E x \in {"RUNNING"} \cup Closed : SetStep(Current, x)
        BY <1>1 DEF SkipProvider, SkipUnconfigured, CompleteSync, FailSync, BeginSync, NextSync,
                    Looping, Within, Closed
    <2>2. \A s \in Reporting : step'[s] = step[s]
        BY <2>1, StepSet, StepNames, Turns
    <2> QED
        BY <2>1, <2>2, ClosingInLoop
<1>2. ASSUME \/ NotConfigured \/ Fetch \/ RequestFails \/ SaveData \/ ReportOnline \/ Audit
             \/ SyncFails \/ ReportDegraded \/ SyncEscapes
      PROVE  Closing'
    <2>1. /\ Looping /\ UNCHANGED <<run, output, step>>
          /\ pc' \in {"enter", "unconfigured", "settle"} \cup Within
        BY <1>2 DEF NotConfigured, Fetch, RequestFails, SaveData, ReportOnline, Audit, SyncFails,
                    ReportDegraded, SyncEscapes, NextSync, Looping, Within
    <2> QED
        BY <2>1, ClosingInLoop
<1>3. CASE BeginSettlement
    <2>1. \A s \in Reporting : step'[s] = step[s]
        BY <1>3, StepSet, StepNames DEF BeginSettlement
    <2> QED
        BY <1>3, <2>1 DEF BeginSettlement, Closing
<1>4. CASE EndSettlement
    <2>1. step'["SETTLEMENT"] = "SKIPPED" /\ \A s \in Reporting : step'[s] = step[s]
        BY <1>4, StepSet, StepNames DEF EndSettlement, Closed
    <2> QED
        BY <1>4, <2>1 DEF EndSettlement, Closing
<1>5. CASE SettlementFails
    <2>1. \A s \in Reporting : step'[s] = step[s]
        BY <1>5, StepSet, StepNames DEF SettlementFails, Closed
    <2> QED
        BY <1>5, <2>1 DEF SettlementFails, Closing
<1>6. CASE SkipInference
    BY <1>6 DEF SkipInference, Closing
<1>7. CASE Infer
    BY <1>7 DEF Infer, Closing
<1>8. CASE StorePredictions
    BY <1>8 DEF StorePredictions, Closing
<1>9. CASE InferenceFails
    BY <1>9 DEF InferenceFails, Closing
<1>10. ASSUME NEW s \in Step, ReportStep(s)
       PROVE  Closing'
    <2>1. /\ pc = "report" /\ s \in Reporting
          /\ SetStep(s, IF predicted THEN "COMPLETED" ELSE "SKIPPED")
          /\ UNCHANGED <<run, output, pc, errors>>
        BY <1>10 DEF ReportStep
    <2>2. /\ step'[s] = IF predicted THEN "COMPLETED" ELSE "SKIPPED"
          /\ \A r \in Step \ {s} : step'[r] = step[r]
        BY <2>1, StepSet DEF Closed
    <2>3. step'["SETTLEMENT"] = step["SETTLEMENT"]
        BY <2>1, <2>2, StepNames
    <2>4. \A r \in Reporting : step'[r] \in {"QUEUED", IF predicted THEN "COMPLETED" ELSE "SKIPPED"}
        BY <2>1, <2>2, StepNames DEF Closing
    <2> QED
        BY <2>1, <2>3, <2>4 DEF Closing
<1>11. CASE PersistOutput
    <2>1. /\ step'["PERSIST_OUTPUT"] = "COMPLETED"
          /\ \A r \in Reporting \cup {"SETTLEMENT"} : step'[r] = step[r]
        BY <1>11, StepSet, StepNames DEF PersistOutput, Closed
    <2> QED
        BY <1>11, <2>1 DEF PersistOutput, Closing
<1>12. CASE Finish
    <2>1. configured' \cap Scope(job)' = configured \cap Scope(job)
        BY <1>12 DEF Finish, inputs, Scope
    <2> QED
        BY <1>12, <2>1 DEF Finish, Closing
<1>13. CASE Stop
    BY <1>13 DEF Stop, Closing
<1>14. CASE Recover
    BY <1>14 DEF Recover, Closing
<1>15. ASSUME WriteStatus \/ (\E p \in Provider : ReadStatus(p)) \/ UNCHANGED vars
       PROVE  Closing'
    <2>1. UNCHANGED <<run, output, pc, errors, step, configured, job>>
        BY <1>15 DEF WriteStatus, ReadStatus, vars, inputs
    <2>2. Scope(job)' = Scope(job)
        BY <2>1 DEF Scope
    <2> QED
        BY <2>1, <2>2 DEF Closing
<1> QED
    BY <1>1, <1>2, <1>3, <1>4, <1>5, <1>6, <1>7, <1>8, <1>9, <1>10, <1>11, <1>12, <1>13, <1>14,
       <1>15 DEF Next, Pipeline, Failure

---------------------------------------------------------------------------
(* The invariant *)

\* It holds when a run begins.
LEMMA InitIInv == Init => IInv
<1> SUFFICES ASSUME Init PROVE IInv
    OBVIOUS
<1>1. Types
    <2>1. provider \in [Provider -> Shown] /\ step \in [Step -> {"QUEUED", "RUNNING"} \cup Closed]
        BY DEF Init, Shown
    <2>2. plan \in Seq(Item) /\ attempt \in 0..2 /\ quota \in Nat /\ silent \in SUBSET Nat
        BY EmptySeq, SyncAssumption DEF Init, SyncInit
    <2>3. /\ job \in JobType /\ football \in {"sportmonks", "api_football"}
          /\ configured \in SUBSET Provider
        BY JobAssumption DEF Init
    <2>4. predicted \in BOOLEAN /\ stored \in BOOLEAN /\ reported \in BOOLEAN
        BY DEF Init
    <2>5. /\ boot \in {"no", "done"} \cup Provider /\ at \in 1..3
          /\ pc \in {"enter", "unconfigured", "stopped"} \cup Within \cup After
        BY DEF Init
    <2> QED
        BY <2>1, <2>2, <2>3, <2>4, <2>5 DEF Types
<1>2. Requests
    BY DEF Init, Requests
<1>3. \A s \in Step : step[s] = "QUEUED"
    BY DEF Init
<1>4. Syncs
    <2>1. ASSUME NEW p \in Provider PROVE ~Past(p) /\ Untouched(p)
        BY <1>1, <1>3, Turns DEF Init, Past, After, Untouched
    <2>2. \A p \in Provider : Data[p] \cap saved = {}
        BY DEF Init, SyncInit
    <2> QED
        BY <2>1, <2>2 DEF Init, Syncs, Synced, Working, Within
<1>5. Closing
    BY <1>3, <1>1, StepNames DEF Init, Closing, Ended
<1>6. FailureShown /\ RefusalsCostNothing
    BY <1>1, <1>3, Turns DEF FailureShown, RefusalsCostNothing
<1> QED
    BY <1>1, <1>2, <1>4, <1>5, <1>6 DEF IInv

\* Every step keeps it.
LEMMA NextIInv == IInv /\ [Next]_vars => IInv'
BY TypesStep, RequestsStep, SharedStep, ClosingStep DEF IInv, Shared

\* The inductive invariant of a run: its plan of requests, what each provider's sync has
\* stored and shown, and what the end of the run tells, for any quotas, prices and bounds.
THEOREM Invariance == Spec => []IInv
BY InitIInv, NextIInv, PTL DEF Spec

\* A run that ends COMPLETED has stored the data of every provider of its job that has
\* credentials, and shows no step that is not closed (_run_analysis).
THEOREM SpecCompletedIsClean == Spec => []CompletedIsClean
<1>1. IInv => CompletedIsClean
    <2> SUFFICES ASSUME IInv, run = "COMPLETED" PROVE CompletedIsClean
        BY DEF CompletedIsClean
    <2>1. pc = "done" /\ errors = {} /\ configured \cap Scope(job) # {} /\ Types
        BY DEF IInv, Closing
    <2>2. \A p \in Provider : Clean(p)
        BY <2>1 DEF IInv, Syncs, Synced, Past, After
    <2>3. step["SETTLEMENT"] = "SKIPPED" /\ step["PERSIST_OUTPUT"] = "COMPLETED"
        BY <2>1 DEF IInv, Closing, Ended
    <2>4. \A s \in Reporting : step[s] \in {"COMPLETED", "SKIPPED"}
        BY <2>1 DEF IInv, Closing, Ended
    <2>5. \A s \in Step : step[s] \in {"COMPLETED", "SKIPPED"}
        BY <2>2, <2>3, <2>4 DEF Step, Clean
    <2>6. configured \subseteq Provider
        BY <2>1 DEF Types
    <2> QED
        BY <2>1, <2>2, <2>5, <2>6 DEF CompletedIsClean, Clean, Delivering
<1> QED
    BY <1>1, Invariance, PTL

\* A run that ends reports the predictions that are stored, whatever was rolled back.
THEOREM SpecPredictionsReported == Spec => []PredictionsReported
<1>1. IInv => PredictionsReported
    BY DEF IInv, Types, Closing, Ended, PredictionsReported
<1> QED
    BY <1>1, Invariance, PTL

\* A provider whose sync is FAILED is never shown as delivering, an API process that starts
\* beside the pipeline included.
THEOREM SpecFailureShown == Spec => []FailureShown
<1>1. IInv => FailureShown
    BY DEF IInv
<1> QED
    BY <1>1, Invariance, PTL

\* A refusal costs nothing that is stored: for any number of fixtures and any plan of extras
\* a sync that its provider's answers make fail has stored nothing.
THEOREM SpecRefusalsCostNothing == Spec => []RefusalsCostNothing
<1>1. IInv => RefusalsCostNothing
    BY DEF IInv
<1> QED
    BY <1>1, Invariance, PTL

\* Once told what is left, the client is charged below the floor for the three attempts of one
\* target at most, and of one more for each answer since then that did not tell, whatever the
\* quota, the price and the floor are (_request, get_target_odds).
THEOREM SpecFloorKept == Spec => FloorKept
<1>1. IInv /\ [Next]_vars =>
        (quota' < quota => \A n \in silent : quota' > Floor - (n + 1) * (Attempts * Cost))
    <2> SUFFICES ASSUME IInv, [Next]_vars PROVE KeepsFloor
        BY DEF KeepsFloor
    <2>1. Types /\ Requests /\ quota \in Nat
        BY DEF IInv, Types
    <2>2. CASE Fetch
        BY <2>1, <2>2, FetchAsks DEF Asking
    <2>3. CASE RequestFails
        BY <2>1, <2>3, RefusedEarly DEF RequestFails, Requests
    <2>4. ASSUME quota' = quota PROVE KeepsFloor
        BY <2>1, <2>4 DEF KeepsFloor
    <2>5. CASE BeginSync \/ SaveData \/ SyncFails
        BY <2>4, <2>5 DEF BeginSync, BeginRequests, SaveData, Commit, SyncFails, Abandon, credits
    <2>6. Fetch \/ RequestFails \/ BeginSync \/ SaveData \/ SyncFails \/ quota' = quota
        BY DEF Next, Pipeline, Failure, SkipProvider, NotConfigured, SkipUnconfigured, ReportOnline,
               Audit, CompleteSync, ReportDegraded, FailSync, BeginSettlement, EndSettlement,
               SkipInference, Infer, StorePredictions, ReportStep, PersistOutput, Finish,
               SyncEscapes, SettlementFails, InferenceFails, Stop, Recover, WriteStatus,
               ReadStatus, syncing, syncVars, credits, vars
    <2> QED
        BY <2>2, <2>3, <2>4, <2>5, <2>6
<1> QED
    BY <1>1, Invariance, PTL DEF Spec, FloorKept

=============================================================================
