---------------------------- MODULE ProviderSync ----------------------------
(***************************************************************************)
(* Inside one provider's sync: the requests its client makes, how often it *)
(* repeats them, which refusals are tolerated, what the quota of the odds  *)
(* provider is spent on, and which commits are made on the way.            *)
(*                                                                         *)
(* The pages of a listing, and the listings of several leagues, are one    *)
(* request; so are the statistics of the two sides of a fixture.  Which    *)
(* fields are read from an answer is Ingestion's, Picks' and Settlement's. *)
(***************************************************************************)
EXTENDS Integers, Sequences

CONSTANTS
    Quotas, Cost, Floor,        \* credits left at the beginning, credits of a request,
                                \* odds_quota_floor
    MaxTargets, MaxFixtures     \* bounds on what is listed

ASSUME SyncAssumption ==
    /\ Quotas \subseteq Nat
    /\ {Cost, Floor, MaxTargets, MaxFixtures} \subseteq Nat

Attempts == 3
Code == {"forbidden", "denied", "limited", "down"}  \* 403, other 4xx, 429, 5xx or no answer

VARIABLES
    plan,       \* requests and commits left; those a listing leads to follow its answer
    attempt,    \* of the request at the head of the plan
    code,       \* last_status_code of the Sportmonks client
    verified,   \* its capabilities["authentication"]
    quota,      \* credits left with the odds provider
    known,      \* requests_remaining: at most one number
    silent,     \* history: since an answer told what is left, the successful ones that did
                \* not; empty before the first that did
    saved       \* what this run's syncs have committed

client == <<attempt, code, verified>>
credits == <<quota, known, silent>>
syncVars == <<plan, client, credits, saved>>

SyncInit ==
    /\ plan = <<>>
    /\ attempt = 0
    /\ code = "none"
    /\ verified = FALSE
    /\ quota \in Quotas
    /\ known = {}
    /\ silent = {}
    /\ saved = {}

\* The requests of s for each of n fixtures or targets in turn.
Times(n, s) == [i \in 1..n * Len(s) |-> s[((i - 1) % Len(s)) + 1]]

Start(c) ==
    CASE c = "the_odds_api" -> <<"sports">>
      [] c = "sportmonks" -> <<"leagues">>
      [] c = "api_football" -> <<"fixtures">>
      [] OTHER -> <<"matches">>

\* The odds of each target that is listed; what was received is kept only all together.
TargetOdds(n) == Times(n, <<"odds">>) \o <<"ODDS">>

\* The teams of one fixture, whose standings may have been asked for before.
TeamStatistics == <<"teams">>

FootballStatistics(n) == IF n = 0 THEN <<>> ELSE <<"standings">> \o Times(n, TeamStatistics)

\* Fixtures are durable before any of their extras is asked for.
SportmonksData(n) ==
    <<"FIXTURES">> \o Times(n, <<"statistics">>) \o FootballStatistics(n)
        \o (IF n = 0 THEN <<>> ELSE <<"lineups">>) \o <<"DETAILS">>

FootballAvailability(n) == Times(n, <<"injuries", "lineups">>)

\* Everything in one transaction.
FootballData(n) == FootballStatistics(n) \o FootballAvailability(n) \o <<"FOOTBALL">>

\* The rankings of both tours.
TennisStatistics == <<"rankings", "rankings">>

\* What follows an answer that lists n targets or fixtures.
Follows(c, n) ==
    CASE Head(plan) = "sports" -> TargetOdds(n)
      [] Head(plan) = "leagues" -> <<"LEAGUES", "fixtures">>
      [] Head(plan) = "matches" -> TennisStatistics \o <<"TENNIS">>
      [] Head(plan) = "fixtures" -> IF c = "sportmonks" THEN SportmonksData(n) ELSE FootballData(n)
      [] OTHER -> <<>>

\* Commits, and what they make durable.
Commits == [LEAGUES |-> {"leagues"}, FIXTURES |-> {"fixtures"}, DETAILS |-> {"details"},
            FOOTBALL |-> {"fixtures", "details"}, ODDS |-> {"odds"}, TENNIS |-> {"tennis"}]

\* Codes a client raises for at once, and codes it tries again for.  API-Tennis waits for a
\* short Retry-After and gives up on a long one.
Final(c) == IF c \in {"sportmonks", "api_tennis"} THEN Code \ {"down"} ELSE {}
Retried(c) ==
    CASE c = "sportmonks" -> {"down"}
      [] c = "api_tennis" -> Code \ {"forbidden"}
      [] OTHER -> Code

\* Mutant: only errors of the service are tolerated, not refusals of access.
Optional_TeamsOnly(c, request) == request \in {"standings", "teams"}

\* Requests whose failure the sync tolerates.
Optional(c, request) ==
    \/ request \in {"standings", "teams"}
    \/ c = "sportmonks" /\ request \in {"statistics", "lineups"}

\* A request of odds costs credits, also if its answer gets lost.
Price == IF Head(plan) = "odds" THEN Cost ELSE 0
IsRequest == plan # <<>> /\ Head(plan) \notin DOMAIN Commits

\* Mutant: the floor itself is spent.
AtFloor_Strict == Head(plan) = "odds" /\ \E k \in known : k < Floor

\* get_target_odds: no more targets once the last answer left no more than the floor; an
\* answer that did not tell forbids nothing.
AtFloor == Head(plan) = "odds" /\ \E k \in known : k <= Floor

---------------------------------------------------------------------------
BeginRequests(c) ==
    /\ plan' = Start(c)
    /\ attempt' = 0
    /\ code' = "none"
    /\ verified' = FALSE
    /\ known' = {}
    /\ silent' = {}
    /\ UNCHANGED <<quota, saved>>

StopAtFloor ==
    /\ IsRequest /\ AtFloor
    /\ plan' = <<"ODDS">>
    /\ UNCHANGED <<client, credits, saved>>

\* A request is made unless the floor forbids it; retries are not held to it.
Requesting == IsRequest /\ (attempt = 0 => ~AtFloor)

\* The number of a successful answer, _header_int: none if the header is missing or no number.
Told(c) == IF c = "the_odds_api" THEN {{quota'}, {}} ELSE {known}

\* The client has an answer.
Answered(c) ==
    /\ Requesting
    /\ quota >= Price
    /\ \E n \in 0..(IF Head(plan) = "sports" THEN MaxTargets
                    ELSE IF Head(plan) = "fixtures" THEN MaxFixtures ELSE 0) :
            plan' = Follows(c, n) \o Tail(plan)
    /\ quota' = quota - Price
    /\ known' \in Told(c)
    /\ silent' = IF c # "the_odds_api" THEN silent
                 ELSE IF known' # {} THEN {0} ELSE {n + 1 : n \in silent}
    /\ attempt' = 0
    /\ code' = IF c = "sportmonks" THEN "ok" ELSE code
    /\ verified' = (verified \/ Head(plan) = "leagues")
    /\ UNCHANGED saved

\* The request was charged or not; a timeout leaves the last number and code, an answer
\* that is an error may come without the header.
Unanswered(c, new) ==
    /\ quota' \in {quota} \cup (IF quota >= Price THEN {quota - Price} ELSE {})
    /\ known' \in IF c = "the_odds_api" THEN {known, {quota'}, {}} ELSE {known}
    /\ code' \in IF c = "sportmonks"
                 THEN {new} \cup (IF new = "down" THEN {code} ELSE {}) ELSE {code}

Retry(c) ==
    /\ Requesting
    /\ attempt < Attempts - 1
    /\ \E new \in Retried(c) : Unanswered(c, new)
    /\ attempt' = attempt + 1
    /\ UNCHANGED <<plan, verified, silent, saved>>

\* The client raises: at once, or after the last attempt.
GivesUp(c) ==
    /\ Requesting
    /\ \E new \in Final(c) \cup (IF attempt = Attempts - 1 THEN Retried(c) ELSE {}) :
            Unanswered(c, new)

\* The plan from its first request on that is no "statistics".
AfterStatistics ==
    LET next == CHOOSE i \in 1..Len(plan) : /\ plan[i] # "statistics"
                                           /\ \A j \in 1..i - 1 : plan[j] = "statistics"
    IN  SubSeq(plan, next, Len(plan))

\* A refused extra is left out; Sportmonks' statistics all at once if access is forbidden.
Tolerated(c) ==
    /\ GivesUp(c)
    /\ Optional(c, Head(plan))
    /\ plan' = IF Head(plan) = "statistics" /\ code' = "forbidden" THEN AfterStatistics
               ELSE Tail(plan)
    /\ attempt' = 0
    /\ UNCHANGED <<verified, silent, saved>>

Refused(c) ==
    /\ GivesUp(c)
    /\ ~Optional(c, Head(plan))
    /\ plan' = <<>>
    /\ UNCHANGED <<attempt, verified, silent, saved>>

Commit ==
    /\ plan # <<>> /\ ~IsRequest
    /\ saved' = saved \cup Commits[Head(plan)]
    /\ plan' = Tail(plan)
    /\ UNCHANGED <<client, credits>>

Abandon == plan' = <<>> /\ UNCHANGED <<client, credits, saved>>

=============================================================================
