----------------------------- MODULE Settlement -----------------------------
(***************************************************************************)
(* From the pitch to the ledger: what the providers of fixtures report of  *)
(* a match (football_sync.py, tennis_sync.py), and the batch that settles  *)
(* its recommendations with an explicit stake (settle_finished_events).    *)
(*                                                                         *)
(* home and away are the score after regulation time, or the sets won.     *)
(* The batch runs under analysis-execute, so not during a sync; it writes  *)
(* in a session that commits once, at the end.  The pipeline itself passes *)
(* no stake, and then nothing is settled.                                  *)
(*                                                                         *)
(* Two providers may spell a name differently, those of tennis players in  *)
(* accents and punctuation, which canonical keys drop (for other names a   *)
(* tennis match of one does not meet the other's).  A pick is made         *)
(* while the event has the names of the odds provider (market_at), and     *)
(* carries that spelling; the event has the names of whoever listed it     *)
(* last, and its winner the name that the provider of fixtures uses.       *)
(***************************************************************************)
EXTENDS SettlementLaws, FiniteSets, Functions

CONSTANTS
    Client,     \* providers of fixtures considered
    Pick,       \* recommendations: market, selection, odds
    Bet,        \* the stake of a batch
    Opening,    \* opening balances; NoLedger if there is no bankroll
    Closing,    \* pick: the books' last VALID prices before kickoff
    NoLedger,
    Alike,      \* which sides both providers spell alike, up to case: sets considered
    MaxExtra    \* bound on goals of a side in extra time

ASSUME BatchAssumption ==
    /\ Client \subseteq {"api_football", "sportmonks", "api_tennis"}
    /\ Alike \subseteq SUBSET {"home", "away"}
    /\ Bet \in Nat \ {0}
    /\ MaxExtra \in Nat
    /\ IsFiniteSet(Pick)
    /\ \A p \in Pick : /\ p.selection \in {"home", "away", "draw", "over", "under"}
                       /\ p.odds \in Nat /\ p.odds > Even
    /\ Opening \subseteq Int \cup {NoLedger} /\ NoLedger \notin Int

VARIABLES
    client, alike,          \* who reports, which names it has in common with the odds provider
    phase, extra,           \* where the match stands, goals in extra time
    event,                  \* status, score, winner and spelling of the names
    results, bankroll,      \* bet_results by pick, the latest bankroll row
    batch                   \* the session of settle_finished_events

reporters == <<client, alike>>
match == <<line, home, away, reporters, phase, extra>>
ledger == <<results, bankroll>>
batchVars == <<match, event, ledger, batch>>

NoResult == [result |-> "none"]
NoScore == <<>>
NoBatch == [open |-> FALSE]

\* infer() recommends MONEYLINE only, and scores of tennis matches are not reported.
Offered == {p \in Pick : client = "api_tennis" => p.market = "MONEYLINE" /\ p.selection # "draw"}

BatchInit ==
    /\ Init
    /\ client \in Client
    /\ alike \in Alike
    /\ phase = "play"
    /\ extra = [home |-> 0, away |-> 0]
    /\ event = [status |-> "SCHEDULED", score |-> NoScore, winner |-> "none",
                spelled |-> "odds"]
    /\ results = [p \in Offered |-> NoResult]
    /\ bankroll \in Opening
    /\ batch = NoBatch

---------------------------------------------------------------------------
(* The match *)

Play == phase = "play" /\ Next /\ UNCHANGED <<reporters, phase, extra, event, ledger, batch>>

\* A cup match that is level goes on; a tennis match is not over while it is level.
Whistle ==
    /\ phase = "play"
    /\ client = "api_tennis" => home # away
    /\ phase' \in {"FT"} \cup (IF home = away THEN {"ET"} ELSE {})
    /\ UNCHANGED <<line, home, away, reporters, extra, event, ledger, batch>>

ExtraGoal ==
    /\ phase = "ET"
    /\ \E side \in {"home", "away"} :
        extra[side] < MaxExtra /\ extra' = [extra EXCEPT ![side] = @ + 1]
    /\ UNCHANGED <<line, home, away, reporters, phase, event, ledger, batch>>

EndExtra ==
    /\ phase = "ET"
    /\ phase' = IF extra.home = extra.away THEN "PEN" ELSE "AET"
    /\ UNCHANGED <<line, home, away, reporters, extra, event, ledger, batch>>

---------------------------------------------------------------------------
(* What is reported of it *)

Regular == <<home, away>>
Current == <<home + extra.home, away + extra.away>>

\* Mutant: the goals of the whole match.
ApiFootballEvent_Goals(fulltime) ==
    [status |-> IF phase \in {"FT", "AET", "PEN"} THEN "FINAL" ELSE phase,
     score  |-> Current, winner |-> "none", spelled |-> "fixtures"]

\* _api_football_event: the score after regulation time; if that object is absent the goals,
\* but only of a match that ended in regulation time. An object of nulls is no absent one.
ApiFootballEvent(fulltime) ==
    [status |-> IF phase \in {"FT", "AET", "PEN"} THEN "FINAL" ELSE phase,
     score  |-> IF phase # "play" /\ fulltime = "score" THEN Regular
                ELSE IF phase = "FT" /\ fulltime = "absent" THEN Current ELSE NoScore,
     winner |-> "none", spelled |-> "fixtures"]

\* _sportmonks_event: the running score; a match that went to extra time is never FINAL.
SportmonksEvent ==
    [status |-> IF phase = "FT" THEN "FINAL" ELSE phase, score |-> Current,
     winner |-> "none", spelled |-> "fixtures"]

\* normalize_tennis_fixture: the winner's name, if the answer marks one, and no score.
TennisEvent(marked) ==
    [status |-> IF phase = "FT" THEN "FINAL" ELSE phase, score |-> NoScore,
     winner |-> IF phase # "FT" \/ ~marked THEN "none" ELSE IF home > away THEN "home" ELSE "away",
     spelled |-> "fixtures"]

SyncFixture ==
    /\ batch = NoBatch
    /\ \E fulltime \in {"score", "nulls", "absent"}, marked \in BOOLEAN :
        event' = CASE client = "api_football" -> ApiFootballEvent(fulltime)
                   [] client = "sportmonks" -> SportmonksEvent
                   [] OTHER -> TennisEvent(marked)
    /\ UNCHANGED <<match, ledger, batch>>

\* upsert_event for the_odds_api: its spelling of the names, and nothing of the result; the
\* winner keeps the name it has. The provider may list a match whose end it has not seen.
SyncOdds ==
    /\ batch = NoBatch
    /\ event' = [event EXCEPT !.spelled = "odds"]
    /\ UNCHANGED <<match, ledger, batch>>

---------------------------------------------------------------------------
(* settle_finished_events *)

\* A side's name in a pick is one of the two names the event has now.
Named(side) == event.spelled = "odds" \/ side \in alike

\* settle_market does not raise: the selection names a side of the event, if it names a side
\* at all, and there is a score or a winner that decides.
Settleable(p) ==
    /\ p.selection \in {"over", "under", "draw"} \/ Named(p.selection)
    /\ event.score # NoScore \/ (p.market = "MONEYLINE" /\ event.winner # "none")

\* The side whose name in a pick is the winner's: nobody's, if the winner is spelled
\* differently.
Winner == IF event.winner \in alike \cup {"none"} THEN event.winner ELSE "unknown"

\* settle_market for that score; without one, for the winner.
SettleMarket(p, score) ==
    CASE p.market = "MONEYLINE" ->
            IF score = NoScore THEN MoneylineResult(p.selection, 0, 0, Winner)
            ELSE MoneylineResult(p.selection, score[1], score[2], Winner)
      [] p.market = "TOTALS" -> TotalsResult(p.selection, score[1], score[2], line)
      [] OTHER -> HandicapResult(p.selection, score[1], score[2], line)

\* The session reads the FINAL event, and takes the best closing price of each pick.
BeginBatch ==
    /\ batch = NoBatch
    /\ event.status = "FINAL"
    /\ batch' = [open |-> TRUE, results |-> results, bankroll |-> bankroll]
    /\ UNCHANGED <<match, event, ledger>>

Due(r) == {p \in DOMAIN r : r[p] = NoResult}

BetResult(p) ==
    LET result == SettleMarket(p, event.score)
    IN  [result |-> result, profit |-> SettleProfit(result, Bet, p.odds),
         closing |-> IF Closing[p] = {} THEN 0
                     ELSE CHOOSE c \in Closing[p] : \A d \in Closing[p] : d <= c]

\* Mutant: the bankroll is read once, before the loop.
Booked_OnOpening(p) ==
    IF batch.bankroll = NoLedger THEN NoLedger ELSE bankroll + BetResult(p).profit

\* The next bankroll row continues the latest one, of this session too.
Booked(p) ==
    IF batch.bankroll = NoLedger THEN NoLedger ELSE batch.bankroll + BetResult(p).profit

SettleNext(p) ==
    /\ batch.open
    /\ p \in Due(batch.results)
    /\ Settleable(p)
    /\ batch' = [open |-> TRUE, results |-> [batch.results EXCEPT ![p] = BetResult(p)],
                 bankroll |-> Booked(p)]
    /\ UNCHANGED <<match, event, ledger>>

CommitBatch ==
    /\ batch.open
    /\ Due(batch.results) = {}
    /\ results' = batch.results
    /\ bankroll' = batch.bankroll
    /\ batch' = NoBatch
    /\ UNCHANGED <<match, event>>

\* A pick that raises, or any other error, rolls back all of them.
FailBatch ==
    /\ batch.open
    /\ batch' = NoBatch
    /\ UNCHANGED <<match, event, ledger>>

BatchNext ==
    \/ Play \/ Whistle \/ ExtraGoal \/ EndExtra
    \/ SyncFixture \/ SyncOdds
    \/ BeginBatch \/ (\E p \in Offered : SettleNext(p)) \/ CommitBatch \/ FailBatch

BatchSpec == BatchInit /\ [][BatchNext]_batchVars

---------------------------------------------------------------------------
(* Properties *)

Profit(r) == SumFunction([p \in DOMAIN r |-> IF r[p] = NoResult THEN 0 ELSE r[p].profit])

\* The ledger moves by whole batches: all picks of the match are settled together or none,
\* each once, and the bankroll moves by exactly what they pay.
BatchesBooked ==
    [][ledger' # ledger =>
        /\ Due(results) = DOMAIN results /\ Due(results') = {}
        /\ bankroll # NoLedger => bankroll' = bankroll + Profit(results')]_batchVars

\* What a pick is owed for the score after regulation time.
Owed(p) ==
    CASE p.market = "MONEYLINE" -> MoneylineResult(p.selection, home, away, "none")
      [] p.market = "TOTALS" -> TotalsResult(p.selection, home, away, line)
      [] OTHER -> HandicapResult(p.selection, home, away, line)

\* A pick on a tennis player whose name the two providers spell differently.
OnStranger(p) == client = "api_tennis" /\ p.selection \notin alike

\* Bets are settled on regulation time (the comment in _api_football_event), whichever
\* provider reports the match, under whichever names, whatever happens in extra time and
\* however late the sync. The exception is what settle_market makes of names: the winner keeps
\* that of one provider when upsert_event gives the sides those of another, so a pick on a
\* player whose name is spelled differently is settled as lost, whoever won.
RegulationPaid ==
    \A p \in DOMAIN results :
        results[p] # NoResult =>
            results[p].result = IF OnStranger(p) THEN "LOSS" ELSE Owed(p)

===========================================================================
