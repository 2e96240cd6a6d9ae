------------------------------- MODULE Picks -------------------------------
(***************************************************************************)
(* From prices to picks: the odds archive (persist_odds_batch, market_at), *)
(* the registry of promoted models (scripts/research.py promote) and the   *)
(* inference that turns both into predictions and recommendations          *)
(* (research/production.py), with the query that shows them.               *)
(*                                                                         *)
(* Syncs and inference exclude each other by analysis-execute; a promotion *)
(* holds another lock, so it comes between any two steps of an inference.  *)
(* One provider of odds and one of fixtures write the same events and may  *)
(* spell the names of the sides differently.                               *)
(***************************************************************************)
EXTENDS PriceRules

CONSTANTS
    Match, Book, Side, Version,
    Fixture,    \* match: its sport, the kickoffs reported, if both providers spell it alike,
                \* the smaller number of earlier matches of its two sides
    Trained,    \* version: its sport, if its dataset has the features inference rebuilds, if
                \* its held-out metrics pass, the held-out matches, ECE and probabilities in %
    Board,      \* answers of the odds provider: per book the age of its prices and the prices
    Archive,    \* the odds archive at the beginning
    MaxAge, StaleAge, ShelfLife, Horizon,   \* 30 min, odds_stale_minutes, 30 and 2 days
    MinCompared,
    InPlay,     \* how long after its kickoff the odds provider lists a match
    MaxTime, MaxSyncs, MaxAttempts          \* bounds

Key == [match : Match, book : Book, side : Side, at : Nat]
Sport == {Fixture[m].sport : m \in Match}

ASSUME PicksAssumption ==
    /\ \A v \in Version : Trained[v].sport \in Sport /\ Trained[v].heldOut \subseteq Match
    /\ IsFiniteSet(Book)
    /\ \A board \in Board : \A b \in DOMAIN board :
        board[b].age \in Nat /\ Range(board[b].price) \subseteq Nat
    /\ DOMAIN Archive \subseteq Key
    /\ Range(Archive) \subseteq [price : Nat, status : {"VALID", "SUSPECT", "REJECTED"},
                                 live : BOOLEAN, fetched : Nat]
    /\ {MaxAge, StaleAge, ShelfLife, Horizon, InPlay, MaxTime, MaxSyncs, MaxAttempts}
        \subseteq Nat

VARIABLES
    now,
    event,          \* match: kickoff, status and whose spelling of the names it has
    odds,           \* odds_snapshots by their key: price, validation status, is_live, fetched_at
    delivered,      \* history: the last price delivered for a key
    registry,       \* version: status (PRODUCTION iff is_active) and promoted_at
    attempts,       \* promotion_attempt artifacts
    promotion,      \* the promote command: its version, verdict and time stamp
    inference,      \* infer(): its clock reading and the models it has loaded
    predictions, recommendations,
    syncs

vars == <<now, event, odds, delivered, registry, attempts, promotion, inference,
          predictions, recommendations, syncs>>
market == <<event, odds, delivered>>
models == <<registry, attempts, promotion>>
picks == <<predictions, recommendations>>

Idle == [pc |-> "idle"]

Init ==
    /\ now = 2      \* the archive is of times 0 and 1
    /\ event = [m \in Match |-> [start |-> Min(Fixture[m].starts), status |-> "SCHEDULED",
                                 spelled |-> "fixtures"]]
    /\ odds = Archive
    /\ delivered = [k \in DOMAIN Archive |-> Archive[k].price]
    /\ registry = [v \in Version |-> [status |-> "ABSENT", promotedAt |-> 0]]
    /\ attempts = {}
    /\ promotion = Idle
    /\ inference = Idle
    /\ predictions = {}
    /\ recommendations = {}
    /\ syncs = 0

Tick == now < MaxTime /\ now' = now + 1
        /\ UNCHANGED <<market, models, inference, picks, syncs>>

---------------------------------------------------------------------------
(* Odds and fixtures *)

\* A sync runs under analysis-execute, so not during an inference.
Syncing == inference = Idle /\ syncs < MaxSyncs /\ syncs' = syncs + 1

Quotes(m, board) ==
    UNION {[match : {m}, book : {b}, side : DOMAIN board[b].price, at : {now - board[b].age}]
            : b \in DOMAIN board}

\* A price is classified among the prices of its selection in the same answer.
Verdict(k, board) ==
    ClassifyPrices([b \in {c \in DOMAIN board : k.side \in DOMAIN board[c].price} |->
                        board[b].price[k.side]])[k.book]

\* Mutant: a price that conflicts with the stored one is only counted.
Stored_ConflictIgnored(k, board, start) ==
    LET price == board[k.book].price[k.side]
    IN  IF k \notin DOMAIN odds
        THEN [price |-> price, status |-> Verdict(k, board), live |-> k.at >= start,
              fetched |-> now]
        ELSE IF odds[k].price # price THEN odds[k]
        ELSE [odds[k] EXCEPT !.status = Verdict(k, board)]

\* The row of a key after an answer.  A row keeps its first price: another price for the
\* same key makes it SUSPECT, the same price gives it the verdict of the new answer.
Stored(k, board, start) ==
    LET price == board[k.book].price[k.side]
    IN  IF k \notin DOMAIN odds
        THEN [price |-> price, status |-> Verdict(k, board), live |-> k.at >= start,
              fetched |-> now]
        ELSE IF odds[k].price # price THEN [odds[k] EXCEPT !.status = "SUSPECT"]
        ELSE [odds[k] EXCEPT !.status = Verdict(k, board)]

\* persist_odds_batch: upsert_event leaves status and result to the fixtures' provider.
\* A match that has begun is listed for a while; what is quoted of it from then on is live.
SyncOdds(m, start, board) ==
    LET keys == Quotes(m, board)
    IN  /\ Syncing
        /\ now <= start + InPlay
        /\ event' = [event EXCEPT ![m].start = start, ![m].spelled = "odds"]
        /\ odds' = [k \in DOMAIN odds \cup keys |->
                        IF k \in keys THEN Stored(k, board, start) ELSE odds[k]]
        /\ delivered' = [k \in DOMAIN odds \cup keys |->
                            IF k \in keys THEN board[k.book].price[k.side] ELSE delivered[k]]
        /\ UNCHANGED <<now, models, inference, picks>>

\* upsert_event by the provider of fixtures, as long as the match is to come.
SyncFixture(m, start, status) ==
    /\ Syncing
    /\ now <= start
    /\ event' = [event EXCEPT ![m] = [start |-> start, status |-> status,
                                      spelled |-> "fixtures"]]
    /\ UNCHANGED <<now, odds, delivered, models, inference, picks>>

---------------------------------------------------------------------------
(* research/markets.py *)

\* Mutant: prices of any age.
Rows_AnyAge(m, t) ==
    {k \in DOMAIN odds : k.match = m /\ odds[k].status = "VALID" /\ ~odds[k].live
                         /\ k.at <= t /\ odds[k].fetched <= t}

\* Rows a market at time t may use.
Rows(m, t) ==
    {k \in DOMAIN odds : k.match = m /\ odds[k].status = "VALID" /\ ~odds[k].live
                         /\ k.at \in (t - MaxAge)..t /\ odds[k].fetched <= t}

\* The odds are stored under the odds provider's names and looked up by the event's.
NamesAgree(m) == Fixture[m].alike \/ event[m].spelled = "odds"

\* Times at which a book quoted every selection.
Complete(m, b, rows) ==
    {t \in {k.at : k \in rows} :
        \A s \in Side : [match |-> m, book |-> b, side |-> s, at |-> t] \in rows}

\* market_at: per book its latest complete prices, without the books whose price on some
\* selection disagrees with the others; empty if there are not two before and after.
MarketAt(m, t) ==
    LET rows  == Rows(m, t)
        books == {b \in Book : NamesAgree(m) /\ Complete(m, b, rows) # {}}
        price == [b \in books |-> [s \in Side |->
            odds[[match |-> m, book |-> b, side |-> s, at |-> Max(Complete(m, b, rows))]].price]]
        agree == {b \in books : \A s \in Side : b \in Agreeing([c \in books |-> price[c][s]])}
    IN  IF Cardinality(books) < 2 \/ Cardinality(agree) < 2 THEN <<>> ELSE Restrict(price, agree)

\* latest_odds_at: of all rows, those of incomplete and rejected books included.
LatestOddsAt(m, t) == Max({k.at : k \in Rows(m, t)})

Best(books, s) == Max({books[b][s] : b \in DOMAIN books})
BestBook(books, s) == CHOOSE b \in DOMAIN books : books[b][s] = Best(books, s)

---------------------------------------------------------------------------
(* scripts/research.py promote *)

\* attach_market_baseline: held-out matches with a market just before their kickoff.
Compared(v) == {m \in Trained[v].heldOut : MarketAt(m, event[m].start - 1) # <<>>}

\* promotion_checks; whether the model beats that market is left open.
Checks(v, beats) == Trained[v].good /\ Cardinality(Compared(v)) >= MinCompared /\ beats

\* Evidence is recomputed, then promoted_at is taken, then the session commits.
BeginPromotion(v) ==
    /\ promotion = Idle
    /\ Cardinality(attempts) < MaxAttempts
    /\ \E beats \in BOOLEAN :
        promotion' = [pc |-> "stamped", version |-> v, ok |-> Checks(v, beats), at |-> now]
    /\ UNCHANGED <<now, market, registry, attempts, inference, picks, syncs>>

\* Mutant: the model promoted before is not retired.
Registered_NotRetired(v, u) ==
    IF u = v THEN [status |-> "PRODUCTION", promotedAt |-> promotion.at] ELSE registry[u]

\* The row of u after a promotion of v.
Registered(v, u) ==
    IF u = v THEN [status |-> "PRODUCTION", promotedAt |-> promotion.at]
    ELSE IF Trained[u].sport = Trained[v].sport /\ registry[u].status = "PRODUCTION"
         THEN [registry[u] EXCEPT !.status = "RETIRED"]
    ELSE registry[u]

\* A denied promotion is only recorded.
CommitPromotion ==
    /\ promotion # Idle
    /\ registry' = IF promotion.ok
                   THEN [u \in Version |-> Registered(promotion.version, u)] ELSE registry
    /\ attempts' = attempts \cup {[version |-> promotion.version, at |-> promotion.at,
                                   ok |-> promotion.ok]}
    /\ promotion' = Idle
    /\ UNCHANGED <<now, market, inference, picks, syncs>>

---------------------------------------------------------------------------
(* research/production.py infer *)

BeginInference ==
    /\ inference = Idle
    /\ inference' = [pc |-> "begun", at |-> now, loaded |-> <<>>]
    /\ UNCHANGED <<now, market, models, picks, syncs>>

\* The rows as they are now; a later promotion is not seen.
LoadModels ==
    /\ inference # Idle
    /\ inference.pc = "begun"
    /\ inference' = [inference EXCEPT !.pc = "loaded",
            !.loaded = Restrict(registry, {v \in Version : registry[v].status = "PRODUCTION"})]
    /\ UNCHANGED <<now, market, models, picks, syncs>>

\* Mutant: an expired promotion still serves.
Serves_Expired(v) == Trained[v].strict /\ inference.loaded[v].promotedAt <= inference.at

\* Same features as its dataset, and promoted less than 30 days before, not later.
Serves(v) ==
    /\ Trained[v].strict
    /\ inference.loaded[v].promotedAt \in (inference.at - ShelfLife + 1)..inference.at

Quality(m, books) ==
    Rounded(1200 + 20 * Min({30, Fixture[m].samples}) + 100 * Min({3, Cardinality(DOMAIN books)}), 30)
Confidence(v, m, books) == Min({Quality(m, books), 100 - Trained[v].ece})

\* Matches the model is asked about, with their market.
Candidates(v) ==
    {m \in Match :
        LET books == MarketAt(m, inference.at)
        IN  /\ Fixture[m].sport = Trained[v].sport
            /\ event[m].status = "SCHEDULED"
            /\ event[m].start \in (inference.at + 1)..(inference.at + Horizon - 1)
            /\ books # <<>>
            /\ Quality(m, books) >= MinQuality}

\* A selection is known by its name.
Selection(m, s) == <<s, IF Fixture[m].alike THEN "either" ELSE event[m].spelled>>

\* One prediction per match, model and selection, ever.
Fresh(v) ==
    {p \in [match : Candidates(v), version : {v}, side : Side] :
        \A q \in predictions :
            ~(q.match = p.match /\ q.version = v /\ q.selection = Selection(p.match, p.side))}

Prediction(p) ==
    [match |-> p.match, version |-> p.version, selection |-> Selection(p.match, p.side),
     at |-> inference.at]

IsValue(p) ==
    LET books == MarketAt(p.match, inference.at)
    IN  EvaluateValue(Trained[p.version].probability[p.match][p.side], books, p.side,
                      Best(books, p.side), Confidence(p.version, p.match, books),
                      Quality(p.match, books)) = "QUALIFIED_VALUE"

Recommendation(p) ==
    LET books == MarketAt(p.match, inference.at)
    IN  [match |-> p.match, version |-> p.version, side |-> p.side, at |-> inference.at,
         book |-> BestBook(books, p.side), price |-> Best(books, p.side),
         oddsAt |-> LatestOddsAt(p.match, inference.at)]

\* Everything is written in one transaction, at the end of the loop over the models.
CommitInference ==
    /\ inference # Idle
    /\ inference.pc = "loaded"
    /\ LET new == UNION {Fresh(v) : v \in {u \in DOMAIN inference.loaded : Serves(u)}}
       IN  /\ predictions' = predictions \cup {Prediction(p) : p \in new}
           /\ recommendations' = recommendations
                                    \cup {Recommendation(p) : p \in {q \in new : IsValue(q)}}
    /\ inference' = Idle
    /\ UNCHANGED <<now, market, models, syncs>>

\* An exception rolls the session back.
FailInference ==
    /\ inference # Idle
    /\ inference' = Idle
    /\ UNCHANGED <<now, market, models, picks, syncs>>

---------------------------------------------------------------------------
Next ==
    \/ Tick
    \/ \E m \in Match : \E start \in Fixture[m].starts :
            \/ \E board \in Board : SyncOdds(m, start, board)
            \/ \E status \in {"SCHEDULED", "CANCELLED"} : SyncFixture(m, start, status)
    \/ \E v \in Version : BeginPromotion(v)
    \/ CommitPromotion
    \/ BeginInference \/ LoadModels \/ CommitInference \/ FailInference

Spec == Init /\ [][Next]_vars

---------------------------------------------------------------------------
(* services/queries.py *)

\* recommendation_rows: every prediction of infer() is calibrated and real.
Shown == {r \in recommendations : event[r.match].start > now /\ r.oddsAt >= now - StaleAge}

---------------------------------------------------------------------------
(* Properties *)

\* At most one model of a sport is in production, whatever is promoted in which order, also
\* one that was retired before.
OneServing ==
    \A u, v \in Version :
        /\ registry[u].status = "PRODUCTION" /\ registry[v].status = "PRODUCTION"
        /\ Trained[u].sport = Trained[v].sport
        => u = v

\* Every prediction is by a model whose promotion passed every check less than 30 days
\* before it, and whose features are those that inference rebuilds, although promotions
\* are committed between the steps of an inference.
PredictedByPromoted ==
    \A p \in predictions :
        /\ Trained[p.version].strict
        /\ \E a \in attempts : a.ok /\ a.version = p.version
                              /\ a.at \in (p.at - ShelfLife + 1)..p.at

\* Every recommended price is in the archive, was quoted by its book within the half hour
\* before, and another book quoted the same selection in that time at no more than half as
\* much again: no recommendation rests on a price the market does not bear out.
Corroborated ==
    \A r \in recommendations :
        LET at(b) == {k \in DOMAIN odds : k.match = r.match /\ k.side = r.side /\ k.book = b
                                          /\ k.at \in (r.at - MaxAge)..r.at}
        IN  /\ \E k \in at(r.book) : odds[k].price = r.price
            /\ \E b \in Book \ {r.book} : \E k \in at(b) : 2 * r.price <= 3 * odds[k].price

\* A row that is VALID has the price that was delivered last for its key: no price is used
\* that the provider has contradicted and not repeated since.
ValidIsUndisputed ==
    \A k \in DOMAIN odds : odds[k].status = "VALID" => delivered[k] = odds[k].price

\* What a page shows is quoted: the price of a pick was observed at most the stale limit
\* and the market's half hour ago, although the page tests the time of another row.
ShownPriceRecent ==
    \A r \in Shown :
        \E k \in DOMAIN odds :
            /\ k.match = r.match /\ k.side = r.side /\ k.book = r.book
            /\ odds[k].price = r.price
            /\ k.at >= now - StaleAge - MaxAge

===========================================================================
