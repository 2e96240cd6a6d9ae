# Formal models of sports-value-engine

TLA+ models of the backend in `src/backend/app`: how analysis runs are queued, executed
and recovered by several processes over PostgreSQL advisory locks, what one run asks of its
providers and leaves behind when parts of it fail, how a historical backfill resumes, how
listings of several providers become one set of events, how prices and promoted models
become picks, how picks are settled, and what a training sample may know. TLC checks small
instances; TLAPS proves every safety property that the runs check for all values of the
constants: of the job machinery for any number of processes, of a run for any quotas and
answers, of the backfill for any windows and pages, of ingestion for any matches, names and
ids, of settlement for every line, score, stake and price, of picks whatever is quoted and
promoted meanwhile, and of datasets for any archive of results. Liveness is model-checked
only.

## 1. The system

| Component | Code (`src/backend/app/`) | State | Operations |
|---|---|---|---|
| Advisory locks | `services/job_lock.py` | PostgreSQL session locks `worker-leader`, `analysis-enqueue`, `analysis-execute` | `job_lock` (try), `waiting_job_lock` (retry) |
| Run queue and execution | `services/analysis.py`, `api/routes/system.py`, `jobs/common.py`, `scheduler/jobs.py` | `analysis_runs`, `analysis_run_steps`, `provider_statuses` | `create_analysis_run`, `run_analysis` |
| Worker process | `jobs/worker.py` | leadership, its APScheduler, heartbeat row | `serve`: stand by, recover, schedule, poll, shut down |
| Historical backfill | `research/backfill.py`, `research/historical_pages.py`, `research/store.py` | `research_artifacts` of kinds `backfill_page`, `backfill_attempt`, `history` | `backfill`, `persist_result`, `artifact` |
| Settlement | `services/settlement.py`, `analytics/bankroll` | `bet_results`, `bankroll_history`, closing odds | `settle_market`, `settle_finished_events`, `capture_closing_odds` |
| Ingestion, entities | `services/ingestion.py`, `services/entities.py` | `events`, `odds_snapshots`, `provider_entities`, aliases | `upsert_event`, `persist_odds_batch`, `resolve_participant` |
| Provider syncs | `services/{football,sportmonks,tennis}_sync.py` | statistics, injuries, lineups | per-provider normalisation |
| Provider clients | `providers/` | quota counters, last status | requests with retries and quota floor |
| Value engine | `analytics/value`, `analytics/combinations` | none | price validation, freshness, `evaluate_value` |
| Models in production | `research/production.py`, `research/validation.py`, `scripts/research.py` | `model_registry`, `model_predictions`, `recommendations` | train, validate, promote, `infer` |
| Point-in-time features | `research/features.py`, `context.py`, `availability.py` | none (pure) | `build_sample` and what it may look at |
| Walk-forward | `backtesting/walk_forward.py` | none | folds |
| Research reports | `research/*_v2.py`, `diagnostics.py`, `markets.py` | artifacts, append-only | reconstruct, audit |
| Status and health | `services/data_mode.py`, `services/cloud_health.py` | `provider_statuses` | start-up reset, health report |
| Read API, frontend | `services/queries.py`, `api/routes`, `src/frontend` | none | queries and pages |

How they interact. The API inserts a row into `analysis_runs` and answers; in production
nothing else happens in the web process. A worker process, of which a rolling redeploy
runs two, waits for `worker-leader`, fails rows abandoned by its predecessor, starts a
scheduler whose jobs create and execute runs themselves, and polls for `QUEUED` rows.
Cron services (`python -m app.jobs.<job>`) create and execute runs in a process of their
own. Every creation is under `analysis-enqueue`, every execution, the recovery and the
backfill are under `analysis-execute`. A run calls the three provider syncs, settlement
and inference, each in its own transactions. Backfills, training and promotion are
commands an operator runs.

What is hard here is listed with its line in `PROJECT.json` under `hazards`: races
between enqueuers and executors, handover between worker processes, abandoned rows,
pages half written when a backfill dies, statuses that no longer agree with the data.
What makes each component correct:

* *queue*: one active run; each row starts at most once and ends once; nobody but its
  executor ends a run that is being executed; no lock is lost; a queued row ends.
* *pipeline*: `COMPLETED` hides no failure; counts describe what was committed; a failed
  provider is not shown online; the run always gets to an end.
* *backfill*: page results, checkpoint and attempt record are one; a resumed walk skips
  nothing; first observations are never rewritten; every attempt is counted.
* *ingestion*: two matches never share an event; providers that agree do; a result, once
  known, stays; unique constraints are never met by a sync; delays do no lasting harm.
* *settlement*: the two sides of a market mirror each other; a quarter line pays what two
  half bets pay; scoring never hurts the side that scores; bets are paid on regulation time
  whatever a provider reports when; a batch is booked wholly and once.
* *provider requests*: an extra that is refused costs no fixtures; lost answers, retries and
  answers without a header take the odds quota only so far below its floor.
* *picks*: one model of a sport serves; every prediction is by a model whose promotion was
  recorded and has not expired; a recommended price is one that other books bear out and the
  provider has not contradicted; what a page shows was quoted recently.
* *point in time*: the evidence of a match is fixed at its kickoff, however late results
  arrive or are corrected; training, calibration, test and folds share no match and split no
  tie, and labels are known before they are used against; a football sample can be rebuilt
  from any later archive, and a rating does not depend on the sample it is computed for.

## 2. Modules

| Module | What it is |
|---|---|
| `RunLifecycle` | the abstract promise about run rows: no locks, no processes |
| `AnalysisJobs` | the job machinery: tasks, locks, signals, crashes; refines `RunLifecycle` |
| `AnalysisJobsProofs` | its theorems |
| `MCAnalysisJobs` | fault budgets and host map for TLC |
| `ProviderSync` | the requests, retries, refusals, quota and commits inside one sync |
| `RunPipeline` | one execution of `_run_analysis`, step by step; extends `ProviderSync` |
| `RunPipelineProofs` | theorems of both |
| `Backfill` | the resumable backfill |
| `BackfillProofs` | its theorems |
| `MCBackfill` | page layouts for TLC |
| `Ingestion` | `upsert_event` and `resolve_participant` for providers that lag and disagree |
| `IngestionProofs` | its theorems |
| `MCIngestion` | matches, ids, names and keys of the providers for TLC |
| `SettlementRules` | the pure rules: line components, results, profit |
| `SettlementLaws` | every bet on one line while the score of its match moves |
| `Settlement` | the same match as providers report it, and the batch that settles its picks; extends `SettlementLaws` |
| `SettlementProofs` | theorems of both |
| `MCSettlement` | lines and picks for TLC |
| `PriceRules` | the pure rules: outliers, margin, consensus, value |
| `Picks` | odds archive, promotion, inference and what is shown; extends `PriceRules` |
| `PicksProofs` | its theorems |
| `MCPicks` | a match, books, models and answers for TLC |
| `PointInTime` | the archive of results, the datasets built from it, their parts and folds |
| `PointInTimeProofs` | its theorems |
| `Reconstruction` | football datasets from results as facts, and their audit; extends `PointInTime` |
| `ReconstructionProofs` | its theorems |
| `MCPointInTime` | kickoffs, teams and bounds for TLC |

### AnalysisJobs

`status` is `AnalysisRun.status` of every row; `leader`, `enqueue`, `execute` are the
holders of the three locks; `pc` and `target` place each thread of control, a *task*:

* `Worker`: `serve()`. `standby` (waiting for the lock), `recover`/`sweep`/`swept` (the
  recovery block), `poll` (the loop), `unwind`/`resign` (the `finally` blocks, inside
  out: first `analysis-execute` if held, then the scheduler, then `worker-leader`).
* `Cron`: a scheduler job, living in the process `Host[c]`.
* `OneShot`, `Api`, `Backfill`: processes or requests of their own.

A step is a piece of code between two awaits at which another process can be seen to
interfere: each lock attempt, SELECT, commit and unlock is one action. A process that
dies (`Crash`) leaves its locks to `Orphan` until PostgreSQL drops the session
(`DropSession`). SIGTERM is `Terminate`, then the unwinding; `scheduler.shutdown(wait=False)`
turns the jobs under way into `cancelled` ones, each of which unlocks in its own time
(`UnwindCron`), possibly after the next leader has started. A database error outside the
pipeline's `try` blocks is `RaiseInRun`: the row stays QUEUED or RUNNING; one in
`create_analysis_run` is `RaiseInQueue`: the caller unlocks and runs nothing, though its
row may exist.

`Lifecycle == INSTANCE RunLifecycle WITH executing <- Executing` is the refinement: the
pairs of task and row inside a pipeline are the abstract `executing`.

### ProviderSync and RunPipeline

`plan` is the list of requests and commits a sync has before it: those that depend on an
answer (a target's odds, a fixture's extras) are put there by the answer (`Follows`), with
one operator for each function of the sync modules. A request is answered (`Answered`),
repeated (`Retry`), tolerated (`Tolerated`) or raised (`Refused`), by the codes each client
retries or is done with; `quota` is what the odds provider really counts, `known` what the
client has of it: the header of its last answer, or nothing when that had none to read
(`Told`), and then the floor is not looked at. `silent`, a history variable, counts the paid
answers since the one that told. Commits on the way, of which Sportmonks has two before the last, are
elements of the plan. The pages of one listing are one request.

`RunPipeline` is one run: `step` and `provider` are the rows other people look at, `errors`
who added to `run.errors`, `saved`/`stored` what was really committed, `predicted`/`reported`
the counts kept in memory and in the run. Each commit is an action. Refusals reach the
handler of their sync (`RequestFails`); other errors inside a `try` lead to its handler
(`SyncFails`, `SettlementFails`, `InferenceFails`), errors in a handler or before it escape
to the loop (`SyncEscapes`), all others stop the pipeline (`Stop`), after which only the next
leader's sweep touches the row (`Recover`). A failing database call is taken to have had no
effect. Beside the run an API process may start: `ReadStatus` and `WriteStatus` are
`initialize_provider_statuses`, which reads `last_success` of a row and later commits OFFLINE,
without any lock. One provider's row is followed, one that has credentials and has not
delivered before; rows without credentials are written to what they are.

### Backfill

`checkpoint`, `attempts`, `outcomes` and `firstSeen` are durable; `pc`, `cursor`,
`completed`, `todo`, `pending` belong to the process. A page is claimed in one commit,
fetched, its rows persisted in savepoints, and completed in one commit. `Variant` are
commands with checkpoint keys of their own over the same fixtures (`v1:` and `v2:` keys).

### Ingestion

`real` is where each match stands in its `Plan` (the times it is moved through, over or
not), `view` what each provider lists of it, which lags behind and, for `the_odds_api`,
never has a result. `db` is the database: participant rows (`entities`), their
`mapped` provider ids and `aliases`, competitions (`comps`), `events` with their canonical
`key` and first origin `by`, and `eventOf`, the event mapping of every provider id. One
`Upsert` is one step: syncs run one at a time under `analysis-execute`, and a failed one
rolls its transaction back. The operators follow the code in its order: `CompOf`
(`_competition`), `Resolve` (`resolve_participant`), `Near` and `SameEvent` (the two ways
an unmapped listing finds an event), `NewKey` (the salted key), `Write`.

Names are numbers in alphabetical order, since only tennis keys compare them; times are
half minutes, since the key rounds to the minute and the window does not. `Plan` and the
providers' dictionaries are constants, with four assumptions: times are naturals, two
clubs do not meet twice within ten minutes in one competition, a normalized name means the
same to every provider, and a provider has one team of a sport for an id. Ids mean nothing
across providers.

### PriceRules and Picks

`odds` is `odds_snapshots` by its key; `delivered`, a history variable, the price delivered
last for a key. `SyncOdds` is `persist_odds_batch` for one answer (`Board`), with the
validation of its prices (`Verdict`) and the SUSPECT mark of a changed one (`Stored`);
`SyncFixture` is the other provider's upsert of the same event. `promote` is two steps,
because its time stamp is taken before the session commits (`BeginPromotion`,
`CommitPromotion`), and `infer()` three: its clock, the models it loads, and the commit of
all predictions and recommendations. Syncs and inference exclude each other by
`analysis-execute` (`Syncing`); promotions hold another lock and come in between. `MarketAt`,
`Candidates`, `IsValue` follow the code's conditions in its order; names of selections matter
only in whether the two providers spell a match alike.

Prices are multiples of `1/Unit`, probabilities and scores whole per cent, and
medians, quartiles, margins and consensus are compared by cross-multiplication, so that the
rules are exact; `PriceRules` says at each definition how. `Checks` takes the metrics of a
model from `Trained` and leaves open whether it beats the market.

### SettlementRules, SettlementLaws and Settlement

Lines are whole fortieths of a point, so that quarter lines and lines off the quarter grid,
including the ties of `round()`, are integers; odds are hundredths; profits are doubled, so
that half a stake is one too. `SettlementRules` holds the functions of
`services/settlement.py` and `settle_profit`, and no state. `SettlementLaws` puts the four
bets on one line beside a match whose score moves, which gives the laws their subject: the
`away` bet at the opposite handicap, and the same bet one score later.

`Settlement` plays that match: regulation time, extra time and penalties, reported at any
moment by one of three clients (`ApiFootballEvent`, `SportmonksEvent`, `TennisEvent` are the
normalisations, field by field as far as result and status go) and respelled by
`the_odds_api`. Picks carry the names of the odds provider, since `market_at` sees a match
only while the event has them; the event has those of whoever listed it last (`spelled`), the
winner that of the provider of fixtures. `alike` says which sides both spell alike. `Named`
is what `settle_market` finds of a pick's name in the event, `Winner` whose name in a pick is
the winner's. `BeginBatch` opens the session of `settle_finished_events`, `SettleNext` is
one round of its loop, `CommitBatch` and `FailBatch` end it; a pick that cannot be settled
(`Settleable`) leaves only `FailBatch`. The pipeline passes no stake and then nothing is
settled: the batch is modelled for callers that do.

### PointInTime

`results` and `snapshots` are the committed rows of kind `history` and of the statistics
tables, `written` those of the one open transaction: syncs and backfills exclude each other,
which `OneExecution` of `AnalysisJobs` shows. `Observe` is `persist_result`: it refuses a
match that has not begun and stamps `available_at` with the clock; a changed payload, which
may give another kickoff, is a new row. Nothing is built in a step: the properties speak of
`Dataset(results, snapshots)`, the dataset that `build_dataset` would return at that moment,
and of the parts `train_baseline` and `validate` cut it into. The feature values are
arithmetic on the eligible rows, so the rows stand for them. Samples are ordered by kickoff
and event id; their index is the `Rank`. The clock is one clock, and fine enough that two
versions of a result do not get one stamp. `Folds` is `walk_forward_splits` over the
kickoffs of a dataset.

### Reconstruction

The football datasets over the same archive. `CanonicalFacts` picks one version of each
match, with the time it counts as known (`Bound`): a day after kickoff, or when it was
observed if that is earlier. A match may thus get a new past when a backfill archives old
results; a sample carries the facts it used (`history`), and `Reproduced` is the audit of
`football_audit_v2.py`, which rebuilds it from the archive of today. `EloContext` is the fold
with pending deltas; a rating is represented by the set of matches applied to it, a form by
its window of matches. The fields versions must agree on are represented by the kickoff. That
a league without goals has no baseline is arithmetic and left out.

## 3. Runs

| Run | Instance | What it shows |
|---|---|---|
| `jobs_safety` | 2 workers, 1 scheduler job, 1 API request that executes (not production), 1 backfill, 2 rows; 1 crash, 1 SIGTERM | `IInv`, `OneActiveRun`, `OneExecution`, `OnlyExecutorEndsRun`, refinement of `RunLifecycle` through a handover |
| `jobs_handover` | 2 queue-only workers, 2 API requests; 2 SIGTERMs | `QueuedRunsEnd` over redeploys |
| `jobs_locks` | 1 worker with a job, 1 one-shot, 1 backfill; 1 of each fault | `LocksComeBack`; until a fault happens `UndisturbedRunsEnd`, also when the creator found the lock busy |
| `jobs_recovery` | 1 worker, 1 API request, 1 backfill; 1 SIGTERM | *violated*: `RestartedLeaderRecovers`, see Findings |
| `pipeline` | 3 job types, every set of configured providers, 2 football providers, up to 2 targets and 2 fixtures, every way a request can end, 1 other error or stop, an API process that starts | `CompletedIsClean`, `PredictionsReported`, `FailureShown`, `RefusalsCostNothing`, `FloorKept`, `PipelineEnds` |
| `backfill` | 2 commands, 6 pages, 4 fixtures, each command 6 times, 2 faults | `AtomicPages`, `NothingSkipped`, `FirstObservationKept`, `EverythingArchived` |
| `ingestion_identity` | 2 fixture providers that give the same ids to other clubs, a club that is renamed, 2 matches of the same clubs at nearly one time | `NoFalseMerge`, `KeysUnique`, `TeamsApart` |
| `ingestion_matching` | 2 fixture providers and `the_odds_api`; a match moved by exactly ten minutes, then further | `FinalStays`, `AgreeingListingsJoin`, `EventuallyCurrent` |
| `ingestion_window` | a fixture provider and `the_odds_api`, the same match and a tennis match listed with sides swapped | *violated*: `MatchedWithinTenMinutes`, see Findings |
| `picks` | a match to come and a past one, 3 books, 3 trained versions of which one has other features; 4 answers of the odds provider, 2 syncs, 2 promotions, clock to 4 | `OneServing`, `PredictedByPromoted`, `Corroborated`, `ValidIsUndisputed`, `ShownPriceRecent` |
| `settlement` | 21 lines, of which 11 a fortieth apart, scores up to 3 : 3 with a goal a side in extra time, 3 clients, 2 stakes, 3 prices, 4 picks, none, one or both names spelled alike | `SidesMirror`, `SplitStake`, `ScoringHelps`, `RegulationPaid`, `BatchesBooked` |
| `point_in_time` | 4 matches, 2 of them with a corrected result, 1 of these with a corrected kickoff that may tie with another; 2 seasons, context of 2 providers for 1 match; clock to 6 | `PartsApart`, `LabelsKnown`, `FoldsApart`, `PastIsFrozen`, `AuditPasses`, `RatingsAgree` |

Bounds. Two rows are enough for a second active row, and a third adds no new kind of
neighbour. Two workers are a redeploy. One fault of each kind per run covers a crash during
the unwinding of a SIGTERM; the proofs have no bound on any of these. A one-shot process
does what an API request outside production does. In the pipeline the refusals of providers
are not counted: one error more covers an error in the handling of a refusal, before and
after each commit. The
quota starts one credit above a floor of six, so that the first target ends at it or,
with retries, below it, and only an answer without a header lets the second begin there; two
targets at three attempts cost just the floor. `sync_events` and `sync_statistics` take the same path as
`settle_events` in the model and are left out. For the backfill, six calls of a command are
what four pages at one page per call and two faults need, and calls are counted per command
so that neither uses up the other's. Deadlock checking is off in `RunPipeline` and
`Backfill`, where the process ends and, with its budget of calls used up, nothing is left to
happen, in `Picks` and `PointInTime`, whose clock stops, in `Ingestion`, and in `Settlement`,
where a match that is over, reported and booked leaves nothing to happen; the job machinery
is checked for deadlock. Two matches and two or three providers
are what a wrong merge or a missed one needs: one row to find and one listing that should,
or should not, find it. A line one whole point away from another, with the score moved
along, has the same result; the fortieths from 1 to 1.25 hold every rounding case of a
quarter, the others every quarter and both signs, and scores up to 3 reach both sides of
each line. For picks, three books are the fewest of which one can be off the market, two
promotions the fewest that replace one another, `InPlay` (how long a match that has begun is
listed) 1, and the clock lets a promotion and a price
expire; the proofs have no bound on these. Four matches leave three samples, one for each
part, after the first that has no history; `MinSamples` is 3 instead of 30 and `MinPart` 0
instead of 10, so that small parts count, also when the tie empties one of them. `Duration`
3 is longer than the distance of two kickoffs, so that matches overlap.

Fairness. A process that is up goes on (`WF` on each task's own steps, on the worker's
loop and on cancelled jobs): asyncio runs what is ready, every provider request has a
timeout and a bounded number of retries, and the platform restarts workers. PostgreSQL
eventually drops dead sessions (TCP keep-alive). Nobody is obliged to submit a job, start
a backfill, or win a try-lock. For the backfill `SF` on `Start` is an operator who
repeats the command. For `Ingestion`, providers catch up with what is true and every sync
reads what they list (`WF` on `Publish` and `Upsert`; the scheduler repeats its jobs).
Faults, reschedules and final whistles are never fair.

## 4. Theorems

Each proof module names its inductive invariant `IInv` (`BatchInv` and `BookInv` for the
batch of `Settlement`), shows that the initial states and every action keep it, and draws
the properties from it.

`AnalysisJobsProofs` proves, for any sets of workers, jobs, requests, backfills and rows
and any number of faults, from the constants' assumptions alone (the kinds of tasks are
disjoint, each job has one host, the values for "free", "orphan" and "no run" differ
from tasks and rows):

* `Invariant`: `Spec => []IInv`. `OneActiveRun` is not inductive: that no second row is
  active when `Insert` happens depends on what `CheckActive` saw (`InsertClear`), and
  that this still holds on nobody else being between check and insert (`QueueLocked`).
  `OneExecution` needs `ExecuteLocked`, and the scheduler jobs of an old leader are kept
  out of its way by `LeaderOnly` with `ResignedQuietly`. `IInv` is the conjunction.
* `TypeCorrect`, `SingleActiveRun`, `ExclusiveExecution`, `OnlyLeaderServes` follow.
* `Refinement`: `Spec => ImplementsLifecycle`, action by action, using that `Executing`
  is a singleton or empty (`ExecutingOne`, `ExecutingStep`).
* `ExecutorOwnsRow`: the action property `OnlyExecutorEndsRun`.

`RunPipelineProofs` proves, for any job types, limits of targets and fixtures, quotas, prices
and numbers of errors, the safety properties of the run `pipeline`. What a run tells of a
provider at its end was decided in the loop over the syncs, and what a sync has stored when
a request fails depends on where it is in its plan of requests. `IInv` says both:

* `Requests`: the plan of the current sync has the shape its client gives it, with what that
  implies of its commits (`Fits`). A request for odds is begun above the floor as the client
  knows it; `Charged` says how far the answers without a header since then (`Lost`), and the
  attempts of the request under way, have taken the quota. A plan is a sequence of any length,
  so the lemmas `Ends...` say what a head, a tail and an insertion do to one that ends with its
  commit.
* `Syncs`: what is known of the provider at work (`Working`), and of each before and after it
  (`Synced`), which a step for one provider does not disturb for another (`SyncMoves`).
* `Closing`: what settlement, inference and the report leave of each other.
* `SpecCompletedIsClean`, `SpecPredictionsReported`, `SpecFailureShown`,
  `SpecRefusalsCostNothing` and `SpecFloorKept` follow; the first two from `Syncs` and
  `Closing`, `FailureShown` and `RefusalsCostNothing` are conjuncts. `SpecFloorKept` is the
  bound the code gives: after `n` paid answers without a header, three attempts for each of
  them and for the target under way below the floor, and none before an answer has told the
  quota.

`BackfillProofs` proves, for any commands, layouts of pages, calls and faults, `SpecAtomicPages`,
`SpecNothingSkipped` and `SpecFirstObservationKept`. `NothingSkipped` speaks of the cursor,
which is lost with the process, so the invariant adds what the open transaction holds
(`Walking`): its page is not `COMPLETED`, and its rows are the final ones of those looked at.
That the walk passes over completed pages only is a fact of the order of pages (`WalkOrder`,
`AdvanceWalks`), whatever the lengths of windows.

`IngestionProofs` proves, for any matches, providers, names, keys, ids and reschedules that
keep the four assumptions:

* `Invariance`: rows never mean two things. A participant row is of one team, a competition
  row of one competition (`MappedRight`, `AliasedRight`, `CompsRight`), an event is of the
  match of the listing it was made of (`EventsRight`), and a salted key carries that origin
  (`KeysRight`). None of these is inductive alone: an id is resolved to the row an alias led
  to, an event found by the rows of its sides.
* `SpecNoFalseMerge`, `SpecKeysUnique`, `SpecTeamsApart`, `SpecFinalStays`. The lemma behind
  the first is `OneFixture`: rows, competition and a time within ten minutes determine the
  match, and two times of one minute are that near.
* `SpecAgreeingListingsJoin`: `Agreement => (Spec => AgreeingListingsJoin)`. What two
  providers need to agree on is stated as `Agreement`: one name for a team and for a
  competition, and the home side first. The run's instance keeps it; without it the code does
  make two events, as the names of a renamed club show. Then rows are unique by name
  (`Unique`), events are in the order of the plan (`InOrder`), and every event near the
  listing is one of its match (`NearMatch`), so the only one there is.

`SettlementProofs` proves the laws for every line in `Int`, every score, stake and price:

* `Mirror`, `HalfStakes` and `MonotoneInScore`, which the run `settlement` checks on its
  instance, and `NoQuarterPush` and `SingleWinner`, which say where the reduction leads. The
  argument is one reduction. The components of a split line are neighbouring multiples of
  half a point (`Components`) and whole scores are multiples of a point, so a bet on a split
  line depends on one integer only, its distance in half points (`Grading`, `LineForm`,
  `BetForms`). Rounding to even is odd (`RoundingMirror`, `SplitMirror`), which gives the
  mirror laws; neighbouring components are never won and lost at once, which gives
  `HalfStakes`; monotonicity is that of the graded integer. `BatchPlaysByTheLaws` carries
  them over to `Settlement`: its batch is a stutter of the laws' specification.
* `SpecRegulationPaid`, for any picks, extra time and each of the three clients. `BatchInv`:
  a FINAL event has the score after regulation time or, from the tennis provider, the winner
  (`Reported`), so what is settled is what is owed (`Settled`), in an open batch too
  (`Session`), whoever spelled the event last. The exception, which the property names, is
  what `settle_market` makes of names: a pick on a player whose name the two providers spell
  differently is LOSS, also if that player won (`PaysNamed`).
* `SpecBatchesBooked`, for any finite set of picks. `BookInv`: an open batch has booked what
  its picks pay so far. That a pick adds its own profit to a sum over all of them is
  `SumMoves`; the recursion behind `SumFunction` is shown to have a solution, size by size
  (`SumsUnfold`), and unfolded along it (`Growing`).

`PointInTimeProofs` proves, for any set of numbered matches, any kickoffs, clock, numbers of
versions and any minimums (`MinimumAssumption` asks only that they are naturals):

* `ArchiveInvariant`: `Spec => []IInv`. The conjunct that carries the others is that no row
  of the open transaction is stamped before a committed one. It is inductive only with the
  bound of all stamps by the clock.
* `PastAlwaysFrozen`: the match of a sample was observed after its kickoff, rows committed
  later are stamped later still (`PastRows`), so none is before the cutoff of the sample.
* `PartsAlwaysApart` and `LabelsAlwaysKnown`: both from `LabelsPrecede`, which compares the
  two borders (`PartsInOrder`); that kickoff precedes label then keeps a match out of two
  parts, since it has one sample (`SampleFields`).
* `FoldsAlwaysApart`: the rank is a bijection onto the places of the line (`RankFollows`,
  `RankTaken`), a border is a free place, which no tie straddles (`BorderFree`,
  `FreeSeparates`), and the next one is further on, so the recursion over borders has a
  solution (`FoldsFollow`) and its folds share the samples among them (`FoldsShare`).

`PicksProofs` proves, for any matches, books, versions, answers and bounds:

* `Invariance`: `Spec => []IInv`. A prediction is by a model that was loaded, so the
  invariant says of loaded rows, and of the registry they are loaded from, that a passed
  promotion attempt with that time stamp is recorded (`LoadedRecorded`, `RegistryRecorded`);
  that one model serves needs no more than itself and the types of promotion and registry.
  `ValidIsUndisputed` needs `SameKeys`.
* `SpecOneServing`, `SpecPredictedByPromoted`, `SpecValidIsUndisputed` follow.
* `SpecCorroborated` and `SpecShownPriceRecent`. A market has a median, since finitely many
  prices have a k-th smallest (`NthIsValue`); prices that agree lie within a fifth of one
  centre (`NearCentre`), so none is more than half as much again as another
  (`AgreeingWithinHalf`). Rows stay, with their price (`SyncKeepsPrices`), so what bore a
  price out is in the archive for ever, and the time of a pick bounds that of its rows. The
  constants are assumed to have finitely many books and natural prices and ages.

`ReconstructionProofs` proves, over the invariant of `PointInTime`:

* `AuditAlwaysPasses`: stamps grow in commit order and the bound of a result grows with its
  stamp (`BoundGrows`), so no version committed later is canonical in place of an earlier
  one (`FactStays`); context rows are never removed (`ContextReproduced`).
* `RatingsAlwaysAgree`: along the line of prior matches, each has been met with the ratings
  of exactly the matches it may look at itself (`MeetKeeps`), which are the same for every
  later target; the recursion over the line has a solution (`EloFollows`).

What a recursive definition computes is not given by induction theorems, which take an
operator as parameter, but by a least counterexample: the set of sizes, ranks or parts for
which a claim holds contains the next with each (`Least`, `Counting`, `Growing`).

Liveness (`QueuedRunsEnd`, `UndisturbedRunsEnd`, `LocksComeBack`, `PipelineEnds`,
`EverythingArchived`, `EventuallyCurrent`) is model-checked only: fairness and ENABLED are
outside what the provers do. So are the two properties the code violates.

## 5. Findings

1. *A restarted leader does not always recover* (`jobs_recovery`). `docs/DEPLOYMENT.md:111`
   promises that a restarted leader marks abandoned RUNNING jobs failed. `serve()` tries
   `analysis-execute` once; if a backfill has just taken it, recovery is skipped for the
   whole life of that leader. The row stays RUNNING and every later `create_analysis_run`
   answers with it.
2. *A listing can join an event far from it in time* (`ingestion_window`).
   `docs/SPORTMONKS_INGESTION.md:21-22` allows at most ten minutes between a listing and the
   event it is matched to. The canonical key of an event keeps its first time when the match
   is moved; a listing that still shows the old time collides with that key, is taken for
   the same event and, being a provider's first listing, moves the event back.

Other things the models and their making show, which no document contradicts or which are a
matter of judgement:

* *Ingestion.* Two providers that list a tennis match with sides swapped keep two events,
  because the sorted key that makes them collide is followed by a comparison of sides. With
  two providers of results the last writer wins until both are current.
* *Backfill.* The bound of 1000 pages (`backfill.py:343`) is checked after a fetched page
  only: a command that raised on it, run again, skips the completed pages without the check
  and fetches page 1001.
* *Start of an API process.* `initialize_provider_statuses` can overwrite a status ONLINE
  that a running sync has just reported with OFFLINE; a provider that only ever answered
  EMPTY has no `last_success` and is shown OFFLINE after each start.
* *Odds requests.* Retries are not held to the quota floor; a 200 whose header is missing or
  no number switches it off until an answer has one again, so that `FloorKept` bounds the
  charge by the number of such answers; one
  target that fails after its retries discards the odds already paid for. Sportmonks gives up
  on a 429 at once, `the_odds_api` tries again for any 4xx.
* *API-Football* has one transaction: an unexpected answer to injuries or lineups takes the
  fixtures with it. `RefusalsCostNothing` holds for it in that sense, that nothing is left
  half stored.
* *Settlement.* Bets are decided by comparing names of different providers. When the
  odds provider lists a tennis match again after its end, `upsert_event` respells the
  sides and not the winner (`ingestion.py:193-202`): the selection is then a name of the
  event (`settlement.py:71`) and not the winner's (line 74), and a pick on the winner is
  booked as LOSS, as is one on the loser. `RegulationPaid` names this exception. Names
  that differ in accents or punctuation have one canonical key, so such events meet.
  Only a caller that passes a stake books anything, which the pipeline does not. A match
  that API-Football reports as over after extra time without a regulation score cannot
  be settled, and neither can any batch it is in; nor one over in regulation time whose
  `fulltime` object holds nulls, which is taken for a score. A pick on a side that its
  fixtures' provider spells differently and listed last stops its batch, until the odds
  provider lists the match again. Sportmonks matches that went to extra time are never
  FINAL, so their picks are never settled. A result is not revisited when a score is
  corrected.
* *Picks.* A football model trained on a reconstructed dataset has features that `infer()`
  does not rebuild: promoting it retires the model that serves and serves none. A match that
  its fixtures' provider respells after its odds has no market until the odds are synced
  again. A SUSPECT mark goes when the first price is delivered again. The age of a shown pick
  is that of the latest row of its market, of a rejected or incomplete book too;
  `ShownPriceRecent` gives the bound that remains.
* *Datasets.* A football label counts as known a day after kickoff, or when observed if
  earlier. `walk_forward_splits`, which the tests call, looks at kickoffs and not at labels.

## 6. Not modelled

The SQLite stand-in for the locks and the scheduler inside a development API process; a
lock session lost while its holder lives (nothing in the code notices it, and the proofs
assume it away); the heartbeat, which no decision reads; demo events, venue, round and other
columns an upsert only copies; the payload fields of statistics, injuries and lineups;
`sync_tennis_odds` and combinations, which nothing in the pipeline calls; the research
commands other than promote, each of which appends one artifact; the text of logs and errors;
the numerics of the probability models, of the metrics and of the feature values; queries
other than `recommendation_rows`; the health report; the frontend.

## 7. Plan

1. The other commands of `scripts/research.py` (train, validate, their artifacts and locks)
   in front of promotion, with the proofs of `Picks` extended to them.
2. A specification of the whole that composes `AnalysisJobs` with `RunPipeline`, so that the
   pipeline's rows are read by the tasks that wait for them.
