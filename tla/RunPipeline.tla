---------------------------- MODULE RunPipeline ----------------------------
(***************************************************************************)
(* One execution of _run_analysis: three provider syncs (each as in        *)
(* ProviderSync), settlement,                                              *)
(* inference, three reporting steps and the final status, each with its    *)
(* own commits.  Most of the pipeline runs inside try blocks that turn an  *)
(* error into an entry of run.errors; an error anywhere else, a SIGTERM or *)
(* the death of the process stops it half way (Stop), and the next leader  *)
(* fails the row without looking at its steps (Recover).                   *)
(*                                                                         *)
(* An error of a database call here means that the call had no effect.     *)
(***************************************************************************)
EXTENDS ProviderSync, FiniteSets

CONSTANTS
    Jobs,       \* job types considered
    Football,   \* football providers considered
    MaxErrors   \* bound on errors and stops

Provider == {"odds", "football", "tennis"}
SyncOrder == [i \in 1..3 |-> CASE i = 1 -> "odds" [] i = 2 -> "football" [] i = 3 -> "tennis"]
JobType == {"daily_analysis", "sync_odds", "sync_events", "sync_statistics", "settle_events"}

\* Steps: one per provider, then the fixed ones.
Reporting == {"FEATURE_ENGINEERING", "MODEL_VALIDATION", "VALUE_ELIGIBILITY"}
Step == Provider \cup {"SETTLEMENT", "PERSIST_OUTPUT"} \cup Reporting
Closed == {"COMPLETED", "SKIPPED", "FAILED"}

ASSUME JobAssumption ==
    /\ Jobs \subseteq JobType
    /\ Football \subseteq {"sportmonks", "api_football"}
    /\ MaxErrors \in Nat

VARIABLES
    job, configured,    \* job_type of the run, providers with credentials
    football,           \* settings.football_provider
    run,                \* AnalysisRun.status
    step,               \* AnalysisRunStep.status
    provider,           \* ProviderStatus.status
    succeeded,          \* providers with a ProviderStatus.last_success
    boot,               \* the provider an API process that starts is at, or "no" or "done"
    broken,             \* providers whose sync failed for no answer of theirs
    errors,             \* who added an entry to run.errors
    predicted,          \* infer() made predictions (the local variable)
    stored,             \* predictions of this run are committed
    reported,           \* run.predictions_created > 0
    at,                 \* position in SyncOrder
    pc, faults

vars == <<job, configured, football, run, step, provider, succeeded, boot, syncVars, broken,
          errors, predicted, stored, reported, at, pc, faults>>
statuses == <<provider, succeeded, boot>>
inputs == <<job, configured, football>>
syncing == <<syncVars, broken>>
output == <<predicted, stored, reported>>

Current == SyncOrder[at]
Client == CASE Current = "odds" -> "the_odds_api"
            [] Current = "football" -> football
            [] OTHER -> "api_tennis"

\* What a provider's complete sync has committed.
Data == [odds |-> {"odds"}, football |-> {"fixtures", "details"}, tennis |-> {"tennis"}]

\* The providers a job type syncs.
Scope(j) ==
    CASE j = "daily_analysis" -> Provider
      [] j = "sync_odds" -> {"odds"}
      [] OTHER -> {"football", "tennis"}

Init ==
    /\ job \in Jobs
    /\ configured \in SUBSET Provider
    /\ run = "RUNNING"
    /\ step = [s \in Step |-> "QUEUED"]
    /\ \E s \in {"NOT_CONFIGURED", "ONLINE"} :
            /\ provider = [p \in Provider |-> s]
            /\ succeeded = IF s = "ONLINE" THEN Provider ELSE {}
    /\ boot = "no"
    /\ football \in Football
    /\ SyncInit
    /\ broken = {}
    /\ errors = {}
    /\ predicted = FALSE
    /\ stored = FALSE
    /\ reported = FALSE
    /\ at = 1
    /\ pc = "enter"
    /\ faults = 0

Fault == faults < MaxErrors /\ faults' = faults + 1

SetStep(s, status) == step' = [step EXCEPT ![s] = status]

\* The loop over the three syncs.
NextSync ==
    IF at < 3 THEN at' = at + 1 /\ pc' = "enter" ELSE pc' = "settle" /\ UNCHANGED at

---------------------------------------------------------------------------
(* _sync_odds, _sync_football, _sync_tennis *)

\* "Not part of this job".
SkipProvider ==
    /\ pc = "enter"
    /\ Current \notin Scope(job)
    /\ SetStep(Current, "SKIPPED")
    /\ NextSync
    /\ UNCHANGED <<inputs, run, statuses, syncing, errors, output, faults>>

\* No credentials: first the provider's status, then the step.
NotConfigured ==
    /\ pc = "enter"
    /\ Current \in Scope(job) \ configured
    /\ provider' = [provider EXCEPT ![Current] = "NOT_CONFIGURED"]
    /\ pc' = "unconfigured"
    /\ UNCHANGED <<inputs, run, step, succeeded, boot, syncing, errors, output, at, faults>>

SkipUnconfigured ==
    /\ pc = "unconfigured"
    /\ SetStep(Current, "SKIPPED")
    /\ NextSync
    /\ UNCHANGED <<inputs, run, statuses, syncing, errors, output, faults>>

BeginSync ==
    /\ pc = "enter"
    /\ Current \in Scope(job) \cap configured
    /\ SetStep(Current, "RUNNING")
    /\ BeginRequests(Client)
    /\ pc' = "fetching"
    /\ UNCHANGED <<inputs, run, statuses, broken, errors, output, at, faults>>

\* The requests of the sync, as long as none is refused that it needs.
Fetch ==
    /\ pc = "fetching"
    /\ Answered(Client) \/ Retry(Client) \/ Tolerated(Client) \/ StopAtFloor
    /\ UNCHANGED <<inputs, run, step, statuses, broken, errors, output, at, pc, faults>>

\* The client's exception reaches the sync's handler.
RequestFails ==
    /\ pc = "fetching"
    /\ Refused(Client)
    /\ pc' = "failing"
    /\ UNCHANGED <<inputs, run, step, statuses, broken, errors, output, at, faults>>

\* A commit on the way, or the one at the end.
SaveData ==
    /\ pc = "fetching"
    /\ Commit
    /\ pc' = IF plan' = <<>> THEN "saved" ELSE pc
    /\ UNCHANGED <<inputs, run, step, statuses, broken, errors, output, at, faults>>

\* Only football reports an empty answer as EMPTY, which is no success.
ReportOnline ==
    /\ pc = "saved"
    /\ \/ /\ provider' = [provider EXCEPT ![Current] = "ONLINE"]
          /\ succeeded' = succeeded \cup {Current}
       \/ /\ Current = "football"
          /\ provider' = [provider EXCEPT ![Current] = "EMPTY"]
          /\ UNCHANGED succeeded
    /\ pc' = "online"
    /\ UNCHANGED <<inputs, run, step, boot, syncing, errors, output, at, faults>>

Audit ==
    /\ pc = "online"
    /\ pc' = "audited"
    /\ UNCHANGED <<inputs, run, step, statuses, syncing, errors, output, at, faults>>

CompleteSync ==
    /\ pc = "audited"
    /\ SetStep(Current, "COMPLETED")
    /\ NextSync
    /\ UNCHANGED <<inputs, run, statuses, syncing, errors, output, faults>>

\* Mutant: the handler forgets the provider's status.
SyncFails_StepOnly ==
    /\ pc \in {"fetching", "saved", "online", "audited"}
    /\ pc' = "degraded"
    /\ Fault
    /\ Abandon
    /\ broken' = broken \cup {Current}
    /\ UNCHANGED <<inputs, run, step, statuses, errors, output, at>>

\* Any other exception inside the sync's try block, after the commit of the data too.
SyncFails ==
    /\ pc \in {"fetching", "saved", "online", "audited"}
    /\ pc' = "failing"
    /\ Fault
    /\ Abandon
    /\ broken' = broken \cup {Current}
    /\ UNCHANGED <<inputs, run, step, statuses, errors, output, at>>

\* Only Sportmonks tells a refused token from a sync that failed later.
Degraded ==
    IF Client # "sportmonks" \/ verified THEN "DEGRADED"
    ELSE IF code = "forbidden" THEN "FORBIDDEN" ELSE "FAILED"

\* The handler: provider status, then step, then raise.
ReportDegraded ==
    /\ pc = "failing"
    /\ provider' = [provider EXCEPT ![Current] = Degraded]
    /\ pc' = "degraded"
    /\ UNCHANGED <<inputs, run, step, succeeded, boot, syncing, errors, output, at, faults>>

\* Mutant: the handler swallows the error.
FailSync_NoRaise ==
    /\ pc = "degraded"
    /\ SetStep(Current, "FAILED")
    /\ NextSync
    /\ UNCHANGED <<inputs, run, statuses, syncing, errors, output, faults>>

FailSync ==
    /\ pc = "degraded"
    /\ SetStep(Current, "FAILED")
    /\ errors' = errors \cup {Current}
    /\ NextSync
    /\ UNCHANGED <<inputs, run, statuses, syncing, output, faults>>

\* An exception before the try block, or in the handler itself, reaches the loop's own
\* handler: the error is recorded, the step stays as it is.
SyncEscapes ==
    /\ \/ pc = "enter" /\ Current \in Scope(job)
       \/ pc \in {"unconfigured", "failing", "degraded"}
    /\ errors' = errors \cup {Current}
    /\ NextSync
    /\ Fault
    /\ UNCHANGED <<inputs, run, step, statuses, syncing, output>>

---------------------------------------------------------------------------
(* Settlement *)

BeginSettlement ==
    /\ pc = "settle"
    /\ SetStep("SETTLEMENT", "RUNNING")
    /\ pc' = "settling"
    /\ UNCHANGED <<inputs, run, statuses, syncing, errors, output, at, faults>>

\* Settled or not, the step ends SKIPPED: there is no stake ledger.
EndSettlement ==
    /\ pc = "settling"
    /\ SetStep("SETTLEMENT", "SKIPPED")
    /\ pc' = "infer"
    /\ UNCHANGED <<inputs, run, statuses, syncing, errors, output, at, faults>>

SettlementFails ==
    /\ pc = "settling"
    /\ errors' = errors \cup {"settlement"}
    /\ SetStep("SETTLEMENT", "FAILED")
    /\ pc' = "infer"
    /\ Fault
    /\ UNCHANGED <<inputs, run, statuses, syncing, output, at>>

---------------------------------------------------------------------------
(* Inference *)

SkipInference ==
    /\ pc = "infer"
    /\ job # "daily_analysis"
    /\ pc' = "report"
    /\ UNCHANGED <<inputs, run, step, statuses, syncing, errors, output, at, faults>>

\* infer() returns its counts before its session commits.
Infer ==
    /\ pc = "infer"
    /\ job = "daily_analysis"
    /\ predicted' \in BOOLEAN
    /\ pc' = "inferred"
    /\ UNCHANGED <<inputs, run, step, statuses, syncing, errors, stored, reported, at, faults>>

StorePredictions ==
    /\ pc = "inferred"
    /\ stored' = predicted
    /\ pc' = "report"
    /\ UNCHANGED <<inputs, run, step, statuses, syncing, errors, predicted, reported, at, faults>>

\* Mutant: the counts of predictions that were rolled back are kept.
InferenceFails_KeepsCounts ==
    /\ pc \in {"infer", "inferred"}
    /\ job = "daily_analysis"
    /\ errors' = errors \cup {"model_inference"}
    /\ pc' = "report"
    /\ Fault
    /\ UNCHANGED <<inputs, run, step, statuses, syncing, output, at>>

InferenceFails ==
    /\ pc \in {"infer", "inferred"}
    /\ job = "daily_analysis"
    /\ predicted' = FALSE
    /\ errors' = errors \cup {"model_inference"}
    /\ pc' = "report"
    /\ Fault
    /\ UNCHANGED <<inputs, run, step, statuses, syncing, stored, reported, at>>

---------------------------------------------------------------------------
(* The closing steps and the final status *)

\* The three steps in any order stand for the loop; each has its own commit.
ReportStep(s) ==
    /\ pc = "report"
    /\ s \in Reporting
    /\ step[s] = "QUEUED"
    /\ SetStep(s, IF predicted THEN "COMPLETED" ELSE "SKIPPED")
    /\ UNCHANGED <<inputs, run, statuses, syncing, errors, output, at, pc, faults>>

\* Mutant: the output waits for steps that were skipped.
PersistOutput_Waits ==
    /\ pc = "report"
    /\ \A s \in Reporting : step[s] = "COMPLETED"
    /\ SetStep("PERSIST_OUTPUT", "COMPLETED")
    /\ pc' = "finish"
    /\ UNCHANGED <<inputs, run, statuses, syncing, errors, output, at, faults>>

PersistOutput ==
    /\ pc = "report"
    /\ \A s \in Reporting : step[s] # "QUEUED"
    /\ SetStep("PERSIST_OUTPUT", "COMPLETED")
    /\ pc' = "finish"
    /\ UNCHANGED <<inputs, run, statuses, syncing, errors, output, at, faults>>

\* FAILED only if no provider of this job is configured.
Finish ==
    /\ pc = "finish"
    /\ run' = IF configured \cap Scope(job) = {} THEN "FAILED"
              ELSE IF errors # {} THEN "PARTIAL" ELSE "COMPLETED"
    /\ reported' = predicted
    /\ pc' = "done"
    /\ UNCHANGED <<inputs, step, statuses, syncing, errors, predicted, stored, at, faults>>

\* An exception outside every try block, SIGTERM, or the death of the process.
Stop ==
    /\ pc \notin {"done", "stopped"}
    /\ pc' = "stopped"
    /\ Fault
    /\ UNCHANGED <<inputs, run, step, statuses, syncing, errors, output, at>>

\* The next leader's sweep (AnalysisJobs!Sweep): the run only, never its steps.
Recover ==
    /\ pc = "stopped"
    /\ run = "RUNNING"
    /\ run' = "FAILED"
    /\ UNCHANGED <<inputs, step, statuses, syncing, errors, output, at, pc, faults>>

---------------------------------------------------------------------------
(* initialize_provider_statuses: an API process that starts beside the pipeline, without a *)
(* lock.  It reads the row of each provider and writes it some time later.  One provider   *)
(* is followed, one with credentials that has not delivered yet: the row of any other one  *)
(* is not changed, or to what the pipeline writes too.                                     *)

ReadStatus(p) ==
    /\ boot = "no"
    /\ p \in configured \ succeeded
    /\ boot' = p
    /\ UNCHANGED <<inputs, run, step, provider, succeeded, syncing, errors, output, at, pc, faults>>

WriteStatus ==
    /\ boot \in Provider
    /\ provider' = [provider EXCEPT ![boot] = "OFFLINE"]
    /\ boot' = "done"
    /\ UNCHANGED <<inputs, run, step, succeeded, syncing, errors, output, at, pc, faults>>

---------------------------------------------------------------------------
Pipeline ==
    \/ SkipProvider \/ NotConfigured \/ SkipUnconfigured \/ BeginSync
    \/ Fetch \/ RequestFails \/ SaveData
    \/ ReportOnline \/ Audit \/ CompleteSync \/ ReportDegraded \/ FailSync
    \/ BeginSettlement \/ EndSettlement
    \/ SkipInference \/ Infer \/ StorePredictions
    \/ \E s \in Step : ReportStep(s)
    \/ PersistOutput \/ Finish

Failure == SyncFails \/ SyncEscapes \/ SettlementFails \/ InferenceFails \/ Stop

Next == Pipeline \/ Failure \/ Recover \/ WriteStatus \/ \E p \in Provider : ReadStatus(p)

Spec == Init /\ [][Next]_vars

\* The pipeline's own steps are taken as long as the process lives.  Nothing is assumed of
\* Recover: whether a stopped run is ever recovered is a matter of AnalysisJobs.
FairSpec == Spec /\ WF_vars(Pipeline)

---------------------------------------------------------------------------
(* Properties *)

\* COMPLETED hides nothing: every step is closed without failure, every configured
\* provider of the job delivered and is shown as such, unless an API process started
\* meanwhile, and there was at least one.
CompletedIsClean ==
    run = "COMPLETED" =>
        /\ errors = {}
        /\ \A s \in Step : step[s] \in {"COMPLETED", "SKIPPED"}
        /\ configured \cap Scope(job) # {}
        /\ \A p \in configured \cap Scope(job) :
            /\ Data[p] \subseteq saved
            /\ step[p] = "COMPLETED"
            /\ provider[p] \in {"ONLINE", "EMPTY"} \cup (IF boot = "done" THEN {"OFFLINE"} ELSE {})

\* A run that ends by itself reports the predictions that are in the database, and its
\* reporting steps say the same.
PredictionsReported ==
    pc = "done" =>
        /\ reported = stored
        /\ \A s \in Reporting : step[s] = "COMPLETED" <=> stored

\* A failed provider is never shown as delivering: its step FAILED goes with a status
\* that is not ONLINE.
FailureShown ==
    \A p \in Provider : step[p] = "FAILED" => provider[p] \notin {"ONLINE", "EMPTY"}

\* "Never roll back valid fixtures because premium access is denied": a sync that the
\* answers of its provider make fail has stored nothing of it, so once fixtures are stored
\* no refusal of the extras turns their sync into a failed one.
RefusalsCostNothing ==
    \A p \in Provider \ broken : step[p] = "FAILED" => Data[p] \cap saved = {}

\* Once an answer has told what is left of the odds quota, it is never charged more than the
\* three attempts of one target below its floor, whatever gets lost on the way, and those of
\* one more target for each answer since then that did not tell.  Before any answer has told,
\* nothing holds the client back.
FloorKept ==
    [][quota' < quota => \A n \in silent : quota' > Floor - (n + 1) * (Attempts * Cost)]_vars

\* Whatever fails on the way, the pipeline gets to its end unless it is stopped.
PipelineEnds == <>(pc \in {"done", "stopped"})

============================================================================
