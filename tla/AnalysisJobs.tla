--------------------------- MODULE AnalysisJobs ---------------------------
(***************************************************************************)
(* The job machinery of the backend: who may create an analysis_runs row,  *)
(* who may execute it, and what survives a crash, a redeploy or a lost     *)
(* lock.  One "task" is one thread of control that touches the queue:      *)
(*                                                                         *)
(*   Worker    serve() of a python -m app.jobs.worker process: stands by   *)
(*             for the worker-leader lock, recovers abandoned rows, starts *)
(*             the scheduler, then polls for QUEUED rows                   *)
(*   Cron      one scheduled_analysis() job of that process (Host)         *)
(*   OneShot   a python -m app.jobs.<job> process                          *)
(*   Api       a POST /analysis/run request, and its background task when  *)
(*             the environment is not production (ApiExecutes)             *)
(*   Backfill  a research backfill process, which takes the same           *)
(*             analysis-execute lock                                       *)
(*                                                                         *)
(* The three advisory locks belong to database sessions.  A process that   *)
(* dies leaves its session behind (Orphan) until PostgreSQL notices.       *)
(***************************************************************************)
EXTENDS Naturals

CONSTANTS
    Run,            \* ids of rows; finite in a model, so creation stops when used up
    Worker, Cron, OneShot, Api, Backfill,
    Host,           \* Host[c]: the worker process whose scheduler owns job c
    ApiExecutes,    \* settings.environment # "production"
    Free,           \* a lock no session holds
    Orphan,         \* a lock held by the session of a dead process
    NoRun,
    MaxFaults       \* bound on each kind of fault

Task == Worker \cup Cron \cup OneShot \cup Api \cup Backfill

Fault == {"crash", "term", "raise"}

ASSUME TaskAssumption ==
    /\ Worker \cap Cron = {}
    /\ (Worker \cup Cron) \cap (OneShot \cup Api \cup Backfill) = {}
    /\ OneShot \cap Api = {} /\ OneShot \cap Backfill = {} /\ Api \cap Backfill = {}
    /\ Host \in [Cron -> Worker]
    /\ ApiExecutes \in BOOLEAN

ASSUME ValueAssumption ==
    /\ Free \notin Task /\ Orphan \notin Task /\ Free # Orphan
    /\ NoRun \notin Run
    /\ MaxFaults \in [Fault -> Nat]

VARIABLES
    status,     \* AnalysisRun.status of every row, "ABSENT" before the insert
    pc,         \* where each task is
    target,     \* the run_id a task has in hand
    leader,     \* holder of the worker-leader lock
    enqueue,    \* holder of the analysis-enqueue lock
    execute,    \* holder of the analysis-execute lock
    faults      \* how many faults of each kind happened so far

locks == <<leader, enqueue, execute>>
vars == <<status, pc, target, leader, enqueue, execute, faults>>

Terminal == {"COMPLETED", "PARTIAL", "FAILED"}
Active == {"QUEUED", "RUNNING"}
Status == {"ABSENT"} \cup Active \cup Terminal
Holder == Task \cup {Free, Orphan}

PC == {"down",                                   \* no process, or scheduler not started
       "standby", "recover", "sweep", "swept",   \* serve() up to the poll loop
       "poll", "unwind", "resign",               \* serve()'s loop and its finally blocks
       "idle", "check", "insert", "leave",       \* create_analysis_run
       "tryexec", "begin", "run", "release",     \* run_analysis
       "backfill", "cancelled", "done"}

Caller == Cron \cup OneShot \cup Api              \* tasks that create rows

Init ==
    /\ status = [r \in Run |-> "ABSENT"]
    /\ pc = [t \in Task |-> IF t \in Worker \cup Cron THEN "down" ELSE "idle"]
    /\ target = [t \in Task |-> NoRun]
    /\ leader = Free
    /\ enqueue = Free
    /\ execute = Free
    /\ faults = [f \in Fault |-> 0]

---------------------------------------------------------------------------
(* Helpers *)

Goto(t, l) == pc' = [pc EXCEPT ![t] = l]

\* The jobs of worker w's scheduler.
Jobs(w) == {c \in Cron : Host[c] = w}

\* What a task does once run_analysis has returned: the worker goes on polling,
\* a scheduler job waits for its next firing, the others are finished.
AfterRun(t) ==
    IF t \in Worker THEN "poll" ELSE IF t \in Cron THEN "idle" ELSE "done"

Spend(f) ==
    /\ faults[f] < MaxFaults[f]
    /\ faults' = [faults EXCEPT ![f] = @ + 1]

\* Every row some task is inside the execution of.
Executing == {<<t, target[t]>> : t \in {u \in Task : pc[u] = "run"}}

---------------------------------------------------------------------------
(* create_analysis_run: every caller, under the analysis-enqueue lock *)

\* Try-lock; a busy lock raises RuntimeError: 409 for the API, an error logged by the
\* scheduler, a non-zero exit of a one-shot process.  The guard on a free id is the
\* bound on the number of rows.
Submit(t) ==
    /\ t \in Caller
    /\ pc[t] = "idle"
    /\ \E r \in Run : status[r] = "ABSENT"
    /\ \/ /\ enqueue = Free
          /\ enqueue' = t
          /\ Goto(t, "check")
       \/ /\ enqueue # Free
          /\ Goto(t, IF t \in Cron THEN "idle" ELSE "done")
          /\ UNCHANGED enqueue
    /\ target' = [target EXCEPT ![t] = NoRun]
    /\ UNCHANGED <<status, leader, execute, faults>>

\* Mutant: the SELECT forgets RUNNING rows.
CheckActive_QueuedOnly(t) ==
    /\ pc[t] = "check"
    /\ Goto(t, IF \E r \in Run : status[r] = "QUEUED" THEN "leave" ELSE "insert")
    /\ UNCHANGED <<status, target, locks, faults>>

\* The SELECT of a QUEUED or RUNNING row; finding one means created = False.
CheckActive(t) ==
    /\ pc[t] = "check"
    /\ Goto(t, IF \E r \in Run : status[r] \in Active THEN "leave" ELSE "insert")
    /\ UNCHANGED <<status, target, locks, faults>>

\* The row and its eight steps commit together.
Insert(t, r) ==
    /\ pc[t] = "insert"
    /\ status[r] = "ABSENT"
    /\ status' = [status EXCEPT ![r] = "QUEUED"]
    /\ target' = [target EXCEPT ![t] = r]
    /\ Goto(t, "leave")
    /\ UNCHANGED <<locks, faults>>

\* Unlock; then only the creator of a row goes on to run it, the API only outside
\* production.
LeaveQueue(t) ==
    /\ pc[t] = "leave"
    /\ enqueue' = Free
    /\ Goto(t, IF target[t] # NoRun /\ (t \in Api => ApiExecutes)
               THEN "tryexec"
               ELSE IF t \in Cron THEN "idle" ELSE "done")
    /\ UNCHANGED <<status, target, leader, execute, faults>>

\* A database error, which may also follow the commit (the refresh of the new row): the
\* caller unlocks and runs nothing.
RaiseInQueue(t) ==
    /\ pc[t] \in {"check", "insert", "leave"}
    /\ target' = [target EXCEPT ![t] = NoRun]
    /\ Goto(t, "leave")
    /\ Spend("raise")
    /\ UNCHANGED <<status, locks>>

---------------------------------------------------------------------------
(* run_analysis, under the analysis-execute lock *)

\* A busy lock makes run_analysis return without a word: the row stays QUEUED.
TryExecute(t) ==
    /\ pc[t] = "tryexec"
    /\ \/ /\ execute = Free
          /\ execute' = t
          /\ Goto(t, "begin")
       \/ /\ execute # Free
          /\ Goto(t, AfterRun(t))
          /\ UNCHANGED execute
    /\ UNCHANGED <<status, target, leader, enqueue, faults>>

\* Mutant: the status is not read again under the lock.
BeginRun_Unchecked(t) ==
    /\ pc[t] = "begin"
    /\ status' = [status EXCEPT ![target[t]] = "RUNNING"]
    /\ Goto(t, "run")
    /\ UNCHANGED <<target, locks, faults>>

\* Only a row that is still QUEUED is started.
BeginRun(t) ==
    /\ pc[t] = "begin"
    /\ \/ /\ status[target[t]] = "QUEUED"
          /\ status' = [status EXCEPT ![target[t]] = "RUNNING"]
          /\ Goto(t, "run")
       \/ /\ status[target[t]] # "QUEUED"
          /\ Goto(t, "release")
          /\ UNCHANGED status
    /\ UNCHANGED <<target, locks, faults>>

\* The pipeline ends (module RunPipeline says with which status) and writes the row,
\* whatever its status has become.
FinishRun(t, s) ==
    /\ pc[t] = "run"
    /\ s \in Terminal
    /\ status' = [status EXCEPT ![target[t]] = s]
    /\ Goto(t, "release")
    /\ UNCHANGED <<target, locks, faults>>

\* A database error outside the pipeline's try blocks leaves the row QUEUED or RUNNING.
\* It ends serve(), whose process is restarted; APScheduler logs it; a one-shot job exits.
RaiseInRun(t) ==
    /\ pc[t] \in {"begin", "run"}
    /\ Goto(t, IF t \in Worker THEN "unwind" ELSE "release")
    /\ Spend("raise")
    /\ UNCHANGED <<status, target, locks>>

\* Mutant: the unlock is forgotten.
ReleaseExecute_Kept(t) ==
    /\ pc[t] = "release"
    /\ Goto(t, AfterRun(t))
    /\ UNCHANGED <<status, target, locks, faults>>

ReleaseExecute(t) ==
    /\ pc[t] = "release"
    /\ execute' = Free
    /\ Goto(t, AfterRun(t))
    /\ UNCHANGED <<status, target, leader, enqueue, faults>>

---------------------------------------------------------------------------
(* research backfill takes analysis-execute, or answers BUSY *)

\* Mutant: a backfill that does not share the lock.
StartBackfill_OwnLock(t) ==
    /\ t \in Backfill
    /\ pc[t] = "idle"
    /\ Goto(t, "backfill")
    /\ UNCHANGED <<status, target, locks, faults>>

StartBackfill(t) ==
    /\ t \in Backfill
    /\ pc[t] = "idle"
    /\ \/ /\ execute = Free
          /\ execute' = t
          /\ Goto(t, "backfill")
       \/ /\ execute # Free
          /\ Goto(t, "done")
          /\ UNCHANGED execute
    /\ UNCHANGED <<status, target, leader, enqueue, faults>>

EndBackfill(t) ==
    /\ pc[t] = "backfill"
    /\ Goto(t, "release")
    /\ UNCHANGED <<status, target, locks, faults>>

---------------------------------------------------------------------------
(* The worker process *)

StartWorker(w) ==
    /\ pc[w] = "down"
    /\ \A c \in Jobs(w) : pc[c] = "down"
    /\ Goto(w, "standby")
    /\ UNCHANGED <<status, target, locks, faults>>

\* waiting_job_lock: a failed attempt changes nothing and is repeated.
BecomeLeader(w) ==
    /\ pc[w] = "standby"
    /\ leader = Free
    /\ leader' = w
    /\ Goto(w, "recover")
    /\ UNCHANGED <<status, target, enqueue, execute, faults>>

\* The poll loop is entered and the scheduler is started.
EnterLoop(w) ==
    pc' = [t \in Task |-> IF t = w THEN "poll"
                          ELSE IF t \in Jobs(w) THEN "idle" ELSE pc[t]]

\* Mutant: recovery does not wait for proof that nothing executes.
TryRecover_NotIdle(w) ==
    /\ pc[w] = "recover"
    /\ execute' = w
    /\ Goto(w, "sweep")
    /\ UNCHANGED <<status, target, leader, enqueue, faults>>

TryRecover(w) ==
    /\ pc[w] = "recover"
    /\ execute = Free
    /\ execute' = w
    /\ Goto(w, "sweep")
    /\ UNCHANGED <<status, target, leader, enqueue, faults>>

\* "if idle": with the lock taken there is no recovery, now or later.
SkipRecovery(w) ==
    /\ pc[w] = "recover"
    /\ execute # Free
    /\ EnterLoop(w)
    /\ UNCHANGED <<status, target, locks, faults>>

\* Mutant: the commit of the recovery is forgotten.
Sweep_NoCommit(w) ==
    /\ pc[w] = "sweep"
    /\ Goto(w, "swept")
    /\ UNCHANGED <<status, target, locks, faults>>

\* Every RUNNING row becomes FAILED.
Sweep(w) ==
    /\ pc[w] = "sweep"
    /\ status' = [r \in Run |-> IF status[r] = "RUNNING" THEN "FAILED" ELSE status[r]]
    /\ Goto(w, "swept")
    /\ UNCHANGED <<target, locks, faults>>

EndRecovery(w) ==
    /\ pc[w] = "swept"
    /\ execute' = Free
    /\ EnterLoop(w)
    /\ UNCHANGED <<status, target, leader, enqueue, faults>>

\* The oldest QUEUED row (there is at most one), or a sleep.
Poll(w) ==
    /\ pc[w] = "poll"
    /\ \/ \E r \in Run :
            /\ status[r] = "QUEUED"
            /\ target' = [target EXCEPT ![w] = r]
            /\ Goto(w, "tryexec")
       \/ /\ \A r \in Run : status[r] # "QUEUED"
          /\ UNCHANGED <<target, pc>>
    /\ UNCHANGED <<status, locks, faults>>

---------------------------------------------------------------------------
(* SIGTERM: the context managers and finally blocks of serve() run inside out *)

Terminate(w) ==
    /\ pc[w] \notin {"down", "unwind", "resign"}
    /\ Goto(w, "unwind")
    /\ Spend("term")
    /\ UNCHANGED <<status, target, locks>>

\* The innermost lock first: analysis-execute, if serve() holds it.
UnwindExecute(w) ==
    /\ w \in Worker
    /\ pc[w] = "unwind"
    /\ execute = w
    /\ execute' = Free
    /\ UNCHANGED <<status, pc, target, leader, enqueue, faults>>

\* scheduler.shutdown(wait=False) cancels the jobs under way and waits for none.
ShutdownScheduler(w) ==
    /\ w \in Worker
    /\ pc[w] = "unwind"
    /\ execute # w
    /\ pc' = [t \in Task |->
                IF t = w THEN "resign"
                ELSE IF t \in Jobs(w)
                     THEN IF pc[t] \in {"down", "idle"} THEN "down" ELSE "cancelled"
                ELSE pc[t]]
    /\ UNCHANGED <<status, target, locks, faults>>

Resign(w) ==
    /\ pc[w] = "resign"
    /\ leader' = IF leader = w THEN Free ELSE leader
    /\ Goto(w, "down")
    /\ UNCHANGED <<status, target, enqueue, execute, faults>>

\* Mutant: the unlock is not in a finally block.
UnwindCron_NoFinally(c) ==
    /\ pc[c] = "cancelled"
    /\ Goto(c, "down")
    /\ UNCHANGED <<status, target, locks, faults>>

\* A cancelled job releases whatever lock it is inside of, in its own time.
UnwindCron(c) ==
    /\ pc[c] = "cancelled"
    /\ enqueue' = IF enqueue = c THEN Free ELSE enqueue
    /\ execute' = IF execute = c THEN Free ELSE execute
    /\ Goto(c, "down")
    /\ UNCHANGED <<status, target, leader, faults>>

---------------------------------------------------------------------------
(* Process death: nothing is unlocked until PostgreSQL drops the sessions *)

\* The tasks that live in process p.
TasksOf(p) == {p} \cup IF p \in Worker THEN Jobs(p) ELSE {}

Abandoned(holder, p) == IF holder \in TasksOf(p) THEN Orphan ELSE holder

Crash(p) ==
    /\ p \notin Cron
    /\ \E t \in TasksOf(p) : pc[t] \notin {"down", "idle", "done"}
    /\ pc' = [t \in Task |->
                IF t \notin TasksOf(p) THEN pc[t]
                ELSE IF p \in Worker THEN "down" ELSE "done"]
    /\ leader' = Abandoned(leader, p)
    /\ enqueue' = Abandoned(enqueue, p)
    /\ execute' = Abandoned(execute, p)
    /\ Spend("crash")
    /\ UNCHANGED <<status, target>>

\* The server notices that a session is gone and frees its lock.
DropSession ==
    /\ \/ leader = Orphan /\ leader' = Free /\ UNCHANGED <<enqueue, execute>>
       \/ enqueue = Orphan /\ enqueue' = Free /\ UNCHANGED <<leader, execute>>
       \/ execute = Orphan /\ execute' = Free /\ UNCHANGED <<leader, enqueue>>
    /\ UNCHANGED <<status, pc, target, faults>>

---------------------------------------------------------------------------
TaskStep(t) ==
    \/ Submit(t)
    \/ CheckActive(t)
    \/ \E r \in Run : Insert(t, r)
    \/ LeaveQueue(t)
    \/ TryExecute(t)
    \/ BeginRun(t)
    \/ \E s \in Terminal : FinishRun(t, s)
    \/ ReleaseExecute(t)
    \/ StartBackfill(t)
    \/ EndBackfill(t)

WorkerStep(w) ==
    \/ StartWorker(w)
    \/ BecomeLeader(w)
    \/ TryRecover(w)
    \/ SkipRecovery(w)
    \/ Sweep(w)
    \/ EndRecovery(w)
    \/ Poll(w)
    \/ UnwindExecute(w)
    \/ ShutdownScheduler(w)
    \/ Resign(w)

Next ==
    \/ \E t \in Task : TaskStep(t) \/ RaiseInQueue(t) \/ RaiseInRun(t) \/ Crash(t)
    \/ \E w \in Worker : WorkerStep(w) \/ Terminate(w)
    \/ \E c \in Cron : UnwindCron(c)
    \/ DropSession

Spec == Init /\ [][Next]_vars

---------------------------------------------------------------------------
(* Fairness: a process that is up goes on; the platform restarts workers; a run ends,
   since provider requests have timeouts and bounded retries; the database drops dead
   sessions.  Nobody is obliged to submit a job or to start a backfill. *)

Continue(t) ==
    \/ CheckActive(t)
    \/ \E r \in Run : Insert(t, r)
    \/ LeaveQueue(t)
    \/ TryExecute(t)
    \/ BeginRun(t)
    \/ \E s \in Terminal : FinishRun(t, s)
    \/ ReleaseExecute(t)
    \/ EndBackfill(t)

Fairness ==
    /\ \A t \in Task : WF_vars(Continue(t))
    /\ \A w \in Worker : WF_vars(WorkerStep(w))
    /\ \A c \in Cron : WF_vars(UnwindCron(c))
    /\ WF_vars(DropSession)

FairSpec == Spec /\ Fairness

---------------------------------------------------------------------------
(* Properties *)

TypeOK ==
    /\ status \in [Run -> Status]
    /\ pc \in [Task -> PC]
    /\ target \in [Task -> Run \cup {NoRun}]
    /\ leader \in Holder
    /\ enqueue \in Holder
    /\ execute \in Holder
    /\ faults \in [Fault -> Nat]

\* The queue has room for one: whatever callers interleave, two rows are never QUEUED or
\* RUNNING together.  (_create_analysis_run reads, then inserts, in two statements.)
OneActiveRun ==
    \A q, r \in Run : status[q] \in Active /\ status[r] \in Active => q = r

\* A pipeline, a recovery sweep and a research backfill never overlap, whichever
\* processes they are in and whatever died before ("avoid competing writes").
OneExecution ==
    \A t, u \in Task :
        pc[t] \in {"run", "sweep", "backfill"} /\ pc[u] \in {"run", "sweep", "backfill"}
            => t = u

\* No recovery, polling or scheduled job in a process that is not the leader, also
\* while a cancelled leader is being replaced.
LeaderOnly ==
    /\ \A w \in Worker : pc[w] \notin {"down", "standby", "unwind", "resign"} => leader = w
    /\ \A c \in Cron : pc[c] \notin {"down", "cancelled"} => leader = Host[c]

\* What keeps the above true step by step (proved inductive in AnalysisJobsProofs).

\* A worker gives up leadership only after its scheduler's jobs are gone or cancelled.
ResignedQuietly ==
    \A w \in Worker, c \in Cron :
        pc[w] = "resign" /\ Host[c] = w => pc[c] \in {"down", "cancelled"}

\* The code between a lock and its unlock runs only while that task holds the lock.
QueueLocked ==
    \A t \in Task : pc[t] \in {"check", "insert", "leave"} => enqueue = t

ExecuteLocked ==
    \A t \in Task :
        pc[t] \in {"begin", "run", "release", "sweep", "swept", "backfill"} => execute = t

HasTarget ==
    \A t \in Task : pc[t] \in {"tryexec", "begin", "run"} => target[t] \in Run

\* What CheckActive saw still holds when the row is inserted.
InsertClear ==
    \A t \in Task : pc[t] = "insert" => \A r \in Run : status[r] \notin Active

\* A task that executes a row finds it RUNNING until it ends it.
RunningRow ==
    \A t \in Task : pc[t] = "run" => status[target[t]] = "RUNNING"

\* The locks, the queue and the rows agree: every protected section is run by the holder
\* of its lock, what was read under a lock is still true when it is acted upon, and a
\* leader that resigns leaves nothing of its scheduler behind.
IInv ==
    /\ TypeOK
    /\ LeaderOnly
    /\ ResignedQuietly
    /\ QueueLocked
    /\ ExecuteLocked
    /\ HasTarget
    /\ InsertClear
    /\ RunningRow
    /\ OneActiveRun

\* The status of a row that is being executed is changed by its executor's last write
\* only: no recovery fails it and no second executor finishes it under its feet.
OnlyExecutorEndsRun ==
    [][\A e \in Executing : status'[e[2]] # status[e[2]] => e \notin Executing']_vars

\* Rows are created, started, ended and recovered as module RunLifecycle allows: never
\* started twice, never changed once terminal, recovered only if nobody executes.
Lifecycle == INSTANCE RunLifecycle WITH executing <- Executing
ImplementsLifecycle == Lifecycle!Spec

\* Locks are not lost: after any crash, cancellation or error the queue and the execution
\* lock become free again.
LocksComeBack ==
    /\ []<>(enqueue = Free)
    /\ []<>(execute = Free)

\* A queued row is executed and ends, also when its worker is replaced.
QueuedRunsEnd ==
    \A r \in Run : status[r] = "QUEUED" ~> status[r] \in Terminal

\* Without a fault the row is executed and ends whoever else wants the lock, also when its
\* creator found analysis-execute busy and returned without a word.
UndisturbedRunsEnd ==
    \A r \in Run :
        status[r] = "QUEUED" ~> status[r] \in Terminal \/ \E f \in Fault : faults[f] > 0

\* docs/DEPLOYMENT.md:111 "A restarted leader marks abandoned RUNNING jobs failed":
\* a RUNNING row ends, by its executor or by the next leader's recovery.
RestartedLeaderRecovers ==
    \A r \in Run : status[r] = "RUNNING" ~> status[r] \in Terminal

===========================================================================
