----------------------- MODULE AnalysisJobsProofs -----------------------
(***************************************************************************)
(* Proofs about AnalysisJobs, for any number of rows, workers, scheduler   *)
(* jobs, one-shot jobs, requests and backfills, and any number of faults.  *)
(*                                                                         *)
(* The argument: the inductive invariant IInv ties every protected section *)
(* of the code to the holder of its lock.  Because a lock has one holder,  *)
(* what a task read under analysis-enqueue (no active row) or wrote under  *)
(* analysis-execute (its row is RUNNING) is still so at its next step.     *)
(***************************************************************************)
EXTENDS AnalysisJobs, TLAPS

\* Nothing runs, no lock is held and no row exists at the start.
LEMMA InitInvariant == Init => IInv
  BY TaskAssumption, ValueAssumption
  DEF Init, IInv, TypeOK, Holder, Status, Active, Terminal, PC, Task, Fault, LeaderOnly,
      ResignedQuietly, QueueLocked, ExecuteLocked, HasTarget, InsertClear, RunningRow,
      OneActiveRun

\* Every step of every task, fault or session keeps the invariant.
LEMMA NextInvariant == IInv /\ [Next]_vars => IInv'
<1> SUFFICES ASSUME IInv, [Next]_vars
             PROVE  IInv'
  OBVIOUS
<1> USE TaskAssumption, ValueAssumption
    DEF IInv, TypeOK, Holder, Status, Active, Terminal, PC, Task, Fault, LeaderOnly,
        ResignedQuietly, QueueLocked, ExecuteLocked, HasTarget, InsertClear, RunningRow,
        OneActiveRun
<1>1. ASSUME NEW t \in Task, Submit(t)
      PROVE  IInv'
  BY <1>1 DEF Submit, Goto
<1>2. ASSUME NEW t \in Task, CheckActive(t)
      PROVE  IInv'
  BY <1>2 DEF CheckActive, Goto, locks
<1>3. ASSUME NEW t \in Task, NEW r \in Run, Insert(t, r)
      PROVE  IInv'
  BY <1>3 DEF Insert, Goto, locks
<1>4. ASSUME NEW t \in Task, LeaveQueue(t)
      PROVE  IInv'
  BY <1>4 DEF LeaveQueue, Goto
<1>5. ASSUME NEW t \in Task, TryExecute(t)
      PROVE  IInv'
  BY <1>5 DEF TryExecute, Goto, AfterRun
<1>6. ASSUME NEW t \in Task, BeginRun(t)
      PROVE  IInv'
  BY <1>6 DEF BeginRun, Goto, locks
<1>7. ASSUME NEW t \in Task, NEW s \in Terminal, FinishRun(t, s)
      PROVE  IInv'
  BY <1>7 DEF FinishRun, Goto, locks
<1>8. ASSUME NEW t \in Task, ReleaseExecute(t)
      PROVE  IInv'
  BY <1>8 DEF ReleaseExecute, Goto, AfterRun
<1>9. ASSUME NEW t \in Task, StartBackfill(t)
      PROVE  IInv'
  BY <1>9 DEF StartBackfill, Goto
<1>10. ASSUME NEW t \in Task, EndBackfill(t)
      PROVE  IInv'
  BY <1>10 DEF EndBackfill, Goto, locks
<1>11. ASSUME NEW t \in Task, RaiseInRun(t)
      PROVE  IInv'
  BY <1>11 DEF RaiseInRun, Goto, Spend, locks
<1>12. ASSUME NEW t \in Task, Crash(t)
      PROVE  IInv'
  BY <1>12 DEF Crash, TasksOf, Jobs, Abandoned, Spend
<1>13. ASSUME NEW w \in Worker, StartWorker(w)
      PROVE  IInv'
  BY <1>13 DEF StartWorker, Goto, locks
<1>14. ASSUME NEW w \in Worker, BecomeLeader(w)
      PROVE  IInv'
  BY <1>14 DEF BecomeLeader, Goto
<1>15. ASSUME NEW w \in Worker, TryRecover(w)
      PROVE  IInv'
  BY <1>15 DEF TryRecover, Goto
<1>16. ASSUME NEW w \in Worker, SkipRecovery(w)
      PROVE  IInv'
  BY <1>16 DEF SkipRecovery, EnterLoop, Jobs, locks
<1>17. ASSUME NEW w \in Worker, Sweep(w)
      PROVE  IInv'
  BY <1>17 DEF Sweep, Goto, locks
<1>18. ASSUME NEW w \in Worker, EndRecovery(w)
      PROVE  IInv'
  BY <1>18 DEF EndRecovery, EnterLoop, Jobs
<1>19. ASSUME NEW w \in Worker, Poll(w)
      PROVE  IInv'
  BY <1>19 DEF Poll, Goto, locks
<1>20. ASSUME NEW w \in Worker, UnwindExecute(w)
      PROVE  IInv'
  BY <1>20 DEF UnwindExecute
<1>21. ASSUME NEW w \in Worker, ShutdownScheduler(w)
      PROVE  IInv'
  BY <1>21 DEF ShutdownScheduler, Jobs, locks
<1>22. ASSUME NEW w \in Worker, Resign(w)
      PROVE  IInv'
  BY <1>22 DEF Resign, Goto
<1>23. ASSUME NEW w \in Worker, Terminate(w)
      PROVE  IInv'
  BY <1>23 DEF Terminate, Goto, Spend, locks
<1>24. ASSUME NEW c \in Cron, UnwindCron(c)
      PROVE  IInv'
  BY <1>24 DEF UnwindCron, Goto
<1>25. CASE DropSession
  BY <1>25 DEF DropSession
<1>26. CASE UNCHANGED vars
  BY <1>26 DEF vars
<1>27. ASSUME NEW t \in Task, RaiseInQueue(t)
       PROVE  IInv'
  BY <1>27 DEF RaiseInQueue, Goto, Spend, locks
<1> QED
  BY <1>1, <1>2, <1>3, <1>4, <1>5, <1>6, <1>7, <1>8, <1>9, <1>10, <1>11, <1>12, <1>13,
     <1>14, <1>15, <1>16, <1>17, <1>18, <1>19, <1>20, <1>21, <1>22, <1>23, <1>24, <1>25, <1>26,
     <1>27
  DEF Next, TaskStep, WorkerStep

\* IInv holds in every reachable state.
THEOREM Invariant == Spec => []IInv
  BY InitInvariant, NextInvariant, PTL DEF Spec

\* Every variable keeps its type.
THEOREM TypeCorrect == Spec => []TypeOK
<1>1. IInv => TypeOK
  BY DEF IInv
<1> QED
  BY <1>1, Invariant, PTL

\* There is never a second active row (create_analysis_run's promise).
THEOREM SingleActiveRun == Spec => []OneActiveRun
<1>1. IInv => OneActiveRun
  BY DEF IInv
<1> QED
  BY <1>1, Invariant, PTL

\* Pipelines, recovery and backfills exclude each other.
THEOREM ExclusiveExecution == Spec => []OneExecution
<1>1. IInv => OneExecution
  BY DEF IInv, ExecuteLocked, OneExecution
<1> QED
  BY <1>1, Invariant, PTL

\* Only the leader's process recovers, polls and schedules.
THEOREM OnlyLeaderServes == Spec => []LeaderOnly
<1>1. IInv => LeaderOnly
  BY DEF IInv
<1> QED
  BY <1>1, Invariant, PTL

---------------------------------------------------------------------------
(* Refinement: with Executing for its variable, every step of AnalysisJobs is a step of
   RunLifecycle or leaves status and Executing alone. *)

\* At most one pair, owned by the holder of analysis-execute.
LEMMA ExecutingOne ==
  ASSUME IInv, NEW t \in Task, pc[t] = "run"
  PROVE  Executing = {<<t, target[t]>>}
  BY DEF IInv, ExecuteLocked, Executing

\* A step in which nobody enters "run" and no runner changes its target either keeps
\* Executing or empties it.
LEMMA ExecutingStep ==
  ASSUME IInv,
         \A t \in Task : pc'[t] = "run" => pc[t] = "run" /\ target'[t] = target[t]
  PROVE  Executing' = Executing \/ (Executing # {} /\ Executing' = {})
<1>1. CASE \E t \in Task : pc'[t] = "run"
  <2>1. PICK t \in Task : pc'[t] = "run"
    BY <1>1
  <2>2. Executing = {<<t, target[t]>>}
    BY <2>1, ExecutingOne
  <2>3. \A u \in Task : pc'[u] = "run" => u = t
    BY <2>1 DEF IInv, ExecuteLocked
  <2> QED
    BY <2>1, <2>2, <2>3 DEF Executing
<1>2. CASE \A t \in Task : pc'[t] # "run"
  BY <1>2 DEF Executing
<1> QED
  BY <1>1, <1>2

LEMMA InitRefines == Init => Lifecycle!Init
  BY TaskAssumption DEF Init, Lifecycle!Init, Executing, Task

LEMMA NextRefines ==
  IInv /\ [Next]_vars => [Lifecycle!Next]_<<status, Executing>>
<1> SUFFICES ASSUME IInv, [Next]_vars
             PROVE  Lifecycle!Next \/ UNCHANGED <<status, Executing>>
  OBVIOUS
<1> USE TaskAssumption, ValueAssumption
<1> DEFINE Quiet == /\ status' = status
                    /\ \A t \in Task : pc'[t] = "run" =>
                            pc[t] = "run" /\ target'[t] = target[t]
\* Steps that write no row and start no run: a stutter, or Abandon when the executor is
\* cancelled, raises or dies.
<1>1. ASSUME Quiet PROVE Lifecycle!Next \/ UNCHANGED <<status, Executing>>
  BY <1>1, ExecutingStep DEF Lifecycle!Next, Lifecycle!Abandon
<1>2. ASSUME NEW t \in Task,
             Submit(t) \/ CheckActive(t) \/ LeaveQueue(t) \/ TryExecute(t)
               \/ ReleaseExecute(t) \/ StartBackfill(t) \/ EndBackfill(t)
               \/ RaiseInQueue(t) \/ RaiseInRun(t) \/ Crash(t)
      PROVE  Quiet
  BY <1>2 DEF IInv, TypeOK, Submit, CheckActive, LeaveQueue, TryExecute, ReleaseExecute,
     StartBackfill, EndBackfill, RaiseInQueue, RaiseInRun, Crash, Goto, AfterRun, locks
<1>3. ASSUME NEW w \in Worker,
             StartWorker(w) \/ BecomeLeader(w) \/ TryRecover(w) \/ SkipRecovery(w)
               \/ EndRecovery(w) \/ Poll(w) \/ UnwindExecute(w) \/ ShutdownScheduler(w)
               \/ Resign(w) \/ Terminate(w)
      PROVE  Quiet
  BY <1>3 DEF IInv, TypeOK, StartWorker, BecomeLeader, TryRecover, SkipRecovery,
     EndRecovery, Poll, UnwindExecute, ShutdownScheduler, Resign, Terminate, EnterLoop,
     Goto, Task, locks
<1>4. ASSUME NEW c \in Cron, UnwindCron(c) PROVE Quiet
  BY <1>4 DEF IInv, TypeOK, UnwindCron, Goto, Task
<1>5. ASSUME DropSession \/ UNCHANGED vars PROVE Quiet
  BY <1>5 DEF DropSession, vars
<1>6. ASSUME NEW t \in Task, NEW r \in Run, Insert(t, r)
      PROVE  Lifecycle!Enqueue(r) /\ UNCHANGED Executing
  <2>1. \A q \in Run : status[q] \notin Active
    BY <1>6 DEF IInv, InsertClear, Insert
  <2>2. \A u \in Task : pc'[u] = "run" <=> pc[u] = "run"
    BY <1>6 DEF IInv, TypeOK, Insert, Goto
  <2>3. \A u \in Task : pc[u] = "run" => target'[u] = target[u]
    BY <1>6 DEF IInv, TypeOK, Insert
  <2>4. UNCHANGED Executing
    BY <2>2, <2>3 DEF Executing
  <2> QED
    BY <1>6, <2>1, <2>4 DEF Insert, Lifecycle!Enqueue, Lifecycle!Active, Active
\* The starter holds analysis-execute, so nobody is inside an execution.
<1>7. ASSUME NEW t \in Task, BeginRun(t)
      PROVE  Quiet \/ Lifecycle!Start(t, target[t])
  <2>1. CASE status[target[t]] # "QUEUED"
    BY <1>7, <2>1 DEF IInv, TypeOK, BeginRun, Goto
  <2>2. CASE status[target[t]] = "QUEUED"
    <3>1. pc[t] = "begin" /\ pc' = [pc EXCEPT ![t] = "run"] /\ target' = target
      BY <1>7, <2>2 DEF BeginRun, Goto
    <3>2. \A u \in Task : pc[u] # "run"
      BY <3>1 DEF IInv, ExecuteLocked
    <3>3. Executing = {}
      BY <3>2 DEF Executing
    <3>4. \A u \in Task : pc'[u] = "run" <=> u = t
      BY <3>1, <3>2 DEF IInv, TypeOK
    <3>5. Executing' = {<<t, target[t]>>}
      BY <3>1, <3>4 DEF Executing
    <3> QED
      BY <1>7, <2>2, <3>3, <3>5 DEF BeginRun, Lifecycle!Start
  <2> QED
    BY <2>1, <2>2
<1>8. ASSUME NEW t \in Task, NEW s \in Terminal, FinishRun(t, s)
      PROVE  Lifecycle!Finish(t, target[t], s)
  <2>1. pc[t] = "run" /\ pc' = [pc EXCEPT ![t] = "release"]
    BY <1>8 DEF FinishRun, Goto
  <2>2. Executing = {<<t, target[t]>>}
    BY <2>1, ExecutingOne
  <2>3. \A u \in Task : pc'[u] # "run"
    BY <2>1 DEF IInv, TypeOK, ExecuteLocked
  <2>4. Executing' = {}
    BY <2>3 DEF Executing
  <2>5. status[target[t]] = "RUNNING"
    BY <2>1 DEF IInv, RunningRow
  <2> QED
    BY <1>8, <2>2, <2>4, <2>5 DEF FinishRun, Lifecycle!Finish
\* So does the recovering leader.
<1>9. ASSUME NEW w \in Worker, Sweep(w)
      PROVE  Lifecycle!Recover
  <2>1. \A u \in Task : pc[u] # "run" /\ pc'[u] # "run"
    BY <1>9 DEF IInv, TypeOK, ExecuteLocked, Sweep, Goto, Task
  <2>2. Executing = {} /\ Executing' = {}
    BY <2>1 DEF Executing
  <2> QED
    BY <1>9, <2>2 DEF Sweep, Lifecycle!Recover
<1>10. ASSUME NEW t \in Task, BeginRun(t) \/ \E s \in Terminal : FinishRun(t, s)
       PROVE  Lifecycle!Next \/ UNCHANGED <<status, Executing>>
  <2>1. pc[t] \in {"begin", "run"}
    BY <1>10 DEF BeginRun, FinishRun
  <2>2. target[t] \in Run
    BY <2>1 DEF IInv, HasTarget
  <2> QED
    BY <1>1, <1>7, <1>8, <1>10, <2>2 DEF Lifecycle!Next, Lifecycle!Terminal, Terminal
<1>11. ASSUME NEW t \in Task, TaskStep(t) \/ RaiseInQueue(t) \/ RaiseInRun(t) \/ Crash(t)
       PROVE  Lifecycle!Next \/ UNCHANGED <<status, Executing>>
  BY <1>1, <1>2, <1>6, <1>10, <1>11 DEF TaskStep, Lifecycle!Next
<1>12. ASSUME NEW w \in Worker, WorkerStep(w) \/ Terminate(w)
       PROVE  Lifecycle!Next \/ UNCHANGED <<status, Executing>>
  BY <1>1, <1>3, <1>9, <1>12 DEF WorkerStep, Lifecycle!Next
<1> QED
  BY <1>1, <1>4, <1>5, <1>11, <1>12 DEF Next

\* The job machinery keeps the promises of RunLifecycle.
THEOREM Refinement == Spec => ImplementsLifecycle
  BY Invariant, InitRefines, NextRefines, PTL
  DEF Spec, ImplementsLifecycle, Lifecycle!Spec, Lifecycle!vars

---------------------------------------------------------------------------
\* A row under execution changes status only by the final write of its executor.
THEOREM ExecutorOwnsRow == Spec => OnlyExecutorEndsRun
<1>1. IInv /\ [Next]_vars =>
        [\A e \in Executing : status'[e[2]] # status[e[2]] => e \notin Executing']_vars
  <2> SUFFICES ASSUME IInv, [Next]_vars, NEW e \in Executing,
                      status'[e[2]] # status[e[2]]
               PROVE  e \notin Executing'
    OBVIOUS
  <2>1. Executing # {} /\ Executing = {e}
    <3>1. PICK t \in Task : pc[t] = "run" /\ e = <<t, target[t]>>
      BY DEF Executing
    <3> QED
      BY <3>1, ExecutingOne
  <2>2. [Lifecycle!Next]_<<status, Executing>>
    BY NextRefines
  <2>3. PICK r \in Run : status[r] \in {"RUNNING"} /\ e[2] = r
    BY DEF Executing, IInv, RunningRow, HasTarget
  <2> QED
    BY <2>1, <2>2, <2>3
    DEF Lifecycle!Next, Lifecycle!Enqueue, Lifecycle!Start, Lifecycle!Finish,
        Lifecycle!Abandon, Lifecycle!Recover, IInv, TypeOK
<1> QED
  BY <1>1, Invariant, PTL DEF Spec, OnlyExecutorEndsRun

===========================================================================
