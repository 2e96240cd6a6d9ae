--------------------------- MODULE RunLifecycle ---------------------------
(***************************************************************************)
(* What the job machinery promises about analysis_runs rows, with no locks *)
(* and no processes: a row is queued only when no other row is active, it  *)
(* starts once, at most one execution is under way at any time, a terminal *)
(* status is final, and the only other way out of RUNNING is the recovery  *)
(* of rows nobody executes any more.  AnalysisJobs implements this module. *)
(***************************************************************************)
CONSTANTS
    Run,    \* ids of analysis_runs rows
    Task    \* whoever can execute a run

VARIABLES
    status,     \* AnalysisRun.status, "ABSENT" before the row is inserted
    executing   \* pairs <<t, r>>: task t is inside the execution of run r

vars == <<status, executing>>

Terminal == {"COMPLETED", "PARTIAL", "FAILED"}
Active == {"QUEUED", "RUNNING"}
Status == {"ABSENT"} \cup Active \cup Terminal

Init ==
    /\ status = [r \in Run |-> "ABSENT"]
    /\ executing = {}

\* A row is created only while no row is QUEUED or RUNNING.
Enqueue(r) ==
    /\ status[r] = "ABSENT"
    /\ \A q \in Run : status[q] \notin Active
    /\ status' = [status EXCEPT ![r] = "QUEUED"]
    /\ UNCHANGED executing

Start(t, r) ==
    /\ executing = {}
    /\ status[r] = "QUEUED"
    /\ status' = [status EXCEPT ![r] = "RUNNING"]
    /\ executing' = {<<t, r>>}

Finish(t, r, s) ==
    /\ executing = {<<t, r>>}
    /\ status[r] = "RUNNING"
    /\ status' = [status EXCEPT ![r] = s]
    /\ executing' = {}

\* The execution stops half way; its row stays RUNNING.
Abandon ==
    /\ executing # {}
    /\ executing' = {}
    /\ UNCHANGED status

\* Every RUNNING row is failed, and only while nothing is executing.
Recover ==
    /\ executing = {}
    /\ status' = [r \in Run |-> IF status[r] = "RUNNING" THEN "FAILED" ELSE status[r]]
    /\ UNCHANGED executing

Next ==
    \/ \E r \in Run : Enqueue(r)
    \/ \E t \in Task, r \in Run : Start(t, r)
    \/ \E t \in Task, r \in Run, s \in Terminal : Finish(t, r, s)
    \/ Abandon
    \/ Recover

Spec == Init /\ [][Next]_vars

===========================================================================
