-------------------------- MODULE MCAnalysisJobs --------------------------
(* Instances of AnalysisJobs for TLC. *)
EXTENDS AnalysisJobs, TLC

CONSTANTS w1, w2, c1, c2

\* Each worker process has one scheduler job, c1 in w1 and c2 in w2.
HostMap == [c \in Cron |-> IF c = c1 THEN w1 ELSE w2]

NoFaults == [f \in Fault |-> 0]
OneOfEach == [f \in Fault |-> 1]
OneTermination == [f \in Fault |-> IF f = "term" THEN 1 ELSE 0]
TwoTerminations == [f \in Fault |-> IF f = "term" THEN 2 ELSE 0]
RaiseAndTerminate == [f \in Fault |-> IF f = "crash" THEN 0 ELSE 1]
CrashAndTerminate == [f \in Fault |-> IF f = "raise" THEN 0 ELSE 1]

===========================================================================
