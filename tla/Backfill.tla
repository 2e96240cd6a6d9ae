----------------------------- MODULE Backfill -----------------------------
(***************************************************************************)
(* research/backfill.py: a resumable walk over windows x leagues x pages.  *)
(* Each page has a durable checkpoint; the page's results and its COMPLETED*)
(* checkpoint commit in one transaction.  A command (variant of window and *)
(* season options, so of checkpoint keys) may be stopped by max_pages, by  *)
(* an error or by process death, and is simply run again.                  *)
(*                                                                         *)
(* The analysis-execute lock keeps two commands apart (AnalysisJobs), so   *)
(* there is one walk at a time here.                                       *)
(***************************************************************************)
EXTENDS Naturals, Sequences

CONSTANTS
    Fixture,
    Kind,       \* Kind[f]: "final" is archived, "bad" rejected, "open" ignored
    Variant,    \* the commands: each has checkpoint keys of its own
    Pages,      \* Pages[v][i][p]: the fixtures on page p of the i-th window and league
    MaxPages,   \* max_pages of one command
    PageBound,  \* 1000 in the code
    MaxCalls,   \* bound on the times each command is given
    MaxFaults   \* bound on errors and crashes

Key == UNION {UNION {{<<v, i, p>> : p \in 1..Len(Pages[v][i])} : i \in 1..Len(Pages[v])} :
                v \in Variant}

ASSUME PagesAssumption ==
    /\ Kind \in [Fixture -> {"final", "bad", "open"}]
    /\ Pages \in [Variant -> Seq(Seq(SUBSET Fixture) \ {<<>>}) \ {<<>>}]

ASSUME BoundAssumption ==
    /\ MaxPages \in Nat \ {0}
    /\ PageBound \in Nat \ {0}
    /\ MaxCalls \in Nat
    /\ MaxFaults \in Nat

VARIABLES
    checkpoint, \* status of each backfill_page artifact, "NONE" if there is none
    attempts,   \* its payload's attempt counter
    outcomes,   \* number of backfill_attempt artifacts of the page
    firstSeen,  \* the command that archived a fixture (its available_at), 0 if none did
    pc,
    cursor,     \* command, window and page the walk is at
    completed,  \* pages completed by this command
    todo,       \* rows of the fetched page not yet looked at
    pending,    \* results added to the open transaction
    calls,      \* commands so far: the time of what they write
    given,      \* how often each was given
    result,     \* what the last command returned, "NONE" while it runs or if it died
    faults

durable == <<checkpoint, attempts, outcomes, firstSeen>>
vars == <<checkpoint, attempts, outcomes, firstSeen, pc, cursor, completed, todo, pending,
          calls, given, result, faults>>

Rows(k) == Pages[k[1]][k[2]][k[3]]
HasMore(k) == k[3] < Len(Pages[k[1]][k[2]])

\* The pages of the same command the walk passes before k.
Before(k) == {m \in Key : m[1] = k[1] /\ (m[2] < k[2] \/ (m[2] = k[2] /\ m[3] < k[3]))}

Init ==
    /\ checkpoint = [k \in Key |-> "NONE"]
    /\ attempts = [k \in Key |-> 0]
    /\ outcomes = [k \in Key |-> 0]
    /\ firstSeen = [f \in Fixture |-> 0]
    /\ pc = "off"
    /\ cursor \in {k \in Key : k[2] = 1 /\ k[3] = 1}
    /\ completed = 0
    /\ todo = {}
    /\ pending = {}
    /\ calls = 0
    /\ given = [v \in Variant |-> 0]
    /\ result = "NONE"
    /\ faults = 0

Spend == faults < MaxFaults /\ faults' = faults + 1

---------------------------------------------------------------------------
Start(v) ==
    /\ pc = "off"
    /\ given[v] < MaxCalls
    /\ given' = [given EXCEPT ![v] = @ + 1]
    /\ calls' = calls + 1
    /\ cursor' = <<v, 1, 1>>
    /\ completed' = 0
    /\ result' = "NONE"
    /\ pc' = "seek"
    /\ UNCHANGED <<durable, todo, pending, faults>>

Return(answer) ==
    /\ pc' = "off"
    /\ result' = answer

\* Go on to the next page, the next window or league, or return COMPLETED.
Advance ==
    \/ /\ HasMore(cursor)
       /\ cursor' = [cursor EXCEPT ![3] = @ + 1]
       /\ pc' = "seek"
       /\ UNCHANGED result
    \/ /\ ~HasMore(cursor)
       /\ cursor[2] < Len(Pages[cursor[1]])
       /\ cursor' = <<cursor[1], cursor[2] + 1, 1>>
       /\ pc' = "seek"
       /\ UNCHANGED result
    \/ /\ ~HasMore(cursor)
       /\ cursor[2] = Len(Pages[cursor[1]])
       /\ Return("COMPLETED")
       /\ UNCHANGED cursor

\* Mutant: any page with a checkpoint is taken for done.
SkipCompleted_AnyCheckpoint ==
    /\ pc = "seek"
    /\ checkpoint[cursor] # "NONE"
    /\ Advance
    /\ UNCHANGED <<durable, completed, todo, pending, calls, given, faults>>

\* A COMPLETED page is passed over; its stored has_more leads on.
SkipCompleted ==
    /\ pc = "seek"
    /\ checkpoint[cursor] = "COMPLETED"
    /\ Advance
    /\ UNCHANGED <<durable, completed, todo, pending, calls, given, faults>>

Pause ==
    /\ pc = "seek"
    /\ checkpoint[cursor] # "COMPLETED"
    /\ completed >= MaxPages
    /\ Return("PAUSED")
    /\ UNCHANGED <<durable, cursor, completed, todo, pending, calls, given, faults>>

\* Mutant: a RUNNING checkpoint is left to the process that claimed it.
Claim_Respectful ==
    /\ pc = "seek"
    /\ checkpoint[cursor] \in {"NONE", "FAILED"}
    /\ completed < MaxPages
    /\ checkpoint' = [checkpoint EXCEPT ![cursor] = "RUNNING"]
    /\ attempts' = [attempts EXCEPT ![cursor] = @ + 1]
    /\ pc' = "fetch"
    /\ UNCHANGED <<outcomes, firstSeen, cursor, completed, todo, pending, calls, given, result, faults>>

\* The attempt is committed before the provider is asked; QUEUED, FAILED and RUNNING
\* (its process died) checkpoints are treated alike.
Claim ==
    /\ pc = "seek"
    /\ checkpoint[cursor] # "COMPLETED"
    /\ completed < MaxPages
    /\ checkpoint' = [checkpoint EXCEPT ![cursor] = "RUNNING"]
    /\ attempts' = [attempts EXCEPT ![cursor] = @ + 1]
    /\ pc' = "fetch"
    /\ UNCHANGED <<outcomes, firstSeen, cursor, completed, todo, pending, calls, given, result, faults>>

Fetch ==
    /\ pc = "fetch"
    /\ todo' = Rows(cursor)
    /\ pending' = {}
    /\ pc' = "persist"
    /\ UNCHANGED <<durable, cursor, completed, calls, given, result, faults>>

\* Mutant: a row is committed on its own.
PersistRow_Autocommit(f) ==
    /\ pc = "persist"
    /\ f \in todo
    /\ todo' = todo \ {f}
    /\ firstSeen' = IF Kind[f] = "final" /\ firstSeen[f] = 0
                    THEN [firstSeen EXCEPT ![f] = calls] ELSE firstSeen
    /\ UNCHANGED <<checkpoint, attempts, outcomes, pc, cursor, completed, pending, calls, given,
                   result, faults>>

\* persist_result in its own savepoint: a result that is not final is not archived, a
\* malformed one is rolled back and rejected; the page goes on.
PersistRow(f) ==
    /\ pc = "persist"
    /\ f \in todo
    /\ todo' = todo \ {f}
    /\ pending' = IF Kind[f] = "final" THEN pending \cup {f} ELSE pending
    /\ UNCHANGED <<durable, pc, cursor, completed, calls, given, result, faults>>

\* Mutant: a result archived before is written anew.
CommitPage_Overwrites ==
    /\ pc = "persist"
    /\ todo = {}
    /\ checkpoint' = [checkpoint EXCEPT ![cursor] = "COMPLETED"]
    /\ outcomes' = [outcomes EXCEPT ![cursor] = @ + 1]
    /\ firstSeen' = [f \in Fixture |-> IF f \in pending THEN calls ELSE firstSeen[f]]
    /\ completed' = completed + 1
    /\ Advance
    /\ UNCHANGED <<attempts, todo, pending, calls, given, faults>>

\* Results, COMPLETED checkpoint and attempt record in one commit.  artifact() returns
\* the existing row of a result archived before.  Then the page number is checked
\* against the bound; only this path checks it.
CommitPage ==
    /\ pc = "persist"
    /\ todo = {}
    /\ checkpoint' = [checkpoint EXCEPT ![cursor] = "COMPLETED"]
    /\ outcomes' = [outcomes EXCEPT ![cursor] = @ + 1]
    /\ firstSeen' = [f \in Fixture |->
                        IF f \in pending /\ firstSeen[f] = 0 THEN calls ELSE firstSeen[f]]
    /\ completed' = completed + 1
    /\ \/ /\ HasMore(cursor) /\ cursor[3] + 1 > PageBound
          /\ Return("RAISED")
          /\ UNCHANGED cursor
       \/ /\ ~(HasMore(cursor) /\ cursor[3] + 1 > PageBound)
          /\ Advance
    /\ UNCHANGED <<attempts, todo, pending, calls, given, faults>>

\* A provider error, or a database error in a row or in the commit: rollback.
Error ==
    /\ pc \in {"fetch", "persist"}
    /\ todo' = {}
    /\ pending' = {}
    /\ pc' = "mark"
    /\ Spend
    /\ UNCHANGED <<durable, cursor, completed, calls, given, result>>

\* FAILED checkpoint and attempt record in one commit; the command stops here.
MarkFailed ==
    /\ pc = "mark"
    /\ checkpoint' = [checkpoint EXCEPT ![cursor] = "FAILED"]
    /\ outcomes' = [outcomes EXCEPT ![cursor] = @ + 1]
    /\ Return("FAILED")
    /\ UNCHANGED <<attempts, firstSeen, cursor, completed, todo, pending, calls, given, faults>>

\* The process dies; the open transaction is lost.
Crash ==
    /\ pc # "off"
    /\ pc' = "off"
    /\ todo' = {}
    /\ pending' = {}
    /\ Spend
    /\ UNCHANGED <<durable, cursor, completed, calls, given, result>>

Step ==
    \/ SkipCompleted \/ Pause \/ Claim \/ Fetch
    \/ \E f \in Fixture : PersistRow(f)
    \/ CommitPage \/ MarkFailed

Next == (\E v \in Variant : Start(v)) \/ Step \/ Error \/ Crash

Spec == Init /\ [][Next]_vars

\* A command that runs goes on, and the operator repeats each command.
FairSpec == Spec /\ WF_vars(Step) /\ \A v \in Variant : SF_vars(Start(v))

---------------------------------------------------------------------------
(* Properties *)

TypeOK ==
    /\ checkpoint \in [Key -> {"NONE", "RUNNING", "COMPLETED", "FAILED"}]
    /\ attempts \in [Key -> Nat]
    /\ outcomes \in [Key -> Nat]
    /\ firstSeen \in [Fixture -> Nat]
    /\ pc \in {"off", "seek", "fetch", "persist", "mark"}
    /\ cursor \in Key
    /\ completed \in Nat
    /\ todo \subseteq Fixture
    /\ pending \subseteq Fixture
    /\ calls \in Nat
    /\ given \in [Variant -> Nat]
    /\ result \in {"NONE", "COMPLETED", "PAUSED", "FAILED", "RAISED"}
    /\ faults \in Nat

\* "Each page's results ... and checkpoint commit atomically": the archive holds exactly
\* the final results of COMPLETED pages, whatever failed or died in between.
AtomicPages ==
    {f \in Fixture : firstSeen[f] # 0} =
        {f \in Fixture : Kind[f] = "final" /\
            \E k \in Key : checkpoint[k] = "COMPLETED" /\ f \in Rows(k)}

\* A walk never leaves an incomplete page behind, so COMPLETED means all of the range and
\* a resume key names the first page still to do.
NothingSkipped ==
    /\ \A k \in Before(cursor) : calls > 0 => checkpoint[k] = "COMPLETED"
    /\ result \in {"COMPLETED", "RAISED"} => checkpoint[cursor] = "COMPLETED"
    /\ result \in {"PAUSED", "FAILED"} => checkpoint[cursor] # "COMPLETED"

\* first-observed time and COMPLETED are final, also when another command fetches the
\* same fixtures under other keys.
FirstObservationKept ==
    [][/\ \A f \in Fixture : firstSeen[f] # 0 => firstSeen'[f] = firstSeen[f]
       /\ \A k \in Key : checkpoint[k] = "COMPLETED" => checkpoint'[k] = "COMPLETED"]_vars

\* Repeating the commands completes every page in spite of errors and crashes.
EverythingArchived ==
    <>(\A k \in Key : checkpoint[k] = "COMPLETED")

===========================================================================
