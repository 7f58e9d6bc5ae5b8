------------------------------ MODULE TaskStore ------------------------------
(***************************************************************************)
(* The tasks table (internal/store/task.go).  A row keeps the columns that *)
(* decide control: status, depends_on, session_id, attempts, whether the   *)
(* progress note is an LLM retry note, and created_at.  One SQL statement  *)
(* is one atomic step; an operator below is the table after the statement. *)
(*                                                                         *)
(* Abstracted: prompt, name, directory, result, error and summary texts,   *)
(* and available_at (a backoff only delays a claim, which may be delayed   *)
(* anyway).  created_at has a resolution of one second, so it is a coarse  *)
(* stamp that several rows may share.                                      *)
(***************************************************************************)
EXTENDS Integers

CONSTANTS Tasks,        \* ids newTaskID can hand out
          NoTask,       \* depends_on = ''
          Sessions,     \* upstream session ids
          NoSession,    \* session_id = ''
          UserSessions, \* sessions that exist before any task creates one
          MaxStamp      \* bound on the created_at stamps of one behaviour

ASSUME StoreAssumption ==
    /\ NoTask \notin Tasks
    /\ NoSession \notin Sessions
    /\ UserSessions \subseteq Sessions
    /\ MaxStamp \in Nat

VARIABLE tasks          \* the table: one row per id

-----------------------------------------------------------------------------
Terminal == {"succeeded", "failed", "canceled"}
Active   == {"queued", "running", "pending", "blocked", "scheduled"}
Stored   == Terminal \cup Active
Status   == Stored \cup {"absent", "purged"}   \* not inserted yet, deleted

Row == [status : Status, dependsOn : Tasks \cup {NoTask},
        session : Sessions \cup {NoSession}, attempts : Nat,
        llmRetry : BOOLEAN, created : 0..MaxStamp]

NoRow == [status |-> "absent", dependsOn |-> NoTask, session |-> NoSession,
          attempts |-> 0, llmRetry |-> FALSE, created |-> 0]

StoreInit == tasks = [t \in Tasks |-> NoRow]

-----------------------------------------------------------------------------
(* WHERE clauses, and the UPDATE of one column over the rows they select.  *)

InStatus(S) == {t \in Tasks : tasks[t].status \in S}

Dependents(up, S) == {t \in InStatus(S) : tasks[t].dependsOn = up}

SetStatus(where, st) ==
    [t \in Tasks |-> IF t \in where THEN [tasks[t] EXCEPT !.status = st]
                                    ELSE tasks[t]]

(* Statements that read.                                                   *)

IsTaskCanceled(t) == tasks[t].status = "canceled"

dependentIDs(up) == Dependents(up, {"pending"})

(* Statements that write.                                                  *)

\* INSERT with attempts 0; created_at is CURRENT_TIMESTAMP, so it is not
\* before the stamp of any earlier row.
CreateTaskWithStatus(t, d, s, st, stamp) ==
    [tasks EXCEPT ![t] = [NoRow EXCEPT !.status = st, !.dependsOn = d,
                                       !.session = s, !.created = stamp]]

Now(stamp) == \A t \in Tasks : tasks[t].created <= stamp

\* Faulty variant: a row another worker already runs is claimed too.
ClaimableStale(t) ==
    /\ tasks[t].status \in {"queued", "running"}
    /\ \A u \in InStatus({"queued"}) : tasks[t].created <= tasks[u].created

\* ORDER BY created_at ASC LIMIT 1: one of the oldest queued rows.
Claimable(t) ==
    /\ tasks[t].status = "queued"
    /\ \A u \in InStatus({"queued"}) : tasks[t].created <= tasks[u].created

ClaimNextTask(t) ==
    [tasks EXCEPT ![t].status = "running", ![t].attempts = @ + 1]

UpdateTaskProgress(t, isLLMRetry) ==
    IF tasks[t].status \in Stored
    THEN [tasks EXCEPT ![t].llmRetry = isLLMRetry] ELSE tasks

\* SetTaskSession and the progress note written right after it.
SetTaskSession(t, s) ==
    IF tasks[t].status \in Stored
    THEN [tasks EXCEPT ![t].session = s, ![t].llmRetry = FALSE] ELSE tasks

\* CompleteTask and FailTask are UPDATE ... WHERE id = ?: any status.
CompleteTask(t) == SetStatus({t} \cap InStatus(Stored), "succeeded")

FailTask(t) == SetStatus({t} \cap InStatus(Stored), "failed")

\* The rows RetryTask may re-queue; no row affected is ErrNotFound.
Retriable == InStatus({"failed"})

RetryTask(t) == SetStatus({t} \cap Retriable, "queued")

\* Faulty variant: no guard on the status.
CancelableAny == InStatus(Stored)

Cancelable == InStatus({"queued", "pending", "running"})

CancelTask(t) == SetStatus({t} \cap Cancelable, "canceled")

CancelScheduledTask(t) == SetStatus({t} \cap InStatus({"scheduled"}), "canceled")

\* Faulty variants: no guard on the status of the dependents; the wrong one.
PromoteAllDependents(up) == SetStatus(Dependents(up, Stored), "queued")

PromoteBlockedDependents(up) == SetStatus(Dependents(up, {"blocked"}), "queued")

PromotePendingDependents(up) ==
    SetStatus(Dependents(up, {"pending", "blocked"}), "queued")

\* The UPDATE of BlockDependents; its SELECT is dependentIDs.
BlockDependents(up) == SetStatus(Dependents(up, {"pending"}), "blocked")

UnblockTask(t) == SetStatus({t} \cap InStatus({"blocked"}), "queued")

PromoteScheduledTask(t) == SetStatus({t} \cap InStatus({"scheduled"}), "queued")

\* Faulty variant: cancelled rows run again.
RecoverCanceled == SetStatus(InStatus({"running", "canceled"}), "queued")

RecoverStaleRunning == SetStatus(InStatus({"running"}), "queued")

\* Faulty variant: waiters do not count as active.
PurgeableWaited == {t \in InStatus(Terminal) : Dependents(t, {"queued", "running"}) = {}}

\* Terminal rows no active row depends on.
Purgeable == {t \in InStatus(Terminal) : Dependents(t, Active) = {}}

\* One DELETE.  The cutoff and the limit of the pass decide which purgeable
\* rows go.
PurgeFinishedTasks(gone) == SetStatus(gone \cap Purgeable, "purged")

=============================================================================
