-------------------------- MODULE TaskSystemProofs --------------------------
(* Theorems about TaskSystem for every value of its constants. *)
EXTENDS TaskSystem, TLAPS

USE StoreAssumption, ExecutorAssumption, APIAssumption, SystemAssumption

(* A statement that sets a status leaves every other column alone. *)
LEMMA SetStatusRow ==
    ASSUME tasks \in [Tasks -> Row], NEW where, NEW st \in Status
    PROVE  /\ SetStatus(where, st) \in [Tasks -> Row]
           /\ \A t \in Tasks :
                /\ SetStatus(where, st)[t].status =
                        IF t \in where THEN st ELSE tasks[t].status
                /\ SetStatus(where, st)[t].dependsOn = tasks[t].dependsOn
                /\ SetStatus(where, st)[t].session = tasks[t].session
                /\ SetStatus(where, st)[t].attempts = tasks[t].attempts
                /\ SetStatus(where, st)[t].llmRetry = tasks[t].llmRetry
BY DEF SetStatus, Row, Status

(* Every statement that writes keeps the table well-typed. *)
LEMMA StatementTypes ==
    ASSUME tasks \in [Tasks -> Row], NEW t \in Tasks \cup {NoTask}, NEW gone
    PROVE  /\ CompleteTask(t) \in [Tasks -> Row]
           /\ FailTask(t) \in [Tasks -> Row]
           /\ RetryTask(t) \in [Tasks -> Row]
           /\ CancelTask(t) \in [Tasks -> Row]
           /\ CancelScheduledTask(t) \in [Tasks -> Row]
           /\ PromotePendingDependents(t) \in [Tasks -> Row]
           /\ BlockDependents(t) \in [Tasks -> Row]
           /\ UnblockTask(t) \in [Tasks -> Row]
           /\ PromoteScheduledTask(t) \in [Tasks -> Row]
           /\ RecoverStaleRunning \in [Tasks -> Row]
           /\ PurgeFinishedTasks(gone) \in [Tasks -> Row]
BY SetStatusRow DEF CompleteTask, FailTask, RetryTask, CancelTask,
    CancelScheduledTask, PromotePendingDependents, BlockDependents,
    UnblockTask, PromoteScheduledTask, RecoverStaleRunning,
    PurgeFinishedTasks, Status, Stored, Terminal, Active

(* So do the statements that write other columns. *)
LEMMA ColumnTypes ==
    ASSUME tasks \in [Tasks -> Row], NEW t \in Tasks \cup {NoTask},
           NEW b \in BOOLEAN, NEW s \in Sessions \cup {NoSession}
    PROVE  /\ UpdateTaskProgress(t, b) \in [Tasks -> Row]
           /\ SetTaskSession(t, s) \in [Tasks -> Row]
<1>1. [tasks EXCEPT ![t].llmRetry = b] \in [Tasks -> Row]
  <2>1. CASE t \in Tasks  BY <2>1 DEF Row
  <2>2. CASE t \notin Tasks  BY <2>2
  <2> QED  BY <2>1, <2>2
<1>2. [tasks EXCEPT ![t].session = s, ![t].llmRetry = FALSE] \in [Tasks -> Row]
  <2>1. CASE t \in Tasks  BY <2>1 DEF Row
  <2>2. CASE t \notin Tasks  BY <2>2
  <2> QED  BY <2>1, <2>2
<1> QED
  BY <1>1, <1>2 DEF UpdateTaskProgress, SetTaskSession

(* An INSERT keeps the type of the table (CreateTaskWithStatus). *)
LEMMA InsertType ==
    ASSUME tasks \in [Tasks -> Row], NEW t \in Tasks \cup {NoTask},
           NEW d \in Tasks \cup {NoTask}, NEW s \in Sessions \cup {NoSession},
           NEW st \in Status, NEW stamp \in 0..MaxStamp
    PROVE  CreateTaskWithStatus(t, d, s, st, stamp) \in [Tasks -> Row]
<1> DEFINE row == [NoRow EXCEPT !.status = st, !.dependsOn = d,
                                !.session = s, !.created = stamp]
<1>1. row \in Row
  BY DEF NoRow, Row
<1> QED
  BY <1>1 DEF CreateTaskWithStatus

(* The initial state is well-typed. *)
LEMMA TypeInit == Init => TypeOK
BY DEF Init, StoreInit, ExecInit, APIInit, TypeOK, NoRow, Row, Status, Stored,
    Terminal, Active, PC, Job, NoJob, HPC, Request, NoRequest

(* What a worker's step does to its own state is well-typed. *)
WorkerTypes ==
    /\ phase \in {"recovering", "up"}
    /\ wpc \in [Workers -> PC]
    /\ job \in [Workers -> Job]
    /\ gate \in [Sessions -> Workers \cup {NoWorker}]

(* A step inside execute keeps the type of the executor's state. *)
LEMMA StepTypes ==
    ASSUME TypeOK, NEW w \in Workers, NEW from, NEW to \in PC, Step(w, from, to)
    PROVE  WorkerTypes'
BY DEF TypeOK, WorkerTypes, Step, Goto

(* The return of execute keeps the type of the executor's state. *)
LEMMA ReturnTypes ==
    ASSUME TypeOK, NEW w \in Workers, NEW from, Return(w, from)
    PROVE  WorkerTypes'
BY DEF TypeOK, WorkerTypes, Return, Goto, PC, Job, NoJob

(* Every step of a worker, from the claim to the outcome, keeps the types. *)
LEMMA TypeWorker ==
    ASSUME TypeOK, NEW w \in Workers, WorkerNext(w)
    PROVE  tasks' \in [Tasks -> Row] /\ WorkerTypes'
<1>0. /\ job[w].task \in Tasks \cup {NoTask}
      /\ job[w].session \in Sessions \cup {NoSession}
      /\ tasks \in [Tasks -> Row]
  BY DEF TypeOK, Job
<1>1. CASE Claim(w)
  BY <1>1 DEF Claim, ClaimNextTask, Row, Status, Stored, Active, TypeOK, Goto,
      WorkerTypes, PC, Job
<1>2. CASE Lock(w)
  BY <1>2 DEF Lock, TypeOK, Goto, WorkerTypes, PC
<1>3. CASE Deadline(w)
  BY <1>0, <1>3, StepTypes DEF Deadline, PC
<1>4. CASE WorkerStep(w)
  <2> USE <1>0 DEF PC
  <2>1. CASE CheckCanceled(w)  BY <2>1, StepTypes DEF CheckCanceled
  <2>2. CASE CreateSession(w)
    BY <2>2 DEF CreateSession, FreshSessions, TypeOK, Goto, WorkerTypes, Job
  <2>3. CASE CreateSessionFails(w)  BY <2>3, StepTypes DEF CreateSessionFails
  <2>4. CASE RecordSession(w)  BY <2>4, StepTypes, ColumnTypes DEF RecordSession
  <2>5. CASE PromptAdmitted(w)  BY <2>5, StepTypes, ColumnTypes DEF PromptAdmitted
  <2>6. CASE PromptFails(w)  BY <2>6, StepTypes DEF PromptFails
  <2>7. CASE WaitCanceled(w)  BY <2>7, StepTypes DEF WaitCanceled
  <2>8. CASE SessionBusy(w)  BY <2>8, StepTypes, ColumnTypes DEF SessionBusy
  <2>9. CASE SessionIdle(w)  BY <2>9, StepTypes DEF SessionIdle
  <2>10. CASE PollFails(w)  BY <2>10, StepTypes DEF PollFails
  <2>11. CASE LastAssistantText(w)  BY <2>11, StepTypes DEF LastAssistantText
  <2>12. CASE CollectFails(w)  BY <2>12, StepTypes DEF CollectFails
  <2>13. CASE Complete(w)  BY <2>13, StepTypes, StatementTypes DEF Complete
  <2>14. CASE Promote(w)  BY <2>14, ReturnTypes, StatementTypes DEF Promote
  <2>15. CASE FailWithRetry(w)
    BY <2>15, StepTypes, ReturnTypes, StatementTypes DEF FailWithRetry
  <2>16. CASE DecideRetry(w)  BY <2>16, StepTypes, StatementTypes DEF DecideRetry
  <2>17. CASE NoteLLMRetry(w)  BY <2>17, ReturnTypes, ColumnTypes DEF NoteLLMRetry
  <2>18. CASE Escalate(w)  BY <2>18, StepTypes DEF Escalate
  <2>19. CASE Fail(w)  BY <2>19, StepTypes, StatementTypes DEF Fail
  <2>20. CASE BlockSelect(w)
    <3>1. CASE dependentIDs(job[w].task) = {}
      BY <2>20, <3>1, ReturnTypes DEF BlockSelect
    <3>2. CASE dependentIDs(job[w].task) # {}
      <4>1. dependentIDs(job[w].task) \in SUBSET Tasks
        BY DEF dependentIDs, Dependents, InStatus
      <4>2. /\ Goto(w, "blockselect", "blockupdate")
            /\ job' = [job EXCEPT ![w].ids = dependentIDs(job[w].task)]
            /\ UNCHANGED <<tasks, phase, gate>>
        BY <2>20, <3>2 DEF BlockSelect
      <4> QED
        BY <4>1, <4>2 DEF TypeOK, Goto, WorkerTypes, Job
    <3> QED  BY <3>1, <3>2
  <2>21. CASE BlockUpdate(w)  BY <2>21, ReturnTypes, StatementTypes DEF BlockUpdate
  <2>22. CASE Panic(w)  BY <2>22, ReturnTypes, StatementTypes DEF Panic
  <2> QED
    BY <1>4, <2>1, <2>2, <2>3, <2>4, <2>5, <2>6, <2>7, <2>8, <2>9, <2>10,
       <2>11, <2>12, <2>13, <2>14, <2>15, <2>16, <2>17, <2>18, <2>19, <2>20,
       <2>21, <2>22 DEF WorkerStep
<1> QED
  BY <1>1, <1>2, <1>3, <1>4 DEF WorkerNext

(* What a request's step does is well-typed. *)
APITypes ==
    /\ hpc \in [Handlers -> HPC]
    /\ req \in [Handlers -> Request]
    /\ \A h \in Handlers : hpc[h] # "idle" => req[h].task \in Tasks

(* A handler that answers keeps the type of the request state. *)
LEMMA RespondTypes ==
    ASSUME TypeOK, NEW h \in Handlers, NEW from, Respond(h, from)
    PROVE  APITypes'
<1>1. NoRequest \in Request  BY DEF NoRequest, Request, Status
<1> QED
  BY <1>1 DEF TypeOK, APITypes, Respond, HPC

(* A handler that goes on to its next statement keeps the types. *)
LEMMA ContinueTypes ==
    ASSUME TypeOK, NEW h \in Handlers, NEW from, NEW to \in HPC,
           NEW r \in Request, r.task \in Tasks, Continue(h, from, to, r)
    PROVE  APITypes'
BY DEF TypeOK, APITypes, Continue

(* Every step of a task endpoint keeps the types. *)
LEMMA TypeHandler ==
    ASSUME TypeOK, NEW h \in Handlers, HandlerNext(h)
    PROVE  tasks' \in [Tasks -> Row] /\ APITypes' /\ late' \in SUBSET Tasks
<1>0. /\ tasks \in [Tasks -> Row]
      /\ late \in SUBSET Tasks
      /\ req[h] \in Request
      /\ req[h].task \in Tasks \cup {NoTask}
      /\ hpc[h] # "idle" => req[h].task \in Tasks
      /\ \A t \in Tasks : OnTask(t) \in Request /\ OnTask(t).task = t
      /\ Nameable \subseteq Sessions \cup {NoSession}
      /\ APITypes
  BY DEF TypeOK, APITypes, Request, NoRequest, OnTask, Status, Nameable, Row
<1>1. CASE CreateScheduled(h)
  <2>1. PICK t \in Schedulable, d \in Tasks \cup {NoTask}, s \in Nameable,
             stamp \in 0..MaxStamp :
            tasks' = CreateTaskWithStatus(t, d, s, "scheduled", stamp)
    BY <1>1 DEF CreateScheduled
  <2>2. tasks' \in [Tasks -> Row]
    BY <1>0, <2>1, InsertType DEF Status, Stored, Active
  <2> QED
    BY <1>0, <1>1, <2>2 DEF CreateScheduled, apiVars, APITypes
<1>b. CASE handleBatch(h)
  <2>1. PICK t \in Tasks, s \in Nameable, stamp \in 0..MaxStamp :
            tasks' = CreateTaskWithStatus(t, NoTask, s, "queued", stamp)
    BY <1>b DEF handleBatch
  <2>2. tasks' \in [Tasks -> Row]
    BY <1>0, <2>1, InsertType DEF Status, Stored, Active
  <2> QED
    BY <1>0, <1>b, <2>2 DEF handleBatch, apiVars, APITypes
<1>2. CASE CreateRead(h)
  <2>1. PICK t \in Tasks, d \in Tasks \cup {NoTask}, s \in Nameable :
            /\ Continue(h, "idle", "insert",
                        [task |-> t, dependsOn |-> d, session |-> s,
                         status |-> InitialStatus(d), ids |-> {}])
            /\ UNCHANGED <<tasks, late>>
    BY <1>2 DEF CreateRead
  <2>2. InitialStatus(d) \in Status
    BY DEF InitialStatus, Status, Stored, Active
  <2> QED
    BY <1>0, <2>1, <2>2, ContinueTypes DEF HPC, Request
<1>3. CASE Delete(h)
  BY <1>0, <1>3, StatementTypes, ContinueTypes DEF Delete, HPC, InStatus
<1>4. CASE Unblock(h)
  <2>1. tasks' \in [Tasks -> Row]
    BY <1>0, <1>4, StatementTypes DEF Unblock, InStatus
  <2> QED
    BY <1>0, <1>4, <2>1 DEF Unblock, apiVars, APITypes
<1>5. CASE CreateInsert(h)
  <2>1. Respond(h, "insert") /\ req[h].task \in Tasks
    BY <1>0, <1>5 DEF CreateInsert, Respond
  <2>2. tasks' \in [Tasks -> Row]
    BY <1>0, <1>5, InsertType DEF CreateInsert, Request
  <2>3. late' = late \/ late' = late \cup {req[h].task}
    BY <1>5 DEF CreateInsert
  <2> QED
    BY <1>0, <2>1, <2>2, <2>3, RespondTypes
<1>6. CASE DeleteScheduled(h)
  BY <1>0, <1>6, StatementTypes, RespondTypes DEF DeleteScheduled
<1>7. CASE DeleteBlockSelect(h)
  <2>1. dependentIDs(req[h].task) \in SUBSET Tasks
    BY DEF dependentIDs, Dependents, InStatus
  <2>2. CASE Respond(h, "blockselect")
    BY <1>0, <1>7, <2>2, RespondTypes DEF DeleteBlockSelect
  <2>3. CASE Continue(h, "blockselect", "blockupdate",
                      [req[h] EXCEPT !.ids = dependentIDs(req[h].task)])
    <3>1. hpc[h] = "blockselect"  BY <2>3 DEF Continue
    <3>2. /\ [req[h] EXCEPT !.ids = dependentIDs(req[h].task)] \in Request
          /\ [req[h] EXCEPT !.ids = dependentIDs(req[h].task)].task = req[h].task
      BY <1>0, <2>1 DEF Request
    <3> QED
      BY <1>0, <1>7, <2>3, <3>1, <3>2, ContinueTypes DEF DeleteBlockSelect, HPC
  <2> QED  BY <1>7, <2>2, <2>3 DEF DeleteBlockSelect
<1>8. CASE DeleteBlockUpdate(h)
  BY <1>0, <1>8, StatementTypes, RespondTypes DEF DeleteBlockUpdate
<1> QED
  BY <1>1, <1>b, <1>2, <1>3, <1>4, <1>5, <1>6, <1>7, <1>8 DEF HandlerNext, HandlerStep

(* Every step keeps every variable in its type. *)
LEMMA TypeStep == TypeOK /\ [Next]_vars => TypeOK'
<1> SUFFICES ASSUME TypeOK, [Next]_vars PROVE TypeOK'
  OBVIOUS
<1>1. CASE ExecutorNext
  <2>1. CASE Recover
    BY <1>1, <2>1, StatementTypes DEF ExecutorNext, Recover, TypeOK
  <2>2. CASE \E w \in Workers : WorkerNext(w)
    BY <1>1, <2>2, TypeWorker DEF ExecutorNext, WorkerTypes, TypeOK
  <2> QED  BY <1>1, <2>1, <2>2 DEF ExecutorNext
<1>2. CASE ServerNext
  BY <1>2, TypeHandler DEF ServerNext, APITypes, TypeOK
<1>3. CASE Poll
  BY <1>3, StatementTypes DEF Poll, TypeOK, InStatus
<1>4. CASE Purge
  BY <1>4, StatementTypes DEF Purge, TypeOK
<1>5. CASE Crash
  BY <1>5 DEF Crash, ExecCrash, APICrash, TypeOK, PC, Job, NoJob, HPC, Request,
      NoRequest, Status
<1>6. CASE UNCHANGED vars
  BY <1>6 DEF vars, TypeOK
<1> QED
  BY <1>1, <1>2, <1>3, <1>4, <1>5, <1>6 DEF Next

(* The type invariant of the task queue holds for any number of tasks,     *)
(* workers, requests and restarts.                                         *)
THEOREM TypeCorrect == Spec => []TypeOK
<1>1. Init => TypeOK  BY TypeInit
<1>2. TypeOK /\ [Next]_vars => TypeOK'  BY TypeStep
<1> QED  BY <1>1, <1>2, PTL DEF Spec

-----------------------------------------------------------------------------
(***************************************************************************)
(* The invariants follow from what one step can do to one row, and to one  *)
(* worker.  RowMove lists the ways a status can change, with who is        *)
(* allowed to cause it; WorkerMove the ways a worker can advance.          *)
(***************************************************************************)
SameRow(t) == /\ tasks'[t].status = tasks[t].status
              /\ tasks'[t].attempts = tasks[t].attempts

Submitted(t) ==
    /\ tasks[t].status = "absent"
    /\ tasks'[t].status \in {"queued", "pending", "scheduled"}
    /\ tasks'[t].attempts = 0
    /\ \/ \A h \in Handlers : req[h].task # t
       \/ \E h \in Handlers : hpc[h] = "insert" /\ req[h].task = t /\ hpc'[h] = "idle"

Started(t) ==
    /\ tasks[t].status = "queued" /\ tasks'[t].status = "running"
    /\ tasks'[t].attempts = tasks[t].attempts + 1
    /\ phase = "up" /\ phase' = "up"
    /\ \E w \in Workers : wpc[w] = "idle" /\ wpc'[w] # "idle" /\ job'[w].task = t

Settled(t) ==
    /\ tasks[t].status \in {"running", "canceled"}
    /\ tasks'[t].status \in {"succeeded", "failed"}
    /\ tasks'[t].attempts = tasks[t].attempts
    /\ \E w \in Workers :
        /\ wpc[w] \in Undecided /\ job[w].task = t /\ wpc'[w] \notin Undecided

\* The edges any client, the scheduler or the purge may take at any time.
Edge(a, b) ==
    \/ a \in {"queued", "pending", "running", "scheduled"} /\ b = "canceled"
    \/ a \in {"scheduled", "pending", "blocked"} /\ b = "queued"
    \/ a = "pending" /\ b = "blocked"
    \/ a \in Terminal /\ b = "purged"

Moved(t) == /\ Edge(tasks[t].status, tasks'[t].status)
            /\ tasks'[t].attempts = tasks[t].attempts

Requeued(t) ==
    /\ tasks[t].status = "running" /\ tasks'[t].status = "queued"
    /\ tasks'[t].attempts = tasks[t].attempts
    /\ phase = "recovering"

RowMove(t) == SameRow(t) \/ Submitted(t) \/ Started(t) \/ Settled(t)
              \/ Moved(t) \/ Requeued(t)

SameWorker(w) == wpc'[w] = wpc[w] /\ job'[w].task = job[w].task

Decided == {"promote", "blockselect", "blockupdate"}

WorkerMove(w) ==
    \/ /\ wpc[w] = "idle" /\ wpc'[w] \in Undecided
       /\ \E t \in Tasks : /\ tasks[t].status = "queued" /\ tasks'[t].status = "running"
                           /\ job'[w].task = t
    \/ /\ wpc[w] # "idle" /\ wpc'[w] = "idle"
       /\ \/ wpc[w] \in Decided
          \/ tasks'[job[w].task].status # "running"
          \/ LLMEnabled /\ tasks'[job[w].task].llmRetry
    \/ /\ wpc[w] \in Undecided /\ wpc'[w] \in Undecided
       /\ job'[w].task = job[w].task
    \/ /\ wpc[w] \in Undecided /\ wpc'[w] \in Decided
       /\ job'[w].task = job[w].task
       /\ tasks'[job[w].task].status \in Terminal \cup {"purged"}
    \/ /\ wpc[w] \in Decided /\ wpc'[w] \in Decided
       /\ job'[w].task = job[w].task

(* Statements that write other columns keep status and attempts. *)
LEMMA ColumnEffects ==
    ASSUME tasks \in [Tasks -> Row], NEW t \in Tasks, NEW b \in BOOLEAN,
           NEW s \in Sessions \cup {NoSession}, NEW u \in Tasks
    PROVE  /\ UpdateTaskProgress(t, b)[u].status = tasks[u].status
           /\ UpdateTaskProgress(t, b)[u].attempts = tasks[u].attempts
           /\ SetTaskSession(t, s)[u].status = tasks[u].status
           /\ SetTaskSession(t, s)[u].attempts = tasks[u].attempts
BY DEF UpdateTaskProgress, SetTaskSession, Row

(* A step inside execute, and its return, concern one worker only. *)
LEMMA StepEffect ==
    ASSUME IInv, NEW w \in Workers, NEW from, NEW to \in PC, Step(w, from, to)
    PROVE  /\ wpc[w] = from /\ wpc'[w] = to /\ job'[w].task = job[w].task
           /\ \A v \in Workers \ {w} : SameWorker(v)
           /\ phase' = phase
BY DEF IInv, TypeOK, Step, Goto, SameWorker

(* What the return of execute changes for the worker, and what it leaves. *)
LEMMA ReturnEffect ==
    ASSUME IInv, NEW w \in Workers, NEW from, Return(w, from)
    PROVE  /\ wpc[w] = from /\ wpc'[w] = "idle"
           /\ \A v \in Workers \ {w} : SameWorker(v)
           /\ phase' = phase
BY DEF IInv, TypeOK, Return, Goto, SameWorker

(* The statements that end a task, on a row the worker still owns. *)
LEMMA OutcomeEffect ==
    ASSUME IInv, NEW w \in Workers, wpc[w] \in Undecided, NEW u \in Tasks,
           NEW st \in {"succeeded", "failed"},
           tasks' = SetStatus({job[w].task} \cap InStatus(Stored), st),
           wpc'[w] \notin Undecided
    PROVE  /\ RowMove(u)
           /\ u = job[w].task => tasks'[u].status \in Terminal \cup {"purged"}
<1> DEFINE W == {job[w].task} \cap InStatus(Stored)
<1>1. /\ tasks \in [Tasks -> Row] /\ job[w].task \in Tasks
      /\ tasks[job[w].task].status \in {"running", "canceled", "purged"}
  BY DEF IInv, TypeOK, WorkerShape, Busy, OwnRow, Undecided
<1>2. u \in W <=> u = job[w].task /\ tasks[u].status # "purged"
  BY <1>1 DEF InStatus, Stored, Terminal, Active
<1>3. st \in Status /\ tasks' = SetStatus(W, st)
  BY DEF Status, Stored, Terminal
<1> HIDE DEF W
<1>4. /\ tasks'[u].status = IF u \in W THEN st ELSE tasks[u].status
      /\ tasks'[u].attempts = tasks[u].attempts
  BY <1>1, <1>3, SetStatusRow
<1>5. CASE u \in W
  BY <1>1, <1>2, <1>4, <1>5 DEF RowMove, Settled, Terminal
<1>6. CASE u \notin W
  BY <1>1, <1>2, <1>4, <1>6 DEF RowMove, SameRow
<1> QED
  BY <1>5, <1>6

(* RetryTask never finds the row of a worker: it is not failed. *)
LEMMA RetryNeverMatches ==
    ASSUME IInv, NEW w \in Workers, wpc[w] \in Undecided
    PROVE  /\ job[w].task \notin Retriable
           /\ \A u \in Tasks : RetryTask(job[w].task)[u] = tasks[u]
<1>1. job[w].task \in Tasks /\ tasks[job[w].task].status # "failed"
  BY DEF IInv, WorkerShape, Busy, OwnRow, Undecided
<1>2. job[w].task \notin Retriable
  BY <1>1 DEF Retriable, InStatus
<1> QED
  BY <1>2 DEF RetryTask, SetStatus

(* One step of worker w moves w, and rows only as RowMove allows. *)
LEMMA WorkerEffect ==
    ASSUME IInv, NEW w \in Workers, WorkerNext(w)
    PROVE  /\ \A u \in Tasks : RowMove(u)
           /\ WorkerMove(w)
           /\ \A v \in Workers \ {w} : SameWorker(v)
           /\ phase' = phase
<1>0. /\ tasks \in [Tasks -> Row]
      /\ job[w].session \in Sessions \cup {NoSession}
      /\ Busy(w) => /\ job[w].task \in Tasks
                    /\ wpc[w] \notin Undecided =>
                          tasks[job[w].task].status \in Terminal \cup {"purged"}
  BY DEF IInv, TypeOK, Job, WorkerShape, DecidedRow
<1> DEFINE Quiet(from, to) ==
      /\ Step(w, from, to)
      /\ \A u \in Tasks : SameRow(u)
<1>1. ASSUME NEW from \in Undecided, NEW to \in Undecided, Quiet(from, to)
      PROVE  /\ \A u \in Tasks : RowMove(u)
             /\ WorkerMove(w)
             /\ \A v \in Workers \ {w} : SameWorker(v)
             /\ phase' = phase
  BY <1>1, StepEffect DEF RowMove, WorkerMove, Undecided
<1>2. CASE Claim(w)
  <2>1. PICK t \in Tasks :
          /\ tasks[t].status = "queued"
          /\ tasks' = ClaimNextTask(t)
          /\ phase = "up" /\ phase' = phase
          /\ job' = [job EXCEPT ![w] =
                [task |-> t, session |-> tasks[t].session,
                 explicit |-> tasks[t].session # NoSession,
                 attempts |-> tasks[t].attempts + 1,
                 llmRetry |-> tasks[t].llmRetry, ids |-> {}]]
          /\ Goto(w, "idle",
                  IF tasks[t].session = NoSession THEN "check" ELSE "gate")
    BY <1>2 DEF Claim, Claimable
  <2>2. /\ wpc[w] = "idle" /\ wpc'[w] \in {"check", "gate"} /\ job'[w].task = t
        /\ \A v \in Workers \ {w} : SameWorker(v)
    BY <2>1 DEF Goto, SameWorker, IInv, TypeOK
  <2>3. /\ tasks'[t].status = "running"
        /\ tasks'[t].attempts = tasks[t].attempts + 1
        /\ \A u \in Tasks \ {t} : tasks'[u] = tasks[u]
    BY <1>0, <2>1 DEF ClaimNextTask, Row
  <2>4. Started(t)
    BY <2>1, <2>2, <2>3 DEF Started
  <2>5. WorkerMove(w)
    BY <2>1, <2>2, <2>3 DEF WorkerMove, Undecided, PC
  <2> QED
    BY <2>1, <2>2, <2>3, <2>4, <2>5 DEF RowMove, SameRow
<1>3. CASE Lock(w)
  BY <1>3 DEF Lock, Goto, IInv, TypeOK, SameWorker, WorkerMove, Undecided, PC,
      RowMove, SameRow
<1>4. CASE Deadline(w)
  BY <1>1, <1>4 DEF Deadline, Undecided, PC, SameRow
<1>5. CASE CheckCanceled(w) \/ WaitCanceled(w)
  <2>1. CASE IsTaskCanceled(job[w].task)
    BY <1>5, <2>1, StepEffect DEF CheckCanceled, WaitCanceled, IsTaskCanceled,
        WorkerMove, RowMove, SameRow, Undecided, Decided, PC, Terminal
  <2>2. CASE ~IsTaskCanceled(job[w].task)
    BY <1>1, <1>5, <2>2 DEF CheckCanceled, WaitCanceled, Undecided, PC, SameRow
  <2> QED  BY <2>1, <2>2
<1>6. CASE CreateSession(w)
  BY <1>6 DEF CreateSession, Goto, IInv, TypeOK, Job, SameWorker, WorkerMove,
      Undecided, PC, RowMove, SameRow
<1>7. CASE \/ CreateSessionFails(w) \/ PromptFails(w) \/ SessionIdle(w)
           \/ PollFails(w) \/ LastAssistantText(w) \/ CollectFails(w) \/ Escalate(w)
  BY <1>1, <1>7 DEF CreateSessionFails, PromptFails, SessionIdle, PollFails,
      LastAssistantText, CollectFails, Escalate, Undecided, PC, SameRow
<1>8. CASE RecordSession(w) \/ PromptAdmitted(w) \/ SessionBusy(w)
  <2>1. PICK from \in Undecided, to \in Undecided : Step(w, from, to)
    BY <1>8 DEF RecordSession, PromptAdmitted, SessionBusy, Undecided, PC
  <2>2. job[w].task \in Tasks
    BY <1>0, <2>1 DEF Step, Goto, Busy, Undecided
  <2>3. \A u \in Tasks : SameRow(u)
    <3>1. \/ tasks' = SetTaskSession(job[w].task, job[w].session)
          \/ tasks' = UpdateTaskProgress(job[w].task, FALSE)
      BY <1>8 DEF RecordSession, PromptAdmitted, SessionBusy
    <3>2. CASE tasks' = SetTaskSession(job[w].task, job[w].session)
      BY <1>0, <2>2, <3>2, ColumnEffects DEF SameRow
    <3>3. CASE tasks' = UpdateTaskProgress(job[w].task, FALSE)
      BY <1>0, <2>2, <3>3, ColumnEffects DEF SameRow
    <3> QED  BY <3>1, <3>2, <3>3
  <2> QED  BY <1>1, <2>1, <2>3
<1>9. CASE Complete(w) \/ Fail(w)
  <2>1. /\ wpc[w] \in Undecided /\ wpc'[w] \in Decided /\ job'[w].task = job[w].task
        /\ \A v \in Workers \ {w} : SameWorker(v)
        /\ phase' = phase
    BY <1>9, StepEffect DEF Complete, Fail, Undecided, Decided, PC
  <2>2. PICK st \in {"succeeded", "failed"} :
            tasks' = SetStatus({job[w].task} \cap InStatus(Stored), st)
    BY <1>9 DEF Complete, Fail, CompleteTask, FailTask
  <2>3. job[w].task \in Tasks /\ wpc'[w] \notin Undecided
    BY <1>0, <2>1 DEF Busy, Undecided, Decided
  <2>4. \A u \in Tasks : RowMove(u)
    BY <2>1, <2>2, <2>3, OutcomeEffect
  <2>5. tasks'[job[w].task].status \in Terminal \cup {"purged"}
    BY <2>1, <2>2, <2>3, OutcomeEffect
  <2>6. WorkerMove(w)
    BY <2>1, <2>5 DEF WorkerMove
  <2> QED
    BY <2>1, <2>4, <2>6
<1>10. CASE Promote(w)
  <2>1. /\ wpc[w] = "promote" /\ wpc'[w] = "idle"
        /\ \A v \in Workers \ {w} : SameWorker(v)
        /\ phase' = phase
    BY <1>10, ReturnEffect DEF Promote
  <2>2. tasks' = SetStatus(Dependents(job[w].task, {"pending", "blocked"}), "queued")
    BY <1>10 DEF Promote, PromotePendingDependents
  <2>3. \A u \in Tasks : RowMove(u)
    BY <1>0, <2>2, SetStatusRow DEF RowMove, SameRow, Moved, Edge, Dependents,
        InStatus, Status, Stored, Active
  <2> QED
    BY <2>1, <2>3 DEF WorkerMove, Decided
<1>11. CASE FailWithRetry(w) \/ DecideRetry(w)
  <2>0. wpc[w] = "fail"
    BY <1>11 DEF FailWithRetry, DecideRetry, Return, Step, Goto
  <2>1. /\ job[w].task \notin Retriable
        /\ \A u \in Tasks : RetryTask(job[w].task)[u] = tasks[u]
    BY <2>0, RetryNeverMatches DEF Undecided, PC
  <2>2. \A u \in Tasks : SameRow(u)
    BY <1>11, <2>1 DEF FailWithRetry, DecideRetry, SameRow
  <2>3. Step(w, "fail", "failtask") \/ Step(w, "fail", "llmretry")
    BY <1>11, <2>1 DEF FailWithRetry, DecideRetry
  <2> QED
    BY <1>1, <2>2, <2>3 DEF Undecided, PC
<1>12. CASE NoteLLMRetry(w)
  <2>1. /\ wpc[w] = "llmretry" /\ wpc'[w] = "idle"
        /\ \A v \in Workers \ {w} : SameWorker(v)
        /\ phase' = phase
        /\ tasks' = UpdateTaskProgress(job[w].task, TRUE)
    BY <1>12, ReturnEffect DEF NoteLLMRetry
  <2>2. job[w].task \in Tasks /\ LLMEnabled
    BY <1>0, <2>1 DEF Busy, IInv, WorkerShape
  <2>3. \A u \in Tasks : SameRow(u)
    BY <1>0, <2>1, <2>2, ColumnEffects DEF SameRow
  <2>4. tasks'[job[w].task].status = "running" => tasks'[job[w].task].llmRetry
    BY <1>0, <2>1, <2>2 DEF UpdateTaskProgress, Row, Stored, Active
  <2> QED
    BY <2>1, <2>2, <2>3, <2>4 DEF WorkerMove, RowMove
<1>13. CASE BlockSelect(w)
  <2>1. \A u \in Tasks : SameRow(u)
    BY <1>13 DEF BlockSelect, SameRow
  <2>2. CASE Return(w, "blockselect")
    BY <2>1, <2>2, ReturnEffect DEF WorkerMove, RowMove, Decided
  <2>3. CASE /\ Goto(w, "blockselect", "blockupdate")
             /\ job' = [job EXCEPT ![w].ids = dependentIDs(job[w].task)]
             /\ UNCHANGED <<phase, gate>>
    BY <2>1, <2>3 DEF Goto, IInv, TypeOK, Job, SameWorker, WorkerMove, RowMove, Decided
  <2> QED  BY <1>13, <2>2, <2>3 DEF BlockSelect
<1>14. CASE BlockUpdate(w)
  <2>1. /\ wpc[w] = "blockupdate" /\ wpc'[w] = "idle"
        /\ \A v \in Workers \ {w} : SameWorker(v)
        /\ phase' = phase
    BY <1>14, ReturnEffect DEF BlockUpdate
  <2>2. tasks' = SetStatus(Dependents(job[w].task, {"pending"}), "blocked")
    BY <1>14 DEF BlockUpdate, BlockDependents
  <2>3. \A u \in Tasks : RowMove(u)
    BY <1>0, <2>2, SetStatusRow DEF RowMove, SameRow, Moved, Edge, Dependents,
        InStatus, Status, Stored, Active
  <2> QED
    BY <2>1, <2>3 DEF WorkerMove, Decided
<1>15. CASE Panic(w)
  <2>1. /\ wpc[w] \in Undecided /\ wpc'[w] = "idle"
        /\ \A v \in Workers \ {w} : SameWorker(v)
        /\ phase' = phase
    BY <1>15, ReturnEffect DEF Panic, Undecided, PC
  <2>2. tasks' = SetStatus({job[w].task} \cap InStatus(Stored), "failed")
    BY <1>15 DEF Panic, FailTask
  <2>3. job[w].task \in Tasks /\ wpc[w] # "idle" /\ wpc'[w] \notin Undecided
    BY <1>0, <2>1 DEF Busy, Undecided
  <2>4. \A u \in Tasks : RowMove(u)
    BY <2>1, <2>2, <2>3, OutcomeEffect
  <2>5. tasks'[job[w].task].status # "running"
    BY <2>1, <2>2, <2>3, OutcomeEffect DEF Terminal
  <2>6. WorkerMove(w)
    BY <2>1, <2>3, <2>5 DEF WorkerMove
  <2> QED
    BY <2>1, <2>4, <2>6
<1> QED
  BY <1>2, <1>3, <1>4, <1>5, <1>6, <1>7, <1>8, <1>9, <1>10, <1>11, <1>12,
     <1>13, <1>14, <1>15 DEF WorkerNext, WorkerStep

(* A statement that sets a status along the edges open to everybody. *)
LEMMA SetStatusEdge ==
    ASSUME tasks \in [Tasks -> Row], NEW where, NEW st \in Status,
           tasks' = SetStatus(where, st),
           \A t \in Tasks : t \in where => Edge(tasks[t].status, st)
    PROVE  \A t \in Tasks : RowMove(t)
BY SetStatusRow DEF RowMove, SameRow, Moved

(* An INSERT of a new row. *)
LEMMA InsertEffect ==
    ASSUME tasks \in [Tasks -> Row], NEW t \in Tasks,
           NEW d, NEW s, NEW st, NEW stamp,
           tasks' = CreateTaskWithStatus(t, d, s, st, stamp)
    PROVE  /\ tasks'[t].status = st /\ tasks'[t].attempts = 0
           /\ \A u \in Tasks \ {t} : tasks'[u] = tasks[u]
BY DEF CreateTaskWithStatus, NoRow

(* What a request's step does to the requests: one of them moves, and if   *)
(* it is about to insert, nobody else holds that id.                       *)
RequestMove(h) ==
    /\ \A g \in Handlers \ {h} : hpc'[g] = hpc[g] /\ req'[g] = req[g]
    /\ hpc'[h] = "insert" =>
        /\ hpc[h] = "idle" /\ tasks' = tasks
        /\ tasks[req'[h].task].status = "absent"
        /\ req'[h].status \in {"queued", "pending"}
        /\ \A g \in Handlers : req[g].task # req'[h].task

(* One step of a request moves rows only as RowMove allows. *)
LEMMA HandlerEffect ==
    ASSUME IInv, NEW h \in Handlers, HandlerNext(h)
    PROVE  /\ \A u \in Tasks : RowMove(u)
           /\ RequestMove(h) \/ UNCHANGED <<hpc, req>>
<1>0. /\ tasks \in [Tasks -> Row]
      /\ hpc \in [Handlers -> HPC] /\ req \in [Handlers -> Request]
      /\ \A g \in Handlers : hpc[g] # "idle" => req[g].task \in Tasks
  BY DEF IInv, TypeOK
<1>r. ASSUME NEW from, Respond(h, from) PROVE RequestMove(h) /\ hpc'[h] = "idle"
  BY <1>0, <1>r DEF Respond, RequestMove
<1>c. ASSUME NEW from, NEW to \in {"cancelscheduled", "blockselect", "blockupdate"},
             NEW r, Continue(h, from, to, r)
      PROVE  RequestMove(h)
  BY <1>0, <1>c DEF Continue, RequestMove
<1>1. CASE CreateScheduled(h)
  <2>1. PICK t \in Schedulable, d \in Tasks \cup {NoTask}, s \in Nameable,
             stamp \in 0..MaxStamp :
            /\ NewID(t)
            /\ tasks' = CreateTaskWithStatus(t, d, s, "scheduled", stamp)
    BY <1>1 DEF CreateScheduled
  <2>2. Submitted(t)
    BY <1>0, <2>1, InsertEffect DEF NewID, Submitted
  <2>3. \A u \in Tasks \ {t} : SameRow(u)
    BY <1>0, <2>1, InsertEffect DEF SameRow
  <2> QED
    BY <1>1, <2>2, <2>3 DEF CreateScheduled, apiVars, RowMove
<1>b. CASE handleBatch(h)
  <2>1. PICK t \in Tasks, s \in Nameable, stamp \in 0..MaxStamp :
            /\ NewID(t)
            /\ tasks' = CreateTaskWithStatus(t, NoTask, s, "queued", stamp)
    BY <1>b DEF handleBatch
  <2>2. Submitted(t)
    BY <1>0, <2>1, InsertEffect DEF NewID, Submitted
  <2>3. \A u \in Tasks \ {t} : SameRow(u)
    BY <1>0, <2>1, InsertEffect DEF SameRow
  <2> QED
    BY <1>b, <2>2, <2>3 DEF handleBatch, apiVars, RowMove
<1>2. CASE CreateRead(h)
  <2>1. PICK t \in Tasks, d \in Tasks \cup {NoTask}, s \in Nameable :
            /\ NewID(t) /\ InitialStatus(d) # "absent"
            /\ Continue(h, "idle", "insert",
                        [task |-> t, dependsOn |-> d, session |-> s,
                         status |-> InitialStatus(d), ids |-> {}])
            /\ UNCHANGED <<tasks, late>>
    BY <1>2 DEF CreateRead
  <2>2. InitialStatus(d) \in {"queued", "pending"}
    BY <2>1 DEF InitialStatus
  <2>3. RequestMove(h)
    BY <1>0, <2>1, <2>2 DEF Continue, RequestMove, NewID
  <2> QED
    BY <2>1, <2>3 DEF RowMove, SameRow
<1>3. CASE Delete(h)
  <2>1. PICK t \in InStatus(Stored) :
            /\ tasks' = SetStatus({t} \cap Cancelable, "canceled")
            /\ Continue(h, "idle", IF t \in Cancelable THEN "blockselect"
                                                       ELSE "cancelscheduled", OnTask(t))
    BY <1>3 DEF Delete, CancelTask
  <2>2. \A u \in Tasks : RowMove(u)
    BY <1>0, <2>1, SetStatusEdge DEF Cancelable, InStatus, Edge, Status, Stored, Terminal
  <2> QED
    BY <2>1, <2>2, <1>c
<1>4. CASE Unblock(h)
  <2>1. PICK t \in Tasks : tasks' = SetStatus({t} \cap InStatus({"blocked"}), "queued")
    BY <1>4 DEF Unblock, UnblockTask, InStatus
  <2>2. \A u \in Tasks : RowMove(u)
    BY <1>0, <2>1, SetStatusEdge DEF InStatus, Edge, Status, Stored, Active
  <2> QED
    BY <1>4, <2>2 DEF Unblock, apiVars
<1>5. CASE CreateInsert(h)
  <2>1. PICK stamp \in 0..MaxStamp :
            tasks' = CreateTaskWithStatus(req[h].task, req[h].dependsOn,
                                          req[h].session, req[h].status, stamp)
    BY <1>5 DEF CreateInsert
  <2>2. hpc[h] = "insert" /\ hpc'[h] = "idle" /\ RequestMove(h)
    BY <1>5, <1>r DEF CreateInsert, Respond
  <2>3. /\ req[h].task \in Tasks /\ tasks[req[h].task].status = "absent"
        /\ req[h].status \in {"queued", "pending"}
    BY <1>0, <2>2 DEF IInv, RequestShape
  <2>4. Submitted(req[h].task)
    BY <1>0, <2>1, <2>2, <2>3, InsertEffect DEF Submitted
  <2>5. \A u \in Tasks \ {req[h].task} : SameRow(u)
    BY <1>0, <2>1, <2>3, InsertEffect DEF SameRow
  <2> QED
    BY <2>2, <2>4, <2>5 DEF RowMove
<1>6. CASE DeleteScheduled(h)
  <2>1. tasks' = SetStatus({req[h].task} \cap InStatus({"scheduled"}), "canceled")
    BY <1>6 DEF DeleteScheduled, CancelScheduledTask
  <2>2. \A u \in Tasks : RowMove(u)
    BY <1>0, <2>1, SetStatusEdge DEF InStatus, Edge, Status, Stored, Terminal
  <2> QED
    BY <1>6, <1>r, <2>2 DEF DeleteScheduled
<1>7. CASE DeleteBlockSelect(h)
  <2>1. \A u \in Tasks : RowMove(u)
    BY <1>7 DEF DeleteBlockSelect, RowMove, SameRow
  <2> QED
    BY <1>7, <1>r, <1>c, <2>1 DEF DeleteBlockSelect
<1>8. CASE DeleteBlockUpdate(h)
  <2>1. tasks' = SetStatus(Dependents(req[h].task, {"pending"}), "blocked")
    BY <1>8 DEF DeleteBlockUpdate, BlockDependents
  <2>2. \A u \in Tasks : RowMove(u)
    BY <1>0, <2>1, SetStatusEdge DEF Dependents, InStatus, Edge, Status, Stored, Active
  <2> QED
    BY <1>8, <1>r, <2>2 DEF DeleteBlockUpdate
<1> QED
  BY <1>1, <1>b, <1>2, <1>3, <1>4, <1>5, <1>6, <1>7, <1>8 DEF HandlerNext, HandlerStep

(* What any step does to the rows, the workers and the process: rows move  *)
(* as RowMove allows; at most one worker moves, unless the process         *)
(* restarts and all of them are idle.                                      *)
ProcessMove ==
    \/ /\ phase' = phase /\ restarts' = restarts
       /\ \E w \in Workers : /\ WorkerMove(w)
                             /\ \A v \in Workers \ {w} : SameWorker(v)
    \/ /\ phase' = phase /\ restarts' = restarts
       /\ \A v \in Workers : SameWorker(v)
    \/ /\ phase = "recovering" /\ phase' = "up" /\ restarts' = restarts
       /\ \A v \in Workers : SameWorker(v)
       /\ \A t \in Tasks : tasks'[t].status # "running"
    \/ /\ phase' = "recovering" /\ restarts' = restarts + 1
       /\ \A v \in Workers : wpc'[v] = "idle"
       /\ tasks' = tasks

(* Every step of the system moves each row along one edge of RowMove and    *)
(* the process along ProcessMove.                                          *)
LEMMA StepEffects ==
    ASSUME IInv, [Next]_vars
    PROVE  (\A u \in Tasks : RowMove(u)) /\ ProcessMove
<1>0. tasks \in [Tasks -> Row]
  BY DEF IInv, TypeOK
<1>1. CASE ExecutorNext
  <2>1. CASE Recover
    <3>1. tasks' = SetStatus(InStatus({"running"}), "queued")
      BY <2>1 DEF Recover, RecoverStaleRunning
    <3>2. \A t \in Tasks :
             /\ tasks'[t].status = IF tasks[t].status = "running" THEN "queued"
                                                                  ELSE tasks[t].status
             /\ tasks'[t].attempts = tasks[t].attempts
      BY <1>0, <3>1, SetStatusRow DEF InStatus, Status, Stored, Active
    <3>3. \A u \in Tasks : RowMove(u)
      BY <2>1, <3>2 DEF Recover, RowMove, SameRow, Requeued
    <3>4. ProcessMove
      BY <1>1, <2>1, <3>2 DEF ExecutorNext, Recover, ProcessMove, SameWorker
    <3> QED  BY <3>3, <3>4
  <2>2. ASSUME NEW w \in Workers, WorkerNext(w)
        PROVE  (\A u \in Tasks : RowMove(u)) /\ ProcessMove
    <3>1. restarts' = restarts  BY <1>1 DEF ExecutorNext
    <3> QED  BY <2>2, <3>1, WorkerEffect DEF ProcessMove
  <2> QED  BY <1>1, <2>1, <2>2 DEF ExecutorNext
<1>2. CASE ServerNext
  <2>1. \A u \in Tasks : RowMove(u)
    BY <1>2, HandlerEffect DEF ServerNext
  <2>2. ProcessMove
    BY <1>2 DEF ServerNext, ProcessMove, SameWorker
  <2> QED  BY <2>1, <2>2
<1>3. CASE Poll
  <2>1. PICK t \in Tasks : tasks' = SetStatus({t} \cap InStatus({"scheduled"}), "queued")
    BY <1>3 DEF Poll, PromoteScheduledTask, InStatus
  <2>2. \A u \in Tasks : RowMove(u)
    BY <1>0, <2>1, SetStatusEdge DEF InStatus, Edge, Status, Stored, Active
  <2>3. ProcessMove
    BY <1>3 DEF Poll, ProcessMove, SameWorker
  <2> QED  BY <2>2, <2>3
<1>4. CASE Purge
  <2>1. PICK gone : tasks' = SetStatus(gone \cap Purgeable, "purged")
    BY <1>4 DEF Purge, PurgeFinishedTasks
  <2>2. \A u \in Tasks : RowMove(u)
    BY <1>0, <2>1, SetStatusEdge DEF Purgeable, InStatus, Edge, Status
  <2>3. ProcessMove
    BY <1>4 DEF Purge, ProcessMove, SameWorker
  <2> QED  BY <2>2, <2>3
<1>5. CASE Crash
  BY <1>5 DEF Crash, ExecCrash, ProcessMove, RowMove, SameRow
<1>6. CASE UNCHANGED vars
  BY <1>6 DEF vars, ProcessMove, SameWorker, RowMove, SameRow
<1> QED
  BY <1>1, <1>2, <1>3, <1>4, <1>5, <1>6 DEF Next

-----------------------------------------------------------------------------
(* Preservation of the inductive invariant, part by part.                  *)

(* A worker's own row is only settled by itself: until it decides, nobody  *)
(* else can end it, re-queue it or claim it.                               *)
LEMMA OwnRowStays ==
    ASSUME IInv, NEW v \in Workers, wpc[v] \in Undecided, wpc'[v] \in Undecided,
           job'[v].task = job[v].task, RowMove(job[v].task)
    PROVE  tasks'[job'[v].task].status \in {"running", "canceled", "purged"}
<1> DEFINE t == job[v].task
<1>1. /\ t \in Tasks /\ phase = "up" /\ Busy(v)
      /\ tasks[t].status \in {"running", "canceled", "purged"}
  BY DEF IInv, WorkerShape, OwnRow, Busy, Undecided
<1>2. ~Settled(t)
  <2> SUFFICES ASSUME NEW w \in Workers, wpc[w] \in Undecided, job[w].task = t,
                      wpc'[w] \notin Undecided
               PROVE  FALSE
    BY DEF Settled
  <2> QED
    BY <1>1 DEF IInv, ExclusiveExecution, Busy, Undecided
<1> HIDE DEF t
<1>3. RowMove(t) /\ job'[v].task = t
  BY DEF t
<1> QED
  BY <1>1, <1>2, <1>3 DEF RowMove, SameRow, Submitted, Started, Moved, Requeued,
      Edge, Terminal

(* A row whose worker has decided stays ended. *)
LEMMA DecidedRowStays ==
    ASSUME NEW t, tasks[t].status \in Terminal \cup {"purged"}, RowMove(t)
    PROVE  tasks'[t].status \in Terminal \cup {"purged"}
BY DEF RowMove, SameRow, Submitted, Started, Settled, Moved, Requeued, Edge, Terminal

(* Every row a busy worker has is out of the queue. *)
LEMMA BusyRow ==
    ASSUME IInv, NEW w \in Workers, Busy(w)
    PROVE  job[w].task \in Tasks /\ tasks[job[w].task].status # "queued"
BY DEF IInv, WorkerShape, OwnRow, DecidedRow, Terminal

(* Execution stays exclusive: a claim takes a queued row, and no busy      *)
(* worker has one.                                                         *)
LEMMA ExclusionStep ==
    ASSUME IInv, ProcessMove
    PROVE  ExclusiveExecution'
<1>0. ExclusiveExecution  BY DEF IInv
<1>1. CASE \A v \in Workers : SameWorker(v)
  BY <1>0, <1>1 DEF ExclusiveExecution, SameWorker, Busy
<1>2. CASE \A v \in Workers : wpc'[v] = "idle"
  BY <1>2 DEF ExclusiveExecution, Busy
<1>3. ASSUME NEW w \in Workers, WorkerMove(w), \A v \in Workers \ {w} : SameWorker(v)
      PROVE  ExclusiveExecution'
  <2>1. \/ ~Busy(w)'
        \/ Busy(w) /\ job'[w].task = job[w].task
        \/ \E t \in Tasks : tasks[t].status = "queued" /\ job'[w].task = t
    BY <1>3 DEF WorkerMove, Busy, Undecided, Decided
  <2>2. \A v \in Workers \ {w} : Busy(v)' /\ Busy(w)' => job'[v].task # job'[w].task
    BY <1>0, <1>3, <2>1, BusyRow DEF ExclusiveExecution, SameWorker, Busy
  <2> QED
    BY <1>0, <1>3, <2>2 DEF ExclusiveExecution, SameWorker, Busy
<1> QED
  BY <1>1, <1>2, <1>3 DEF ProcessMove

(* Workers keep their rows. *)
LEMMA RowsStep ==
    ASSUME IInv, ProcessMove, \A u \in Tasks : RowMove(u)
    PROVE  OwnRow' /\ DecidedRow'
<1>0. \A v \in Workers : wpc[v] \in PC
  BY DEF IInv, TypeOK
<1>1. ASSUME NEW v \in Workers, SameWorker(v) \/ WorkerMove(v) \/ wpc'[v] = "idle"
      PROVE  /\ wpc'[v] \in Undecided =>
                    tasks'[job'[v].task].status \in {"running", "canceled", "purged"}
             /\ Busy(v)' /\ wpc'[v] \notin Undecided =>
                    tasks'[job'[v].task].status \in Terminal \cup {"purged"}
  <2>1. CASE Busy(v) /\ wpc[v] \in Undecided /\ wpc'[v] \in Undecided
             /\ job'[v].task = job[v].task
    BY <2>1, BusyRow, OwnRowStays
  <2>2. CASE Busy(v) /\ wpc[v] \notin Undecided /\ wpc'[v] \notin Undecided
             /\ job'[v].task = job[v].task
    BY <2>2, BusyRow, DecidedRowStays DEF IInv, DecidedRow
  <2>3. CASE wpc'[v] = "idle"
    BY <2>3 DEF Busy, Undecided
  <2>4. CASE SameWorker(v)
    BY <2>1, <2>2, <2>3, <2>4 DEF SameWorker, Busy
  <2>5. CASE WorkerMove(v)
    BY <2>1, <2>2, <2>3, <2>5 DEF WorkerMove, Busy, Undecided, Decided
  <2> QED  BY <1>1, <2>3, <2>4, <2>5
<1>2. \A v \in Workers : SameWorker(v) \/ WorkerMove(v) \/ wpc'[v] = "idle"
  BY DEF ProcessMove
<1> QED
  BY <1>1, <1>2 DEF OwnRow, DecidedRow

(* A row is claimed once per process lifetime. *)
LEMMA ClaimsStep ==
    ASSUME IInv, ProcessMove, \A u \in Tasks : RowMove(u)
    PROVE  Claims' /\ AttemptsBound'
<1> SUFFICES ASSUME NEW t \in Tasks
             PROVE  /\ tasks'[t].status \in {"absent", "pending", "blocked", "scheduled"} =>
                            tasks'[t].attempts = 0
                    /\ tasks'[t].status = "queued" => tasks'[t].attempts <= restarts'
                    /\ tasks'[t].status = "running" /\ phase' = "recovering" =>
                            tasks'[t].attempts <= restarts'
                    /\ tasks'[t].attempts <= restarts' + 1
  BY DEF Claims, AttemptsBound
<1> DEFINE a == tasks[t].attempts
           s == tasks[t].status
<1>1. /\ a \in Nat /\ restarts \in Nat /\ phase \in {"recovering", "up"}
      /\ s \in {"absent", "pending", "blocked", "scheduled"} => a = 0
      /\ s = "queued" => a <= restarts
      /\ s = "running" /\ phase = "recovering" => a <= restarts
      /\ a <= restarts + 1
  BY DEF IInv, TypeOK, Row, Claims, AttemptsBound
<1>2. /\ restarts' = restarts \/ restarts' = restarts + 1
      /\ phase' = "recovering" => phase = "recovering" \/ restarts' = restarts + 1
  BY DEF ProcessMove
<1>3. RowMove(t)
  OBVIOUS
<1>4. CASE SameRow(t)  BY <1>1, <1>2, <1>4 DEF SameRow
<1>5. CASE Submitted(t)  BY <1>1, <1>2, <1>5 DEF Submitted
<1>6. CASE Started(t)  BY <1>1, <1>2, <1>6 DEF Started
<1>7. CASE Settled(t)  BY <1>1, <1>2, <1>7 DEF Settled
<1>8. CASE Moved(t)
  <2>1. tasks'[t].attempts = a /\ Edge(s, tasks'[t].status)  BY <1>8 DEF Moved
  <2> QED  BY <1>1, <1>2, <2>1 DEF Edge
<1>9. CASE Requeued(t)  BY <1>1, <1>2, <1>9 DEF Requeued
<1> QED  BY <1>3, <1>4, <1>5, <1>6, <1>7, <1>8, <1>9 DEF RowMove

(* The other columns of a row that exists: the dependency never changes,   *)
(* and the progress note only under a worker that executes the task.       *)
ColumnsKept(t) ==
    /\ tasks'[t].dependsOn = tasks[t].dependsOn
    /\ \/ tasks'[t].llmRetry = tasks[t].llmRetry
       \/ \E w \in Workers : Busy(w) /\ job[w].task = t

(* A row that exists keeps its columns, only createTask inserts one that   *)
(* waits, and only a row PurgeFinishedTasks may take disappears.           *)
Kept(t) ==
    /\ \/ tasks[t].status # "absent" /\ ColumnsKept(t)
       \/ tasks[t].status = "absent" /\ tasks'[t].status # "pending"
       \/ \E h \in Handlers : CreateInsert(h) /\ req[h].task = t
    /\ tasks'[t].status = "purged" => tasks[t].status = "purged" \/ t \in Purgeable

(* A statement that sets a status keeps the other columns. *)
LEMMA SetStatusKeeps ==
    ASSUME tasks \in [Tasks -> Row], NEW where, NEW st \in Status \ {"pending"},
           tasks' = SetStatus(where, st), st = "purged" => where \subseteq Purgeable
    PROVE  \A t \in Tasks : Kept(t)
BY SetStatusRow DEF ColumnsKept, Kept

(* Every step of the system keeps every row so. *)
LEMMA ColumnsStep ==
    ASSUME IInv, [Next]_vars, NEW t \in Tasks
    PROVE  Kept(t)
<1>0. /\ tasks \in [Tasks -> Row]
      /\ {"succeeded", "failed", "canceled", "queued", "blocked"}
            \subseteq Status \ {"pending", "purged"}
      /\ "purged" \in Status
  BY DEF IInv, TypeOK, Status, Stored, Terminal, Active
<1>s. ASSUME NEW where, NEW st \in Status \ {"pending", "purged"},
             tasks' = SetStatus(where, st)
      PROVE  Kept(t)
  BY <1>0, <1>s, SetStatusKeeps
<1>u. CASE tasks' = tasks  BY <1>u DEF ColumnsKept, Kept
<1>1. CASE ExecutorNext
  <2>1. CASE Recover
    BY <1>0, <1>s, <2>1 DEF Recover, RecoverStaleRunning
  <2>2. ASSUME NEW w \in Workers, WorkerNext(w)
        PROVE  Kept(t)
    <3>1. CASE Claim(w)
      <4>1. PICK u \in Tasks : tasks' = ClaimNextTask(u)
        BY <3>1 DEF Claim
      <4> QED  BY <1>0, <4>1 DEF ClaimNextTask, ColumnsKept, Kept, Row
    <3>2. CASE RecordSession(w) \/ PromptAdmitted(w) \/ SessionBusy(w) \/ NoteLLMRetry(w)
      <4>1. /\ Busy(w)
            /\ \/ tasks' = SetTaskSession(job[w].task, job[w].session)
               \/ tasks' = UpdateTaskProgress(job[w].task, FALSE)
               \/ tasks' = UpdateTaskProgress(job[w].task, TRUE)
        BY <3>2 DEF RecordSession, PromptAdmitted, SessionBusy, NoteLLMRetry, Step,
            Return, Goto, Busy
      <4>2. job[w].task \in Tasks
        BY <4>1 DEF IInv, WorkerShape
      <4>3. CASE t = job[w].task
        BY <1>0, <4>1, <4>2, <4>3 DEF SetTaskSession, UpdateTaskProgress, ColumnsKept,
           Kept, Row
      <4>4. CASE t # job[w].task
        BY <1>0, <4>1, <4>2, <4>4 DEF SetTaskSession, UpdateTaskProgress, ColumnsKept,
           Kept, Row
      <4> QED  BY <4>3, <4>4
    <3>3. CASE Complete(w) \/ Fail(w) \/ Panic(w)
      BY <1>0, <1>s, <3>3 DEF Complete, Fail, Panic, CompleteTask, FailTask
    <3>4. CASE FailWithRetry(w) \/ DecideRetry(w)
      BY <1>0, <1>s, <3>4 DEF FailWithRetry, DecideRetry, RetryTask
    <3>5. CASE Promote(w) \/ BlockUpdate(w)
      BY <1>0, <1>s, <3>5 DEF Promote, BlockUpdate, PromotePendingDependents, BlockDependents
    <3> QED
      BY <1>u, <2>2, <3>1, <3>2, <3>3, <3>4, <3>5 DEF WorkerNext, WorkerStep, Lock, Deadline,
         CheckCanceled, CreateSession, CreateSessionFails, PromptFails, WaitCanceled,
         SessionIdle, PollFails, LastAssistantText, CollectFails, Escalate, BlockSelect
  <2> QED  BY <1>1, <2>1, <2>2 DEF ExecutorNext
<1>2. CASE ServerNext
  <2>1. PICK h \in Handlers : HandlerNext(h)
    BY <1>2 DEF ServerNext
  <2>2. CASE CreateScheduled(h)
    <3>1. PICK u \in Schedulable, d \in Tasks \cup {NoTask}, x \in Nameable,
               stamp \in 0..MaxStamp :
              NewID(u) /\ tasks' = CreateTaskWithStatus(u, d, x, "scheduled", stamp)
      BY <2>2 DEF CreateScheduled
    <3> QED  BY <1>0, <3>1, InsertEffect DEF NewID, ColumnsKept, Kept
  <2>b. CASE handleBatch(h)
    <3>1. PICK u \in Tasks, x \in Nameable, stamp \in 0..MaxStamp :
              NewID(u) /\ tasks' = CreateTaskWithStatus(u, NoTask, x, "queued", stamp)
      BY <2>b DEF handleBatch
    <3> QED  BY <1>0, <3>1, InsertEffect DEF NewID, ColumnsKept, Kept
  <2>3. CASE CreateInsert(h)
    <3>1. PICK stamp \in 0..MaxStamp :
              tasks' = CreateTaskWithStatus(req[h].task, req[h].dependsOn,
                                            req[h].session, req[h].status, stamp)
      BY <2>3 DEF CreateInsert
    <3>2. req[h].task \in Tasks /\ tasks[req[h].task].status = "absent"
      BY <2>3 DEF CreateInsert, Respond, IInv, TypeOK, RequestShape
    <3>3. CASE t = req[h].task
      <4>1. req[h].status # "purged"
        BY <2>3 DEF CreateInsert, Respond, IInv, RequestShape
      <4> QED  BY <1>0, <2>3, <3>1, <3>2, <3>3, <4>1, InsertEffect DEF Kept
    <3>4. CASE t # req[h].task
      BY <1>0, <3>1, <3>2, <3>4, InsertEffect DEF ColumnsKept, Kept
    <3> QED  BY <3>3, <3>4
  <2>4. CASE Delete(h) \/ DeleteScheduled(h) \/ DeleteBlockUpdate(h) \/ Unblock(h)
    BY <1>0, <1>s, <2>4 DEF Delete, DeleteScheduled, DeleteBlockUpdate, Unblock, CancelTask,
        CancelScheduledTask, BlockDependents, UnblockTask
  <2> QED
    BY <1>u, <2>1, <2>2, <2>b, <2>3, <2>4 DEF HandlerNext, HandlerStep, CreateRead, DeleteBlockSelect
<1>3. CASE Poll
  BY <1>0, <1>s, <1>3 DEF Poll, PromoteScheduledTask
<1>4. CASE Purge
  <2>1. PICK gone : tasks' = SetStatus(gone \cap Purgeable, "purged")
    BY <1>4 DEF Purge, PurgeFinishedTasks
  <2> QED  BY <1>0, <2>1, SetStatusKeeps
<1>5. CASE Crash \/ UNCHANGED vars
  BY <1>u, <1>5 DEF Crash, vars
<1> QED
  BY <1>1, <1>2, <1>3, <1>4, <1>5 DEF Next

(* While the process is up, a running row keeps a worker, or the note that *)
(* the LLM's retry left on it.                                             *)
LEMMA RunningStep ==
    ASSUME IInv, ProcessMove, \A u \in Tasks : RowMove(u),
           \A u \in Tasks : Kept(u)
    PROVE  RunningHasWorker'
<1> SUFFICES ASSUME phase' = "up", NEW t \in Tasks, tasks'[t].status = "running",
                    ~(LLMEnabled /\ tasks'[t].llmRetry)
             PROVE  \E w \in Workers : Busy(w)' /\ job'[w].task = t
  BY DEF RunningHasWorker, InStatus, Abandoned
<1>1. phase = "up" /\ phase' = phase
  BY DEF ProcessMove, IInv, TypeOK
<1>2. CASE Started(t)
  BY <1>2 DEF Started, Busy
<1>3. CASE tasks[t].status = "running"
  <2>1. PICK w \in Workers : Busy(w) /\ job[w].task = t
    <3>1. \/ LLMEnabled /\ tasks[t].llmRetry
          \/ \E w \in Workers : Busy(w) /\ job[w].task = t
      BY <1>1, <1>3 DEF IInv, RunningHasWorker, InStatus, Abandoned
    <3>2. \/ tasks'[t].llmRetry = tasks[t].llmRetry
          \/ \E w \in Workers : Busy(w) /\ job[w].task = t
      <4>1. Kept(t)  OBVIOUS
      <4>2. \A h \in Handlers : CreateInsert(h) /\ req[h].task = t => FALSE
        BY <1>3 DEF CreateInsert, Respond, IInv, RequestShape
      <4> QED  BY <1>3, <4>1, <4>2 DEF Kept, ColumnsKept
    <3> QED  BY <3>1, <3>2
  <2>2. wpc[w] \in Undecided
    BY <1>3, <2>1 DEF IInv, DecidedRow, Terminal
  <2>3. SameWorker(w) \/ WorkerMove(w)
    BY <1>1 DEF ProcessMove
  <2>4. CASE SameWorker(w)
    BY <2>1, <2>4 DEF SameWorker, Busy
  <2>5. CASE WorkerMove(w)
    <3>1. Busy(w)' /\ job'[w].task = job[w].task
      BY <2>1, <2>2, <2>5 DEF WorkerMove, Busy, Decided, Undecided
    <3> QED  BY <2>1, <3>1
  <2> QED  BY <2>3, <2>4, <2>5
<1>4. RowMove(t)
  OBVIOUS
<1> QED
  BY <1>2, <1>3, <1>4 DEF RowMove, SameRow, Submitted, Settled, Moved, Requeued, Edge

(* A waiting row was waiting before the step, or createTask has just       *)
(* inserted it.                                                            *)
LEMMA WaiterMove ==
    ASSUME IInv, [Next]_vars, NEW d \in Tasks, tasks'[d].status \in {"pending", "blocked"}
    PROVE  \/ tasks[d].status \in {"pending", "blocked"} /\ ColumnsKept(d)
           \/ \E h \in Handlers : CreateInsert(h) /\ req[h].task = d
<1>1. RowMove(d) /\ Kept(d)
  BY StepEffects, ColumnsStep
<1>2. CASE tasks[d].status # "absent"
  BY <1>1, <1>2 DEF RowMove, SameRow, Submitted, Started, Settled, Moved, Requeued, Edge, Kept
<1>3. CASE tasks[d].status = "absent"
  BY <1>1, <1>3 DEF RowMove, SameRow, Submitted, Started, Settled, Moved, Requeued, Edge, Kept
<1> QED  BY <1>2, <1>3

(* late only grows. *)
LEMMA LateGrows == ASSUME [Next]_vars PROVE late \subseteq late'
BY DEF Next, ExecutorNext, ServerNext, HandlerNext, HandlerStep, Poll, Purge, Crash,
    APICrash, CreateScheduled, CreateRead, handleBatch, Delete, Unblock, CreateInsert,
    DeleteScheduled, DeleteBlockSelect, DeleteBlockUpdate, apiVars, vars

(* The purge keeps the upstream of every waiting row. *)
LEMMA UpstreamStep ==
    ASSUME IInv, [Next]_vars
    PROVE  UpstreamKept'
<1> SUFFICES ASSUME NEW d \in Tasks, tasks'[d].status \in {"pending", "blocked"},
                    tasks'[d].dependsOn # NoTask,
                    tasks'[tasks'[d].dependsOn].status = "purged"
             PROVE  d \in late'
  BY DEF UpstreamKept, InStatus
<1> DEFINE u == tasks'[d].dependsOn
<1>0. late \subseteq late'
  BY LateGrows
<1>1. u \in Tasks
  <2>1. TypeOK'  BY TypeStep DEF IInv
  <2> QED  BY <2>1 DEF TypeOK, Row
<1>2. Kept(u)
  BY <1>1, ColumnsStep
<1>3. CASE tasks[d].status \in {"pending", "blocked"} /\ ColumnsKept(d)
  <2>1. tasks[d].dependsOn = u
    BY <1>3 DEF ColumnsKept
  <2>2. u \notin Purgeable
    BY <1>3, <2>1 DEF Purgeable, Dependents, InStatus, Active
  <2>3. tasks[u].status = "purged"
    BY <1>2, <2>2 DEF Kept
  <2>4. d \in late
    BY <1>3, <2>1, <2>3 DEF IInv, UpstreamKept, InStatus
  <2> QED  BY <1>0, <2>4
<1>4. ASSUME NEW h \in Handlers, CreateInsert(h), req[h].task = d
      PROVE  d \in late'
  <2>0. tasks \in [Tasks -> Row] /\ hpc[h] = "insert" /\ tasks[d].status = "absent"
    BY <1>4 DEF CreateInsert, Respond, IInv, TypeOK, RequestShape
  <2>1. /\ tasks'[d].status = req[h].status /\ u = req[h].dependsOn
        /\ \A t \in Tasks \ {d} : tasks'[t] = tasks[t]
    BY <1>4, <2>0 DEF CreateInsert, CreateTaskWithStatus, NoRow
  <2>2. req[h].status = "pending"
    BY <1>4, <2>0, <2>1 DEF IInv, RequestShape
  <2>3. tasks[u].status = "purged"
    BY <1>1, <2>1, <2>2
  <2>4. Finished(req[h].dependsOn)
    BY <2>1, <2>3 DEF Finished
  <2> QED  BY <1>4, <2>2, <2>4 DEF CreateInsert
<1> QED  BY <1>3, <1>4, WaiterMove

(***************************************************************************)
(* The shape of the workers and their gates.  A worker that runs under a   *)
(* gate holds it, so a release by another worker leaves it alone.          *)
(***************************************************************************)
Shape == WorkerShape /\ GateHeld

(* Steps inside execute keep the shape. *)
LEMMA StepShape ==
    ASSUME IInv, NEW w \in Workers, NEW from, NEW to \in PC, Step(w, from, to),
           from \notin {"idle", "gate"}, to \notin {"idle", "gate", "check"},
           to \in {"create", "record"} => from \in {"check", "create"},
           to = "llmretry" => LLMEnabled
    PROVE  Shape'
<1>1. /\ wpc[w] = from /\ wpc' = [wpc EXCEPT ![w] = to]
      /\ phase' = phase /\ job' = job /\ gate' = gate /\ wpc \in [Workers -> PC]
  BY DEF Step, Goto, IInv, TypeOK
<1>2. WorkerShape'
  BY <1>1 DEF IInv, WorkerShape, Busy
<1>3. GateHeld'
  BY <1>1 DEF IInv, GateHeld, PastGate
<1> QED  BY <1>2, <1>3 DEF Shape

(* So does its return, which releases only its own gate. *)
LEMMA ReturnShape ==
    ASSUME IInv, NEW w \in Workers, NEW from, Return(w, from)
    PROVE  Shape'
<1>1. /\ wpc' = [wpc EXCEPT ![w] = "idle"] /\ phase' = phase
      /\ job' = [job EXCEPT ![w] = NoJob]
      /\ gate' = [s \in Sessions |-> IF gate[s] = w THEN NoWorker ELSE gate[s]]
      /\ wpc \in [Workers -> PC] /\ job \in [Workers -> Job]
  BY DEF Return, Goto, IInv, TypeOK
<1>2. WorkerShape'
  BY <1>1 DEF IInv, WorkerShape, Busy
<1>3. ASSUME NEW v \in Workers, PastGate(v)' PROVE gate'[job'[v].session] = v
  <2>1. v # w /\ PastGate(v) /\ job'[v] = job[v]
    BY <1>1, <1>3 DEF PastGate
  <2>2. job[v].session \in Sessions /\ gate[job[v].session] = v
    BY <2>1 DEF IInv, GateHeld, WorkerShape, Busy, PastGate
  <2> QED  BY <1>1, <2>1, <2>2
<1> QED  BY <1>2, <1>3 DEF Shape, GateHeld

(* Every step of a worker keeps the shape. *)
LEMMA WorkerKeepsShape ==
    ASSUME IInv, NEW w \in Workers, WorkerNext(w)
    PROVE  Shape'
<1>0. /\ wpc \in [Workers -> PC] /\ job \in [Workers -> Job]
      /\ gate \in [Sessions -> Workers \cup {NoWorker}]
      /\ tasks \in [Tasks -> Row]
  BY DEF IInv, TypeOK
<1>1. CASE Claim(w)
  <2>1. PICK t \in Tasks :
          /\ phase = "up" /\ phase' = phase /\ gate' = gate
          /\ job' = [job EXCEPT ![w] =
                [task |-> t, session |-> tasks[t].session,
                 explicit |-> tasks[t].session # NoSession,
                 attempts |-> tasks[t].attempts + 1,
                 llmRetry |-> tasks[t].llmRetry, ids |-> {}]]
          /\ wpc' = [wpc EXCEPT ![w] =
                IF tasks[t].session = NoSession THEN "check" ELSE "gate"]
    BY <1>1 DEF Claim, Goto
  <2>2. tasks[t].session \in Sessions \cup {NoSession}
    BY <1>0 DEF Row
  <2>3. /\ job'[w].task = t /\ job'[w].session = tasks[t].session
        /\ job'[w].explicit = (tasks[t].session # NoSession)
        /\ wpc'[w] = IF tasks[t].session = NoSession THEN "check" ELSE "gate"
        /\ \A v \in Workers \ {w} : job'[v] = job[v] /\ wpc'[v] = wpc[v]
    BY <1>0, <2>1
  <2>4. WorkerShape'
    <3>1. phase' = "up" /\ job'[w].task \in Tasks /\ wpc'[w] \in {"check", "gate"}
      BY <2>1, <2>3
    <3>2. CASE tasks[t].session = NoSession
      <4>1. ~job'[w].explicit /\ wpc'[w] = "check"
        BY <2>3, <3>2
      <4> QED
        BY <2>1, <2>3, <3>1, <4>1 DEF IInv, WorkerShape, Busy
    <3>3. CASE tasks[t].session # NoSession
      <4>1. job'[w].explicit /\ wpc'[w] = "gate" /\ job'[w].session \in Sessions
        BY <2>2, <2>3, <3>3
      <4> QED
        BY <2>1, <2>3, <3>1, <4>1 DEF IInv, WorkerShape, Busy
    <3> QED  BY <3>2, <3>3
  <2>5. ~PastGate(w)'
    BY <2>2, <2>3 DEF PastGate
  <2>6. GateHeld'
    BY <2>1, <2>3, <2>5 DEF IInv, GateHeld, PastGate
  <2> QED  BY <2>4, <2>6 DEF Shape
<1>2. CASE Lock(w)
  <2>1. /\ wpc[w] = "gate" /\ wpc' = [wpc EXCEPT ![w] = "prompt"]
        /\ gate[job[w].session] = NoWorker
        /\ gate' = [gate EXCEPT ![job[w].session] = w]
        /\ phase' = phase /\ job' = job
    BY <1>2 DEF Lock, Goto
  <2>2. job[w].explicit /\ job[w].session \in Sessions
    BY <2>1 DEF IInv, WorkerShape, Busy
  <2>3. WorkerShape'
    BY <1>0, <2>1 DEF IInv, WorkerShape, Busy
  <2>4. ASSUME NEW v \in Workers \ {w}, PastGate(v)'
        PROVE  gate'[job'[v].session] = v
    <3>1. gate[job[v].session] = v
      BY <1>0, <2>1, <2>4 DEF IInv, GateHeld, PastGate
    <3>2. job[v].session # job[w].session
      BY <2>1, <3>1
    <3> QED
      BY <1>0, <2>1, <3>1, <3>2
  <2>5. gate'[job'[w].session] = w
    BY <1>0, <2>1, <2>2
  <2> QED
    BY <2>3, <2>4, <2>5 DEF Shape, GateHeld
<1>3. CASE Deadline(w)  BY <1>3, StepShape DEF Deadline, PC
<1>4. CASE WorkerStep(w)
  <2> USE DEF PC
  <2>1. CASE CreateSession(w)
    <3>1. PICK s \in Sessions :
            /\ wpc[w] = "create" /\ wpc' = [wpc EXCEPT ![w] = "record"]
            /\ job' = [job EXCEPT ![w].session = s]
            /\ phase' = phase /\ gate' = gate
      BY <2>1 DEF CreateSession, Goto, FreshSessions
    <3>2. ~job[w].explicit
      BY <3>1 DEF IInv, WorkerShape, Busy
    <3>3. /\ job'[w].task = job[w].task /\ job'[w].explicit = job[w].explicit
          /\ wpc'[w] = "record"
          /\ \A v \in Workers \ {w} : job'[v] = job[v] /\ wpc'[v] = wpc[v]
      BY <1>0, <3>1 DEF Job
    <3>4. WorkerShape'
      BY <3>1, <3>2, <3>3 DEF IInv, WorkerShape, Busy
    <3>5. GateHeld'
      BY <3>1, <3>2, <3>3 DEF IInv, GateHeld, PastGate
    <3> QED  BY <3>4, <3>5 DEF Shape
  <2>2. CASE \/ CheckCanceled(w) \/ WaitCanceled(w) \/ CreateSessionFails(w)
             \/ RecordSession(w) \/ PromptAdmitted(w) \/ PromptFails(w)
             \/ SessionBusy(w) \/ SessionIdle(w) \/ PollFails(w)
    BY <2>2, StepShape DEF CheckCanceled, WaitCanceled, CreateSessionFails,
        RecordSession, PromptAdmitted, PromptFails, SessionBusy, SessionIdle, PollFails
  <2>3. CASE \/ LastAssistantText(w) \/ CollectFails(w) \/ Complete(w)
             \/ DecideRetry(w) \/ Escalate(w) \/ Fail(w)
    BY <2>3, StepShape DEF LastAssistantText, CollectFails, Complete,
        DecideRetry, ConsultsLLM, Escalate, Fail
  <2>4. CASE FailWithRetry(w)
    BY <2>4, StepShape, ReturnShape DEF FailWithRetry
  <2>5. CASE \/ Promote(w) \/ NoteLLMRetry(w) \/ BlockUpdate(w) \/ Panic(w)
    BY <2>5, ReturnShape DEF Promote, NoteLLMRetry, BlockUpdate, Panic
  <2>6. CASE BlockSelect(w)
    <3>1. CASE Return(w, "blockselect")
      BY <3>1, ReturnShape
    <3>2. CASE /\ Goto(w, "blockselect", "blockupdate")
               /\ job' = [job EXCEPT ![w].ids = dependentIDs(job[w].task)]
               /\ UNCHANGED <<phase, gate>>
      <4>1. /\ wpc[w] = "blockselect" /\ wpc'[w] = "blockupdate"
            /\ job'[w].task = job[w].task /\ job'[w].explicit = job[w].explicit
            /\ job'[w].session = job[w].session
            /\ \A v \in Workers \ {w} : job'[v] = job[v] /\ wpc'[v] = wpc[v]
            /\ phase' = phase /\ gate' = gate
        BY <1>0, <3>2 DEF Goto, Job
      <4>2. WorkerShape'
        BY <4>1 DEF IInv, WorkerShape, Busy
      <4>3. GateHeld'
        BY <4>1 DEF IInv, GateHeld, PastGate
      <4> QED  BY <4>2, <4>3 DEF Shape
    <3> QED  BY <2>6, <3>1, <3>2 DEF BlockSelect
  <2> QED
    BY <1>4, <2>1, <2>2, <2>3, <2>4, <2>5, <2>6 DEF WorkerStep
<1> QED
  BY <1>1, <1>2, <1>3, <1>4 DEF WorkerNext

(* Every step of the system keeps it. *)
LEMMA ShapeStep ==
    ASSUME IInv, [Next]_vars
    PROVE  Shape'
<1>1. CASE UNCHANGED execVars
  BY <1>1 DEF execVars, IInv, Shape, WorkerShape, GateHeld, Busy, PastGate
<1>2. CASE ExecutorNext
  <2>1. CASE Recover
    BY <2>1 DEF Recover, IInv, Shape, WorkerShape, GateHeld, Busy, PastGate
  <2> QED
    BY <1>2, <2>1, WorkerKeepsShape DEF ExecutorNext
<1>3. CASE Crash
  BY <1>3 DEF Crash, ExecCrash, Shape, WorkerShape, GateHeld, Busy, PastGate
<1> QED
  BY <1>1, <1>2, <1>3 DEF Next, ServerNext, Poll, Purge, vars, execVars

(* An id that is about to be inserted stays free and reserved. *)
LEMMA RequestStep ==
    ASSUME IInv, [Next]_vars
    PROVE  RequestShape'
<1>0. \A u \in Tasks : RowMove(u)
  BY StepEffects
<1>1. /\ RequestShape
      /\ \A h \in Handlers : hpc[h] # "idle" => req[h].task \in Tasks
  BY DEF IInv, TypeOK
<1>2. ASSUME NEW g \in Handlers, hpc[g] = "insert", hpc'[g] = "insert"
      PROVE  tasks'[req[g].task].status = "absent"
  <2>1. req[g].task \in Tasks /\ tasks[req[g].task].status = "absent"
    BY <1>1, <1>2 DEF RequestShape
  <2>2. ~Submitted(req[g].task)
    BY <1>1, <1>2 DEF Submitted, RequestShape
  <2>3. RowMove(req[g].task)
    BY <1>0, <2>1
  <2> QED
    BY <2>1, <2>2, <2>3 DEF RowMove, SameRow, Started, Settled, Moved, Requeued,
        Edge, Terminal
<1>3. CASE UNCHANGED <<hpc, req>>
  BY <1>1, <1>2, <1>3 DEF RequestShape
<1>4. CASE \A h \in Handlers : hpc'[h] = "idle"
  BY <1>4 DEF RequestShape
<1>5. ASSUME NEW h \in Handlers, RequestMove(h) PROVE RequestShape'
  <2>1. CASE hpc'[h] # "insert"
    BY <1>1, <1>2, <1>5, <2>1 DEF RequestShape, RequestMove
  <2>2. CASE hpc'[h] = "insert"
    BY <1>1, <1>2, <1>5, <2>2 DEF RequestShape, RequestMove
  <2> QED  BY <2>1, <2>2
<1>6. CASE ServerNext
  BY <1>3, <1>5, <1>6, HandlerEffect DEF ServerNext
<1>7. CASE Crash
  BY <1>4, <1>7 DEF Crash, APICrash
<1> QED
  BY <1>3, <1>6, <1>7 DEF Next, ExecutorNext, Poll, Purge, vars

-----------------------------------------------------------------------------
(* The invariant is inductive. *)
LEMMA InvariantInit == Init => IInv
<1> SUFFICES ASSUME Init PROVE IInv
  OBVIOUS
<1>1. TypeOK  BY TypeInit
<1>2. \A w \in Workers : wpc[w] = "idle"  BY DEF Init, ExecInit
<1>3. \A h \in Handlers : hpc[h] = "idle"  BY DEF Init, APIInit
<1>4. \A t \in Tasks : tasks[t].status = "absent" /\ tasks[t].attempts = 0
  BY DEF Init, StoreInit, NoRow
<1>5. restarts = 0  BY DEF Init
<1>6. WorkerShape /\ GateHeld /\ ExclusiveExecution /\ OwnRow /\ DecidedRow
  BY <1>2 DEF WorkerShape, GateHeld, ExclusiveExecution, OwnRow, DecidedRow, Busy,
      PastGate, Undecided
<1>7. RequestShape  BY <1>3 DEF RequestShape
<1>8. Claims /\ AttemptsBound  BY <1>4, <1>5 DEF Claims, AttemptsBound
<1>9. RunningHasWorker  BY <1>4 DEF RunningHasWorker, InStatus
<1>10. UpstreamKept  BY <1>4 DEF UpstreamKept, InStatus
<1> QED  BY <1>1, <1>6, <1>7, <1>8, <1>9, <1>10 DEF IInv

(* Every step keeps every part of it. *)
LEMMA InvariantStep == IInv /\ [Next]_vars => IInv'
<1> SUFFICES ASSUME IInv, [Next]_vars PROVE IInv'
  OBVIOUS
<1>1. TypeOK'  BY TypeStep DEF IInv
<1>2. (\A u \in Tasks : RowMove(u)) /\ ProcessMove  BY StepEffects
<1>3. Shape'  BY ShapeStep
<1>4. RequestShape'  BY RequestStep
<1>5. ExclusiveExecution'  BY <1>2, ExclusionStep
<1>6. OwnRow' /\ DecidedRow'  BY <1>2, RowsStep
<1>7. Claims' /\ AttemptsBound'  BY <1>2, ClaimsStep
<1>8. RunningHasWorker'  BY <1>2, ColumnsStep, RunningStep
<1>9. UpstreamKept'  BY UpstreamStep
<1> QED
  BY <1>1, <1>3, <1>4, <1>5, <1>6, <1>7, <1>8, <1>9 DEF IInv, Shape

(* The inductive invariant holds in every reachable state. *)
THEOREM Invariant == Spec => []IInv
<1>1. Init => IInv  BY InvariantInit
<1>2. IInv /\ [Next]_vars => IInv'  BY InvariantStep
<1> QED  BY <1>1, <1>2, PTL DEF Spec

(* No two workers ever execute the same task, for any number of workers,   *)
(* tasks, requests and restarts.                                           *)
THEOREM Exclusion == Spec => []ExclusiveExecution
<1>1. IInv => ExclusiveExecution  BY DEF IInv
<1> QED  BY <1>1, Invariant, PTL

(* A worker that has not decided finds its row running, cancelled or       *)
(* purged, so RetryTask never matches it.                                  *)
THEOREM RowOwnership == Spec => []OwnRow
<1>1. IInv => OwnRow  BY DEF IInv
<1> QED  BY <1>1, Invariant, PTL

(* A task is claimed at most once per process lifetime. *)
THEOREM ClaimedOnce == Spec => []AttemptsBound
<1>1. IInv => AttemptsBound  BY DEF IInv
<1> QED  BY <1>1, Invariant, PTL

(* While the process is up, every running row has a worker that will settle *)
(* it, except a row whose extra attempt the LLM granted and RetryTask lost. *)
THEOREM NoLostTask == Spec => []RunningHasWorker
<1>1. IInv => RunningHasWorker  BY DEF IInv
<1> QED  BY <1>1, Invariant, PTL

(* A waiting task finds the row of its upstream, unless it was inserted    *)
(* after its upstream had settled.                                         *)
THEOREM UpstreamSafe == Spec => []UpstreamKept
<1>1. IInv => UpstreamKept  BY DEF IInv
<1> QED  BY <1>1, Invariant, PTL

(* Two tasks that name the same session never drive it together: both      *)
(* would hold its gate.                                                    *)
THEOREM GateExcludes == Spec => []GateExclusion
<1>1. IInv => GateExclusion
  BY DEF IInv, GateHeld, GateExclusion
<1> QED  BY <1>1, Invariant, PTL

(* A succeeded or failed row never changes again, except to be deleted. *)
THEOREM OutcomesAreFinal == Spec => OutcomeFinal
<1> DEFINE Final == \A t \in Tasks :
                      tasks[t].status \in {"succeeded", "failed"} =>
                          tasks'[t].status \in {tasks[t].status, "purged"}
<1>1. IInv /\ [Next]_vars => [Final]_vars
  <2> SUFFICES ASSUME IInv, [Next]_vars,
                      NEW t \in Tasks, tasks[t].status \in {"succeeded", "failed"}
               PROVE  tasks'[t].status \in {tasks[t].status, "purged"}
    OBVIOUS
  <2>1. RowMove(t)  BY StepEffects
  <2> QED
    BY <2>1 DEF RowMove, SameRow, Submitted, Started, Settled, Moved, Requeued,
        Edge, Terminal
<1> QED
  BY <1>1, Invariant, PTL DEF Spec, OutcomeFinal

-----------------------------------------------------------------------------
(***************************************************************************)
(* The waiters of a task.  Cause names the statement behind every change   *)
(* of a row's status; the invariant RInv then follows from who can still   *)
(* resolve the dependents of a finished task.                              *)
(***************************************************************************)
Inserted(t) ==
    \E h \in Handlers :
        /\ CreateInsert(h) /\ req[h].task = t
        /\ tasks'[t].status = req[h].status /\ tasks'[t].dependsOn = req[h].dependsOn
        /\ hpc[h] = "insert" /\ req[h].status \in {"queued", "pending"}

Submission(t) ==
    \/ Inserted(t)
    \/ tasks'[t].status = "queued" /\ tasks'[t].dependsOn = NoTask
    \/ tasks'[t].status = "scheduled" /\ t \in Schedulable

Released(t) ==
    /\ tasks'[t].status = "queued" /\ tasks'[t].dependsOn = tasks[t].dependsOn
    /\ \/ \E w \in Workers : Promote(w) /\ tasks[t].dependsOn = job[w].task
       \/ \E h \in Handlers : Unblock(h)

Held(t) ==
    /\ tasks[t].status = "pending" /\ tasks'[t].status = "blocked"
    /\ \/ \E w \in Workers : BlockUpdate(w) /\ tasks[t].dependsOn = job[w].task
       \/ \E h \in Handlers : DeleteBlockUpdate(h) /\ tasks[t].dependsOn = req[h].task

Ended(t) ==
    /\ tasks'[t].status \in Terminal
    /\ \/ \E w \in Workers : (Complete(w) \/ Fail(w) \/ Panic(w)) /\ job[w].task = t
       \/ \E h \in Handlers : hpc'[h] = "blockselect" /\ req'[h].task = t

Cause(t) ==
    \/ tasks[t].status = "absent" /\ Submission(t)
    \/ tasks[t].status \in {"pending", "blocked"} /\ Released(t)
    \/ Held(t)
    \/ tasks[t].status \in {"queued", "running", "pending", "canceled"} /\ Ended(t)
    \/ tasks[t].status = "scheduled" /\ tasks'[t].status \in {"queued", "canceled"}
    \/ tasks[t].status \in {"queued", "running"} /\ tasks'[t].status \in {"queued", "running"}
    \/ tasks[t].status \in Terminal /\ tasks'[t].status = "purged"

(* Every change of a status has a cause. *)
LEMMA Causes ==
    ASSUME IInv, [Next]_vars, NEW t \in Tasks, tasks'[t].status # tasks[t].status
    PROVE  Cause(t)
<1>0. /\ tasks \in [Tasks -> Row]
      /\ {"succeeded", "failed", "canceled", "queued", "blocked", "purged"} \subseteq Status
      /\ hpc \in [Handlers -> HPC] /\ req \in [Handlers -> Request]
  BY DEF IInv, TypeOK, Status, Stored, Terminal, Active
<1>s. ASSUME NEW where, NEW st \in Status, tasks' = SetStatus(where, st)
      PROVE  t \in where /\ tasks'[t].status = st /\ tasks'[t].dependsOn = tasks[t].dependsOn
  BY <1>0, <1>s, SetStatusRow
<1>u. CASE tasks' = tasks  BY <1>u
<1>1. CASE ExecutorNext
  <2>1. CASE Recover
    <3>1. t \in InStatus({"running"}) /\ tasks'[t].status = "queued"
      BY <1>0, <1>s, <2>1 DEF Recover, RecoverStaleRunning
    <3> QED  BY <3>1 DEF InStatus, Cause
  <2>2. ASSUME NEW w \in Workers, WorkerNext(w)
        PROVE  Cause(t)
    <3>1. CASE Claim(w)
      <4>1. PICK u \in Tasks : Claimable(u) /\ tasks' = ClaimNextTask(u)
        BY <3>1 DEF Claim
      <4> QED  BY <1>0, <4>1 DEF ClaimNextTask, Claimable, Cause, Row
    <3>2. CASE RecordSession(w) \/ PromptAdmitted(w) \/ SessionBusy(w) \/ NoteLLMRetry(w)
      <4>1. /\ Busy(w)
            /\ \/ tasks' = SetTaskSession(job[w].task, job[w].session)
               \/ tasks' = UpdateTaskProgress(job[w].task, FALSE)
               \/ tasks' = UpdateTaskProgress(job[w].task, TRUE)
        BY <3>2 DEF RecordSession, PromptAdmitted, SessionBusy, NoteLLMRetry, Step,
            Return, Goto, Busy
      <4>2. job[w].task \in Tasks /\ job[w].session \in Sessions \cup {NoSession}
        BY <4>1 DEF IInv, WorkerShape, TypeOK, Job
      <4>3. \A b \in BOOLEAN :
               /\ UpdateTaskProgress(job[w].task, b)[t].status = tasks[t].status
               /\ SetTaskSession(job[w].task, job[w].session)[t].status = tasks[t].status
        BY <1>0, <4>2, ColumnEffects
      <4> QED  BY <4>1, <4>3
    <3>3. CASE Complete(w) \/ Fail(w) \/ Panic(w)
      <4>1. wpc[w] \in Undecided
        BY <3>3 DEF Complete, Fail, Panic, Step, Return, Goto, Undecided, PC
      <4>2. t = job[w].task /\ tasks'[t].status \in {"succeeded", "failed"}
        BY <1>0, <1>s, <3>3 DEF Complete, Fail, Panic, CompleteTask, FailTask
      <4>3. tasks[t].status \in {"running", "canceled", "purged"}
        BY <4>1, <4>2 DEF IInv, OwnRow
      <4>4. tasks[t].status # "purged"
        BY <1>0, <1>s, <3>3 DEF Complete, Fail, Panic, CompleteTask, FailTask, InStatus,
            Stored, Terminal, Active
      <4> QED  BY <3>3, <4>2, <4>3, <4>4 DEF Cause, Ended, Terminal
    <3>4. CASE FailWithRetry(w) \/ DecideRetry(w)
      <4>1. wpc[w] \in Undecided /\ tasks' = RetryTask(job[w].task)
        BY <3>4 DEF FailWithRetry, DecideRetry, Step, Return, Goto, Undecided, PC
      <4> QED  BY <4>1, RetryNeverMatches
    <3>5. CASE Promote(w)
      <4>1. t \in Dependents(job[w].task, {"pending", "blocked"}) /\ tasks'[t].status = "queued"
            /\ tasks'[t].dependsOn = tasks[t].dependsOn
        BY <1>0, <1>s, <3>5 DEF Promote, PromotePendingDependents
      <4> QED  BY <3>5, <4>1 DEF Dependents, InStatus, Cause, Released
    <3>6. CASE BlockUpdate(w)
      <4>1. t \in Dependents(job[w].task, {"pending"}) /\ tasks'[t].status = "blocked"
        BY <1>0, <1>s, <3>6 DEF BlockUpdate, BlockDependents
      <4> QED  BY <3>6, <4>1 DEF Dependents, InStatus, Cause, Held
    <3> QED
      BY <1>u, <2>2, <3>1, <3>2, <3>3, <3>4, <3>5, <3>6 DEF WorkerNext, WorkerStep, Lock,
         Deadline, CheckCanceled, CreateSession, CreateSessionFails, PromptFails,
         WaitCanceled, SessionIdle, PollFails, LastAssistantText, CollectFails, Escalate,
         BlockSelect
  <2> QED  BY <1>1, <2>1, <2>2 DEF ExecutorNext
<1>2. CASE ServerNext
  <2>1. PICK h \in Handlers : HandlerNext(h)
    BY <1>2 DEF ServerNext
  <2>2. CASE CreateScheduled(h)
    <3>1. PICK u \in Schedulable, d \in Tasks \cup {NoTask}, x \in Nameable,
               stamp \in 0..MaxStamp :
              NewID(u) /\ tasks' = CreateTaskWithStatus(u, d, x, "scheduled", stamp)
      BY <2>2 DEF CreateScheduled
    <3>2. t = u /\ tasks[t].status = "absent" /\ tasks'[t].status = "scheduled"
      BY <1>0, <3>1, InsertEffect DEF NewID
    <3> QED  BY <3>2 DEF Cause, Submission
  <2>3. CASE handleBatch(h)
    <3>1. PICK u \in Tasks, x \in Nameable, stamp \in 0..MaxStamp :
              NewID(u) /\ tasks' = CreateTaskWithStatus(u, NoTask, x, "queued", stamp)
      BY <2>3 DEF handleBatch
    <3>2. t = u /\ tasks[t].status = "absent" /\ tasks'[t].status = "queued"
      BY <1>0, <3>1, InsertEffect DEF NewID
    <3>3. tasks'[t].dependsOn = NoTask
      BY <1>0, <3>1, <3>2 DEF CreateTaskWithStatus, NoRow
    <3> QED  BY <3>2, <3>3 DEF Cause, Submission
  <2>4. CASE CreateInsert(h)
    <3>1. PICK stamp \in 0..MaxStamp :
              tasks' = CreateTaskWithStatus(req[h].task, req[h].dependsOn,
                                            req[h].session, req[h].status, stamp)
      BY <2>4 DEF CreateInsert
    <3>2. /\ req[h].task \in Tasks /\ tasks[req[h].task].status = "absent"
          /\ hpc[h] = "insert" /\ req[h].status \in {"queued", "pending"}
      BY <2>4 DEF CreateInsert, Respond, IInv, TypeOK, RequestShape
    <3>3. t = req[h].task /\ tasks'[t].status = req[h].status
      BY <1>0, <3>1, <3>2, InsertEffect
    <3>4. tasks'[t].dependsOn = req[h].dependsOn
      BY <1>0, <3>1, <3>2, <3>3 DEF CreateTaskWithStatus, NoRow
    <3> QED  BY <2>4, <3>2, <3>3, <3>4 DEF Cause, Submission, Inserted
  <2>5. CASE Delete(h)
    <3>1. PICK u \in InStatus(Stored) :
              /\ tasks' = SetStatus({u} \cap Cancelable, "canceled")
              /\ Continue(h, "idle", IF u \in Cancelable THEN "blockselect"
                                                         ELSE "cancelscheduled", OnTask(u))
      BY <2>5 DEF Delete, CancelTask
    <3>a. "canceled" \in Status /\ tasks' = SetStatus({u} \cap Cancelable, "canceled")
      BY <1>0, <3>1
    <3>b. t \in {u} \cap Cancelable /\ tasks'[t].status = "canceled"
      BY <1>s, <3>a
    <3>2. t = u /\ t \in Cancelable /\ tasks'[t].status = "canceled"
      BY <3>b
    <3>3. hpc'[h] = "blockselect" /\ req'[h].task = t
      BY <1>0, <3>1, <3>2 DEF Continue, OnTask, NoRequest
    <3> QED  BY <3>2, <3>3 DEF Cancelable, InStatus, Cause, Ended, Terminal
  <2>6. CASE DeleteScheduled(h)
    <3>1. /\ "canceled" \in Status
          /\ tasks' = SetStatus({req[h].task} \cap InStatus({"scheduled"}), "canceled")
      BY <1>0, <2>6 DEF DeleteScheduled, CancelScheduledTask
    <3>2. t \in {req[h].task} \cap InStatus({"scheduled"}) /\ tasks'[t].status = "canceled"
      BY <1>s, <3>1
    <3> QED  BY <3>2 DEF InStatus, Cause
  <2>7. CASE DeleteBlockUpdate(h)
    <3>1. t \in Dependents(req[h].task, {"pending"}) /\ tasks'[t].status = "blocked"
      BY <1>0, <1>s, <2>7 DEF DeleteBlockUpdate, BlockDependents
    <3> QED  BY <2>7, <3>1 DEF Dependents, InStatus, Cause, Held
  <2>8. CASE Unblock(h)
    <3>1. /\ t \in InStatus({"blocked"}) /\ tasks'[t].status = "queued"
          /\ tasks'[t].dependsOn = tasks[t].dependsOn
      BY <1>0, <1>s, <2>8 DEF Unblock, UnblockTask
    <3> QED  BY <2>8, <3>1 DEF InStatus, Cause, Released
  <2> QED
    BY <1>u, <2>1, <2>2, <2>3, <2>4, <2>5, <2>6, <2>7, <2>8 DEF HandlerNext, HandlerStep,
       CreateRead, DeleteBlockSelect
<1>3. CASE Poll
  <2>1. PICK u \in Tasks : tasks' = SetStatus({u} \cap InStatus({"scheduled"}), "queued")
    BY <1>3 DEF Poll, PromoteScheduledTask, InStatus
  <2>2. t \in {u} \cap InStatus({"scheduled"}) /\ tasks'[t].status = "queued"
    <3>1. "queued" \in Status  BY <1>0
    <3> QED  BY <1>s, <2>1, <3>1
  <2> QED  BY <2>2 DEF InStatus, Cause
<1>4. CASE Purge
  <2>1. t \in Purgeable /\ tasks'[t].status = "purged"
    BY <1>0, <1>s, <1>4 DEF Purge, PurgeFinishedTasks
  <2> QED  BY <2>1 DEF Purgeable, InStatus, Cause
<1>5. CASE Crash \/ UNCHANGED vars
  BY <1>u, <1>5 DEF Crash, vars
<1> QED
  BY <1>1, <1>2, <1>3, <1>4, <1>5 DEF Next

(* A finished task stays finished, and a succeeded one succeeded until it  *)
(* is purged.                                                              *)
LEMMA FinishedStays ==
    ASSUME IInv, [Next]_vars, NEW u \in Tasks
    PROVE  /\ Finished(u) => Finished(u)'
           /\ tasks[u].status \in {"succeeded", "purged"} =>
                tasks'[u].status \in {"succeeded", "purged"}
<1>1. RowMove(u)  BY StepEffects
<1> QED
  BY <1>1 DEF Finished, RowMove, SameRow, Submitted, Started, Settled, Moved, Requeued,
      Edge, Terminal

(* A task that waits for u waited before the step, or is late if u had     *)
(* finished when createTask inserted it.                                   *)
LEMMA NewWaiter ==
    ASSUME IInv, [Next]_vars, NEW u \in Tasks, NEW d \in dependentIDs(u)'
    PROVE  d \in dependentIDs(u) \/ (Finished(u) => d \in late')
<1>1. d \in Tasks /\ tasks'[d].status = "pending" /\ tasks'[d].dependsOn = u
  BY DEF dependentIDs, Dependents, InStatus
<1>2. CASE tasks[d].status = "pending"
  <2>1. ColumnsKept(d)
    <3>1. \A h \in Handlers : CreateInsert(h) /\ req[h].task = d => FALSE
      BY <1>2 DEF CreateInsert, Respond, IInv, RequestShape
    <3> QED  BY <1>1, <1>2, <3>1, WaiterMove
  <2> QED  BY <1>1, <1>2, <2>1 DEF ColumnsKept, dependentIDs, Dependents, InStatus
<1>3. CASE tasks[d].status # "pending"
  <2>1. Inserted(d)
    BY <1>1, <1>3, Causes DEF Cause, Submission, Released, Held, Ended, Terminal
  <2>2. PICK h \in Handlers : CreateInsert(h) /\ req[h].task = d
                              /\ req[h].status = "pending" /\ req[h].dependsOn = u
    BY <1>1, <2>1 DEF Inserted
  <2> QED  BY <2>2 DEF CreateInsert
<1> QED  BY <1>2, <1>3

(* A step moves one worker, or restarts them all. *)
LEMMA WorkersApart ==
    ASSUME IInv, [Next]_vars, NEW w \in Workers
    PROVE  \/ wpc'[w] = wpc[w] /\ job'[w] = job[w]
           \/ WorkerNext(w) /\ restarts' = restarts
           \/ wpc'[w] = "idle" /\ restarts' = restarts + 1
<1>0. wpc \in [Workers -> PC] /\ job \in [Workers -> Job]
  BY DEF IInv, TypeOK
<1>1. ASSUME NEW v \in Workers, WorkerNext(v), v # w
      PROVE  wpc'[w] = wpc[w] /\ job'[w] = job[w]
  <2>1. ASSUME NEW from, NEW to, Goto(v, from, to)  PROVE wpc'[w] = wpc[w]
    BY <1>0, <1>1, <2>1 DEF Goto
  <2>2. ASSUME NEW from, NEW to, Step(v, from, to)  PROVE wpc'[w] = wpc[w] /\ job'[w] = job[w]
    BY <2>1, <2>2 DEF Step
  <2>3. ASSUME NEW from, Return(v, from)  PROVE wpc'[w] = wpc[w] /\ job'[w] = job[w]
    BY <1>0, <1>1, <2>1, <2>3 DEF Return
  <2>4. CASE Claim(v)
    BY <1>0, <1>1, <2>1, <2>4 DEF Claim
  <2>5. CASE Lock(v)
    BY <2>1, <2>5 DEF Lock
  <2>6. CASE CreateSession(v)
    BY <1>0, <1>1, <2>1, <2>6 DEF CreateSession
  <2>7. CASE BlockSelect(v)
    <3>1. CASE dependentIDs(job[v].task) = {}
      BY <2>3, <2>7, <3>1 DEF BlockSelect
    <3>2. CASE dependentIDs(job[v].task) # {}
      BY <1>0, <1>1, <2>1, <2>7, <3>2 DEF BlockSelect
    <3> QED  BY <3>1, <3>2
  <2>8. CASE Promote(v) \/ NoteLLMRetry(v) \/ BlockUpdate(v) \/ Panic(v)
    BY <2>3, <2>8 DEF Promote, NoteLLMRetry, BlockUpdate, Panic
  <2>9. CASE FailWithRetry(v)
    BY <2>2, <2>3, <2>9 DEF FailWithRetry
  <2>10. CASE \/ CheckCanceled(v) \/ WaitCanceled(v) \/ Deadline(v) \/ CreateSessionFails(v)
              \/ RecordSession(v) \/ PromptAdmitted(v) \/ PromptFails(v) \/ SessionBusy(v)
              \/ SessionIdle(v) \/ PollFails(v) \/ LastAssistantText(v) \/ CollectFails(v)
              \/ Complete(v) \/ DecideRetry(v) \/ Escalate(v) \/ Fail(v)
    BY <2>2, <2>10 DEF CheckCanceled, WaitCanceled, Deadline, CreateSessionFails,
       RecordSession, PromptAdmitted, PromptFails, SessionBusy, SessionIdle, PollFails,
       LastAssistantText, CollectFails, Complete, DecideRetry, Escalate, Fail
  <2> QED
    BY <1>1, <2>4, <2>5, <2>6, <2>7, <2>8, <2>9, <2>10 DEF WorkerNext, WorkerStep
<1>2. CASE ExecutorNext
  BY <1>1, <1>2 DEF ExecutorNext, Recover
<1>3. CASE Crash
  BY <1>3 DEF Crash, ExecCrash
<1>4. CASE ServerNext \/ Poll \/ Purge \/ UNCHANGED vars
  BY <1>4 DEF ServerNext, Poll, Purge, vars
<1> QED  BY <1>2, <1>3, <1>4 DEF Next

(* How a worker comes to, goes through and leaves the resolution. *)
LEMMA ResolverSteps ==
    ASSUME IInv, NEW w \in Workers, WorkerNext(w), wpc[w] \in Decided \/ wpc'[w] \in Decided
    PROVE  \/ Complete(w) \/ Fail(w) \/ Promote(w) \/ BlockSelect(w) \/ BlockUpdate(w)
           \/ wpc[w] \in Undecided /\ wpc'[w] = "blockselect"
<1> USE DEF Decided, Undecided, PC
<1>1. CASE Claim(w)
  <2>1. wpc[w] = "idle" /\ wpc'[w] \in {"check", "gate"}
    BY <1>1 DEF Claim, Goto, IInv, TypeOK
  <2> QED  BY <2>1
<1>2. CASE Lock(w) \/ CreateSession(w)
  <2>1. wpc[w] \in {"gate", "create"} /\ wpc'[w] \in {"prompt", "record"}
    BY <1>2 DEF Lock, CreateSession, Goto, IInv, TypeOK
  <2> QED  BY <2>1
<1>3. CASE NoteLLMRetry(w) \/ Panic(w)
  <2>1. wpc[w] \notin Decided /\ wpc'[w] = "idle"
    BY <1>3, ReturnEffect DEF NoteLLMRetry, Panic
  <2> QED  BY <2>1
<1>4. CASE FailWithRetry(w)
  <2>1. wpc[w] = "fail" /\ wpc'[w] \in {"idle", "failtask"}
    BY <1>4, ReturnEffect, StepEffect DEF FailWithRetry
  <2> QED  BY <2>1
<1>5. CASE CheckCanceled(w) \/ WaitCanceled(w)
  <2>1. wpc[w] \in {"check", "wait"} /\ wpc'[w] \in {"blockselect", "create", "poll"}
    BY <1>5, StepEffect DEF CheckCanceled, WaitCanceled
  <2> QED  BY <2>1
<1>6. CASE \/ Deadline(w) \/ CreateSessionFails(w) \/ RecordSession(w) \/ PromptAdmitted(w)
           \/ PromptFails(w) \/ SessionBusy(w) \/ SessionIdle(w) \/ PollFails(w)
           \/ LastAssistantText(w) \/ CollectFails(w) \/ DecideRetry(w) \/ Escalate(w)
  <2>s. ASSUME NEW from \in Undecided, NEW to \in Undecided, Step(w, from, to)
        PROVE  wpc[w] \notin Decided /\ wpc'[w] \notin Decided
    BY <2>s, StepEffect
  <2> HIDE DEF Decided
  <2>1. wpc[w] \notin Decided /\ wpc'[w] \notin Decided
    <3>1. CASE Deadline(w) \/ CreateSessionFails(w) \/ RecordSession(w) \/ PromptAdmitted(w)
      BY <3>1, <2>s DEF Deadline, CreateSessionFails, RecordSession, PromptAdmitted
    <3>2. CASE PromptFails(w) \/ SessionBusy(w) \/ SessionIdle(w) \/ PollFails(w)
      BY <3>2, <2>s DEF PromptFails, SessionBusy, SessionIdle, PollFails
    <3>3. CASE LastAssistantText(w) \/ CollectFails(w) \/ DecideRetry(w) \/ Escalate(w)
      BY <3>3, <2>s DEF LastAssistantText, CollectFails, DecideRetry, Escalate
    <3> QED  BY <1>6, <3>1, <3>2, <3>3
  <2> QED  BY <2>1
<1> QED
  BY <1>1, <1>2, <1>3, <1>4, <1>5, <1>6 DEF WorkerNext, WorkerStep

(* A step moves one request, or drops them all. *)
LEMMA RequestsApart ==
    ASSUME IInv, [Next]_vars, NEW h \in Handlers
    PROVE  \/ hpc'[h] = hpc[h] /\ req'[h] = req[h]
           \/ CreateRead(h) \/ Delete(h) \/ DeleteBlockSelect(h) \/ DeleteBlockUpdate(h)
           \/ hpc[h] \in {"insert", "cancelscheduled"} /\ hpc'[h] = "idle"
           \/ hpc'[h] = "idle" /\ restarts' = restarts + 1
<1>0. hpc \in [Handlers -> HPC] /\ req \in [Handlers -> Request]
  BY DEF IInv, TypeOK
<1>1. ASSUME NEW g \in Handlers, HandlerNext(g), g # h
      PROVE  hpc'[h] = hpc[h] /\ req'[h] = req[h]
  <2>1. ASSUME NEW from, Respond(g, from)  PROVE hpc'[h] = hpc[h] /\ req'[h] = req[h]
    BY <1>0, <1>1, <2>1 DEF Respond
  <2>2. ASSUME NEW from, NEW to, NEW r, Continue(g, from, to, r)
        PROVE  hpc'[h] = hpc[h] /\ req'[h] = req[h]
    BY <1>0, <1>1, <2>2 DEF Continue
  <2> QED
    BY <1>1, <2>1, <2>2 DEF HandlerNext, HandlerStep, CreateScheduled, CreateRead,
       handleBatch, Delete, Unblock, CreateInsert, DeleteScheduled, DeleteBlockSelect,
       DeleteBlockUpdate, apiVars
<1>2. ASSUME HandlerNext(h)
      PROVE  \/ hpc'[h] = hpc[h] /\ req'[h] = req[h]
             \/ CreateRead(h) \/ Delete(h) \/ DeleteBlockSelect(h) \/ DeleteBlockUpdate(h)
             \/ hpc[h] \in {"insert", "cancelscheduled"} /\ hpc'[h] = "idle"
  BY <1>0, <1>2 DEF HandlerNext, HandlerStep, CreateScheduled, handleBatch, Unblock,
     CreateInsert, DeleteScheduled, Respond, apiVars
<1>3. CASE ServerNext
  BY <1>1, <1>2, <1>3 DEF ServerNext
<1>4. CASE Crash
  BY <1>4 DEF Crash, APICrash
<1>5. CASE ExecutorNext \/ Poll \/ Purge \/ UNCHANGED vars
  BY <1>5 DEF ExecutorNext, Poll, Purge, vars
<1> QED  BY <1>3, <1>4, <1>5 DEF Next

(* No step makes a task waiting or succeeded behind the back of those who   *)
(* resolve: what they know stays true.                                     *)
LEMMA KnowledgeStep ==
    ASSUME IInv, RInv, [Next]_vars
    PROVE  ResolversKnow'
<1>0. /\ tasks \in [Tasks -> Row] /\ wpc \in [Workers -> PC] /\ job \in [Workers -> Job]
      /\ hpc \in [Handlers -> HPC] /\ req \in [Handlers -> Request]
  BY DEF IInv, TypeOK
<1>1. ASSUME NEW w \in Workers, wpc'[w] = "promote"
      PROVE  tasks'[job'[w].task].status \in {"succeeded", "purged"}
  <2>1. CASE wpc'[w] = wpc[w] /\ job'[w] = job[w]
    <3>1. job[w].task \in Tasks /\ tasks[job[w].task].status \in {"succeeded", "purged"}
      BY <1>1, <2>1 DEF RInv, ResolversKnow, IInv, WorkerShape, Busy
    <3> QED  BY <2>1, <3>1, FinishedStays
  <2>2. CASE WorkerNext(w)
    <3>1. Complete(w)
      <4>1. CASE Fail(w)
        BY <1>1, <4>1, StepEffect DEF Fail, PC
      <4>2. CASE Promote(w) \/ BlockUpdate(w)
        BY <1>1, <4>2, ReturnEffect DEF Promote, BlockUpdate
      <4>3. CASE BlockSelect(w)
        BY <1>0, <1>1, <4>3, ReturnEffect DEF BlockSelect, Goto
      <4> QED  BY <1>1, <2>2, <4>1, <4>2, <4>3, ResolverSteps DEF Decided
    <3>2. wpc[w] \in Undecided /\ job'[w].task = job[w].task
      BY <3>1, StepEffect DEF Complete, Undecided, PC
    <3>3. /\ job[w].task \in Tasks
          /\ tasks[job[w].task].status \in {"running", "canceled", "purged"}
      BY <3>2 DEF IInv, WorkerShape, OwnRow, Busy, Undecided
    <3>4. tasks' = SetStatus({job[w].task} \cap InStatus(Stored), "succeeded")
      BY <3>1 DEF Complete, CompleteTask
    <3>5. "succeeded" \in Status
      BY DEF Status, Stored, Terminal
    <3>6. job[w].task \in {job[w].task} \cap InStatus(Stored) \/ tasks[job[w].task].status = "purged"
      BY <3>3 DEF InStatus, Stored, Terminal, Active
    <3> QED  BY <1>0, <3>2, <3>3, <3>4, <3>5, <3>6, SetStatusRow
  <2> QED  BY <1>1, <2>1, <2>2, WorkersApart
<1>2. ASSUME NEW w \in Workers, wpc'[w] = "blockupdate", NEW d \in dependentIDs(job[w].task)'
      PROVE  d \in job'[w].ids \cup late'
  <2>1. CASE wpc'[w] = wpc[w] /\ job'[w] = job[w]
    <3>1. /\ job[w].task \in Tasks /\ Finished(job[w].task)
          /\ dependentIDs(job[w].task) \subseteq job[w].ids \cup late
      BY <1>2, <2>1 DEF RInv, ResolversKnow, IInv, WorkerShape, DecidedRow, Busy, Undecided,
          Finished
    <3>2. d \in dependentIDs(job[w].task)'
      BY <1>2, <2>1
    <3> QED  BY <2>1, <3>1, <3>2, NewWaiter, LateGrows
  <2>2. CASE WorkerNext(w)
    <3>1. BlockSelect(w)
      <4>1. CASE Complete(w) \/ Fail(w)
        BY <1>2, <4>1, StepEffect DEF Complete, Fail, PC
      <4>2. CASE Promote(w) \/ BlockUpdate(w)
        BY <1>2, <4>2, ReturnEffect DEF Promote, BlockUpdate
      <4> QED  BY <1>2, <2>2, <4>1, <4>2, ResolverSteps DEF Decided
    <3>2. dependentIDs(job[w].task) # {}
      BY <1>2, <3>1, ReturnEffect DEF BlockSelect
    <3>3. tasks' = tasks /\ job' = [job EXCEPT ![w].ids = dependentIDs(job[w].task)]
      BY <3>1, <3>2 DEF BlockSelect
    <3>4. job'[w].ids = dependentIDs(job[w].task) /\ job'[w].task = job[w].task
      BY <1>0, <3>3 DEF Job
    <3> QED  BY <1>2, <3>3, <3>4 DEF dependentIDs, Dependents, InStatus
  <2> QED  BY <1>2, <2>1, <2>2, WorkersApart
<1>3. ASSUME NEW h \in Handlers, hpc'[h] = "insert", req'[h].status = "queued",
             req'[h].dependsOn # NoTask
      PROVE  tasks'[req'[h].dependsOn].status \in {"succeeded", "purged"}
  <2>1. CASE hpc'[h] = hpc[h] /\ req'[h] = req[h]
    <3>1. /\ req[h].dependsOn \in Tasks
          /\ tasks[req[h].dependsOn].status \in {"succeeded", "purged"}
      BY <1>0, <1>3, <2>1 DEF RInv, ResolversKnow, Request
    <3> QED  BY <2>1, <3>1, FinishedStays
  <2>2. CASE CreateRead(h)
    <3>1. PICK t \in Tasks, u \in Tasks \cup {NoTask}, s \in Nameable :
              /\ InitialStatus(u) # "absent"
              /\ Continue(h, "idle", "insert",
                          [task |-> t, dependsOn |-> u, session |-> s,
                           status |-> InitialStatus(u), ids |-> {}])
              /\ UNCHANGED <<tasks, late>>
      BY <2>2 DEF CreateRead
    <3>2. req'[h].dependsOn = u /\ InitialStatus(u) = "queued" /\ tasks' = tasks
      BY <1>0, <1>3, <3>1 DEF Continue
    <3> QED  BY <1>3, <3>2 DEF InitialStatus
  <2>3. ~Delete(h) /\ ~DeleteBlockSelect(h) /\ ~DeleteBlockUpdate(h)
    BY <1>0, <1>3 DEF Delete, DeleteBlockSelect, DeleteBlockUpdate, Continue, Respond
  <2> QED  BY <1>3, <2>1, <2>2, <2>3, RequestsApart
<1>4. ASSUME NEW h \in Handlers, hpc'[h] \in {"blockselect", "blockupdate"}
      PROVE  Finished(req[h].task)'
  <2>1. CASE hpc'[h] = hpc[h] /\ req'[h] = req[h]
    <3>1. req[h].task \in Tasks /\ Finished(req[h].task)
      BY <1>4, <2>1 DEF RInv, ResolversKnow, IInv, TypeOK
    <3> QED  BY <2>1, <3>1, FinishedStays DEF Finished
  <2>2. CASE Delete(h)
    <3>1. PICK t \in InStatus(Stored) :
              /\ tasks' = SetStatus({t} \cap Cancelable, "canceled")
              /\ Continue(h, "idle", IF t \in Cancelable THEN "blockselect"
                                                         ELSE "cancelscheduled", OnTask(t))
      BY <2>2 DEF Delete, CancelTask
    <3>2. t \in Tasks /\ t \in Cancelable /\ req'[h].task = t
      BY <1>0, <1>4, <3>1 DEF Continue, OnTask, NoRequest, InStatus
    <3>3. "canceled" \in Status
      BY DEF Status, Stored, Terminal
    <3>4. t \in {t} \cap Cancelable
      BY <3>2
    <3>5. tasks'[t].status = "canceled"
      BY <1>0, <3>1, <3>2, <3>3, <3>4, SetStatusRow
    <3> QED  BY <3>2, <3>5 DEF Finished, Terminal
  <2>3. CASE DeleteBlockSelect(h)
    <3>1. /\ hpc[h] = "blockselect" /\ tasks' = tasks /\ req'[h].task = req[h].task
      BY <1>0, <1>4, <2>3 DEF DeleteBlockSelect, Continue, Respond, Request
    <3>2. Finished(req[h].task)
      BY <3>1 DEF RInv, ResolversKnow
    <3> QED  BY <3>1, <3>2 DEF Finished
  <2>4. ~CreateRead(h) /\ ~DeleteBlockUpdate(h)
    BY <1>0, <1>4 DEF CreateRead, DeleteBlockUpdate, Continue, Respond
  <2> QED  BY <1>4, <2>1, <2>2, <2>3, <2>4, RequestsApart
<1>5. ASSUME NEW h \in Handlers, hpc'[h] = "blockupdate", NEW d \in dependentIDs(req[h].task)'
      PROVE  d \in req'[h].ids \cup late'
  <2>1. CASE hpc'[h] = hpc[h] /\ req'[h] = req[h]
    <3>1. /\ req[h].task \in Tasks /\ Finished(req[h].task)
          /\ dependentIDs(req[h].task) \subseteq req[h].ids \cup late
      BY <1>5, <2>1 DEF RInv, ResolversKnow, IInv, TypeOK
    <3>2. d \in dependentIDs(req[h].task)'
      BY <1>5, <2>1
    <3> QED  BY <2>1, <3>1, <3>2, NewWaiter, LateGrows
  <2>2. CASE DeleteBlockSelect(h)
    <3>1. /\ tasks' = tasks /\ req'[h].task = req[h].task
          /\ req'[h].ids = dependentIDs(req[h].task)
      BY <1>0, <1>5, <2>2 DEF DeleteBlockSelect, Continue, Respond, Request
    <3> QED  BY <1>5, <3>1 DEF dependentIDs, Dependents, InStatus
  <2>3. ~CreateRead(h) /\ ~Delete(h) /\ ~DeleteBlockUpdate(h)
    BY <1>0, <1>5 DEF CreateRead, Delete, DeleteBlockUpdate, Continue, Respond
  <2> QED  BY <1>5, <2>1, <2>2, <2>3, RequestsApart
<1> QED
  BY <1>1, <1>2, <1>3, <1>4, <1>5 DEF ResolversKnow

(* A task that has just finished, without a panic and not as a scheduled   *)
(* one, has somebody to resolve its waiters.                               *)
LEMMA FinishStep ==
    ASSUME IInv, [Next]_vars, ~Panics, Schedulable = {}, NoneScheduled,
           NEW u \in Tasks, ~Finished(u), Finished(u)'
    PROVE  Resolving(u)'
<1>1. u # NoTask /\ tasks[u].status \notin Terminal \cup {"purged"}
      /\ tasks'[u].status \in Terminal \cup {"purged"}
  BY DEF Finished
<1>2. tasks[u].status # "scheduled"
  BY DEF NoneScheduled, InStatus
<1>3. Ended(u)
  BY <1>1, <1>2, Causes DEF Cause, Submission, Inserted, Released, Held, Terminal
<1>4. ASSUME NEW w \in Workers, Complete(w) \/ Fail(w) \/ Panic(w), job[w].task = u
      PROVE  Resolving(u)'
  <2>1. wpc'[w] \in {"promote", "blockselect"} /\ job'[w].task = u
    BY <1>4, StepEffect DEF Complete, Fail, Panic, PC
  <2> QED  BY <2>1 DEF Resolving
<1> QED  BY <1>3, <1>4 DEF Ended, Resolving

(* Whoever resolves u goes on with it, or leaves no waiter behind. *)
LEMMA ResolveStep ==
    ASSUME IInv, [Next]_vars, restarts' = restarts, NEW u \in Tasks, Resolving(u)
    PROVE  Resolving(u)' \/ dependentIDs(u)' = {}
<1>0. /\ tasks \in [Tasks -> Row] /\ wpc \in [Workers -> PC] /\ job \in [Workers -> Job]
      /\ hpc \in [Handlers -> HPC] /\ req \in [Handlers -> Request]
      /\ restarts' # restarts + 1 /\ {"queued", "blocked"} \subseteq Status
  BY DEF IInv, TypeOK, Status, Stored, Active
<1>1. ASSUME NEW where, NEW st \in Status \ {"pending"}, tasks' = SetStatus(where, st),
             dependentIDs(u) \subseteq where
      PROVE  dependentIDs(u)' = {}
  BY <1>0, <1>1, SetStatusRow DEF dependentIDs, Dependents, InStatus
<1>2. ASSUME NEW w \in Workers, job[w].task = u, wpc[w] \in Decided
      PROVE  Resolving(u)' \/ dependentIDs(u)' = {}
  <2>1. CASE wpc'[w] = wpc[w] /\ job'[w] = job[w]
    BY <1>2, <2>1 DEF Resolving, Decided
  <2>2. CASE WorkerNext(w)
    <3>1. CASE Promote(w)
      BY <1>0, <1>1, <1>2, <3>1 DEF Promote, PromotePendingDependents, dependentIDs, Dependents,
          InStatus
    <3>2. CASE BlockUpdate(w)
      BY <1>0, <1>1, <1>2, <3>2 DEF BlockUpdate, BlockDependents, dependentIDs
    <3>3. CASE BlockSelect(w)
      <4>1. CASE dependentIDs(u) = {}
        BY <3>3, <4>1 DEF BlockSelect, dependentIDs, Dependents, InStatus
      <4>2. CASE dependentIDs(u) # {}
        <5>1. wpc'[w] = "blockupdate" /\ job'[w].task = u
          BY <1>0, <1>2, <3>3, <4>2 DEF BlockSelect, Goto, Job
        <5> QED  BY <5>1 DEF Resolving
      <4> QED  BY <4>1, <4>2
    <3>4. ~Complete(w) /\ ~Fail(w) /\ wpc[w] \notin Undecided
      BY <1>2 DEF Complete, Fail, Step, Goto, Decided, Undecided
    <3> QED  BY <1>2, <2>2, <3>1, <3>2, <3>3, <3>4, ResolverSteps
  <2> QED  BY <1>0, <2>1, <2>2, WorkersApart
<1>3. ASSUME NEW h \in Handlers, req[h].task = u, hpc[h] \in {"blockselect", "blockupdate"}
      PROVE  Resolving(u)' \/ dependentIDs(u)' = {}
  <2>1. CASE hpc'[h] = hpc[h] /\ req'[h] = req[h]
    BY <1>3, <2>1 DEF Resolving
  <2>2. CASE DeleteBlockUpdate(h)
    BY <1>0, <1>1, <1>3, <2>2 DEF DeleteBlockUpdate, BlockDependents, dependentIDs
  <2>3. CASE DeleteBlockSelect(h)
    <3>1. CASE dependentIDs(u) = {}
      BY <2>3, <3>1 DEF DeleteBlockSelect, dependentIDs, Dependents, InStatus
    <3>2. CASE dependentIDs(u) # {}
      <4>1. hpc'[h] = "blockupdate" /\ req'[h].task = u
        BY <1>0, <1>3, <2>3, <3>2 DEF DeleteBlockSelect, Continue, Request
      <4> QED  BY <4>1 DEF Resolving
    <3> QED  BY <3>1, <3>2
  <2>4. ~CreateRead(h) /\ ~Delete(h)
    BY <1>3 DEF CreateRead, Delete, Continue
  <2> QED  BY <1>0, <1>3, <2>1, <2>2, <2>3, <2>4, RequestsApart
<1> QED  BY <1>2, <1>3 DEF Resolving, Decided

(* The invariant of the resolution is kept by every step. *)
LEMMA ResolutionStep == IInv /\ RInv /\ [Next]_vars => RInv'
<1> SUFFICES ASSUME IInv, RInv, [Next]_vars PROVE RInv'
  OBVIOUS
<1>1. ResolversKnow'
  BY KnowledgeStep
<1>2. NoneScheduled'
  <2> SUFFICES ASSUME Schedulable = {}, NEW t \in Tasks, tasks'[t].status = "scheduled"
               PROVE  FALSE
    BY DEF NoneScheduled, InStatus
  <2>1. tasks[t].status # "scheduled"
    BY DEF RInv, NoneScheduled, InStatus
  <2> QED  BY <2>1, Causes DEF Cause, Submission, Inserted, Released, Held, Ended, Terminal
<1>3. OrphanOnlyByRace'
  <2> SUFFICES ASSUME restarts' = 0, ~Panics, Schedulable = {}, NEW d \in Tasks, Orphan(d)'
               PROVE  d \in late'
    BY DEF OrphanOnlyByRace
  <2>0. restarts = 0 /\ restarts' = restarts
    BY DEF Next, ExecutorNext, ServerNext, Poll, Purge, Crash, vars, IInv, TypeOK
  <2>1. PICK u \in Tasks : tasks'[d].dependsOn = u
    <3>1. TypeOK'  BY TypeStep DEF IInv
    <3>2. tasks'[d].dependsOn \in Tasks \cup {NoTask}
      BY <3>1 DEF TypeOK, Row
    <3> QED  BY <3>2 DEF Orphan, Finished
  <2>f. Finished(u)' /\ ~Resolving(u)' /\ d \in dependentIDs(u)'
    BY <2>1 DEF Orphan, Finished, Resolving, dependentIDs, Dependents, InStatus
  <2>2. Finished(u)
    BY <2>f, FinishStep DEF RInv
  <2>3. CASE d \in dependentIDs(u)
    <3>1. ~Resolving(u)
      BY <2>0, <2>f, ResolveStep
    <3>2. Orphan(d)
      BY <2>2, <2>3, <3>1 DEF Orphan, dependentIDs, Dependents, InStatus
    <3> QED  BY <2>0, <3>2, LateGrows DEF RInv, OrphanOnlyByRace
  <2> QED  BY <2>f, <2>2, <2>3, NewWaiter
<1> QED  BY <1>1, <1>2, <1>3 DEF RInv

(* What workers and requests know when they resolve the waiters of a task  *)
(* is true, for any number of tasks, workers, requests and restarts.       *)
THEOREM Resolution == Spec => []RInv
<1>1. Init => RInv
  BY DEF Init, StoreInit, ExecInit, APIInit, RInv, ResolversKnow, NoneScheduled, InStatus,
      OrphanOnlyByRace, Orphan, NoRow
<1>2. IInv /\ RInv /\ [Next]_vars => RInv'
  BY ResolutionStep
<1> QED  BY <1>1, <1>2, Invariant, PTL DEF Spec

(* No waiter is forgotten: without crashes, panics and scheduled upstreams *)
(* a task waits for a finished one only if it was inserted too late.       *)
THEOREM NoForgottenWaiter == Spec => []OrphanOnlyByRace
<1>1. RInv => OrphanOnlyByRace  BY DEF RInv
<1> QED  BY <1>1, Resolution, PTL

(* A dependent enters the queue only after its upstream succeeded, or      *)
(* unblocked by hand.                                                      *)
THEOREM UpstreamFirst == Spec => DependencyRespected
<1> DEFINE Respects ==
        \A t \in Tasks :
            /\ tasks[t].status \in {"absent", "pending", "blocked"}
            /\ tasks'[t].status = "queued"
            /\ tasks'[t].dependsOn # NoTask
            => \/ tasks[tasks'[t].dependsOn].status \in {"succeeded", "purged"}
               \/ \E h \in Handlers : Unblock(h)
<1>1. IInv /\ RInv /\ [Next]_vars => [Respects]_vars
  <2> SUFFICES ASSUME IInv, RInv, [Next]_vars, NEW t \in Tasks,
                      tasks[t].status \in {"absent", "pending", "blocked"},
                      tasks'[t].status = "queued", tasks'[t].dependsOn # NoTask,
                      ~\E h \in Handlers : Unblock(h)
               PROVE  tasks[tasks'[t].dependsOn].status \in {"succeeded", "purged"}
    OBVIOUS
  <2>1. Inserted(t) \/ Released(t)
    BY Causes DEF Cause, Submission, Held, Ended, Terminal
  <2>2. CASE Inserted(t)
    BY <2>2 DEF Inserted, RInv, ResolversKnow
  <2>3. CASE Released(t)
    <3>1. PICK w \in Workers : Promote(w) /\ tasks'[t].dependsOn = job[w].task
      BY <2>3 DEF Released
    <3>2. wpc[w] = "promote"
      BY <3>1 DEF Promote, Return, Goto
    <3> QED  BY <3>1, <3>2 DEF RInv, ResolversKnow
  <2> QED  BY <2>1, <2>2, <2>3
<1> QED
  BY <1>1, Invariant, Resolution, PTL DEF Spec, DependencyRespected

(* Every dependent that becomes blocked is announced by an event, except   *)
(* one that was inserted too late.                                         *)
THEOREM BlockingIsAnnounced == Spec => BlockedAnnounced
<1> DEFINE Announces ==
        \A d \in Tasks :
            tasks[d].status # "blocked" /\ tasks'[d].status = "blocked" =>
                \/ \E w \in Workers : wpc[w] = "blockupdate" /\ d \in job[w].ids
                \/ \E h \in Handlers : hpc[h] = "blockupdate" /\ d \in req[h].ids
                \/ d \in late
<1>1. IInv /\ RInv /\ [Next]_vars => [Announces]_vars
  <2> SUFFICES ASSUME IInv, RInv, [Next]_vars, NEW d \in Tasks,
                      tasks[d].status # "blocked", tasks'[d].status = "blocked",
                      d \notin late
               PROVE  \/ \E w \in Workers : wpc[w] = "blockupdate" /\ d \in job[w].ids
                      \/ \E h \in Handlers : hpc[h] = "blockupdate" /\ d \in req[h].ids
    OBVIOUS
  <2>1. Held(d)
    BY Causes DEF Cause, Submission, Inserted, Released, Ended, Terminal
  <2>2. ASSUME NEW w \in Workers, BlockUpdate(w), tasks[d].dependsOn = job[w].task
        PROVE  wpc[w] = "blockupdate" /\ d \in job[w].ids
    <3>1. wpc[w] = "blockupdate" /\ d \in dependentIDs(job[w].task)
      BY <2>1, <2>2 DEF Held, BlockUpdate, Return, Goto, dependentIDs, Dependents, InStatus
    <3> QED  BY <3>1 DEF RInv, ResolversKnow
  <2>3. ASSUME NEW h \in Handlers, DeleteBlockUpdate(h), tasks[d].dependsOn = req[h].task
        PROVE  hpc[h] = "blockupdate" /\ d \in req[h].ids
    <3>1. hpc[h] = "blockupdate" /\ d \in dependentIDs(req[h].task)
      BY <2>1, <2>3 DEF Held, DeleteBlockUpdate, Respond, dependentIDs, Dependents, InStatus
    <3> QED  BY <3>1 DEF RInv, ResolversKnow
  <2> QED  BY <2>1, <2>2, <2>3 DEF Held
<1> QED
  BY <1>1, Invariant, Resolution, PTL DEF Spec, BlockedAnnounced

-----------------------------------------------------------------------------
(* The task queue implements TaskLifecycle: every step of every action     *)
(* moves one set of rows along one edge of the abstract life cycle, or     *)
(* none.  The invariant is needed twice: a worker's outcome lands on a     *)
(* running or cancelled row, and an INSERT on an id that is still free.    *)

\* The refinement mapping of TaskSystem!Lifecycle.
statusOf == [t \in Tasks |-> tasks[t].status]

Abstract == Lifecycle!Next \/ UNCHANGED statusOf

(* A statement that sets a status moves the rows it selects. *)
LEMMA SetStatusMoves ==
    ASSUME tasks \in [Tasks -> Row], NEW where \in SUBSET Tasks, NEW st \in Status,
           NEW from, \A t \in where : tasks[t].status \in from,
           tasks' = SetStatus(where, st)
    PROVE  Lifecycle!Move(where, from, st)
<1>1. \A t \in Tasks : tasks'[t].status = IF t \in where THEN st ELSE tasks[t].status
  BY SetStatusRow
<1> QED
  BY <1>1 DEF Lifecycle!Move

(* One row or none. *)
LEMMA OneRowMoves ==
    ASSUME tasks \in [Tasks -> Row], NEW t, NEW S \in SUBSET Tasks, NEW st \in Status,
           NEW from, \A u \in S : tasks[u].status \in from,
           tasks' = SetStatus({t} \cap S, st)
    PROVE  UNCHANGED statusOf \/ (t \in Tasks /\ Lifecycle!Move({t}, from, st))
<1>1. CASE t \in S
  <2>1. {t} \cap S = {t} /\ {t} \in SUBSET Tasks  BY <1>1
  <2> QED  BY <1>1, <2>1, SetStatusMoves
<1>2. CASE t \notin S
  <2>1. {t} \cap S = {}  BY <1>2
  <2>2. \A u \in Tasks : tasks'[u].status = tasks[u].status
    BY <2>1, SetStatusRow
  <2> QED  BY <2>2 DEF statusOf
<1> QED  BY <1>1, <1>2

(* Rows that keep their status. *)
LEMMA Stutters ==
    ASSUME \A u \in Tasks : tasks'[u].status = tasks[u].status
    PROVE  Abstract
BY DEF Abstract, statusOf

(* Steps on several rows are steps of the life cycle. *)
LEMMA ManyRowsMove ==
    ASSUME NEW D \in SUBSET Tasks,
           \/ Lifecycle!Release(D) \/ Lifecycle!Block(D)
           \/ Lifecycle!Requeue(D) \/ Lifecycle!Delete(D)
    PROVE  Abstract
<1>1. \E E \in SUBSET Tasks : \/ Lifecycle!Release(E) \/ Lifecycle!Block(E)
                             \/ Lifecycle!Requeue(E) \/ Lifecycle!Delete(E)
  OBVIOUS
<1>2. Lifecycle!Next
  BY <1>1, Zenon DEF Lifecycle!Next
<1> QED  BY <1>2 DEF Abstract

(* Steps of a worker. *)
LEMMA WorkerRefines ==
    ASSUME IInv, NEW w \in Workers, WorkerNext(w)
    PROVE  Abstract
<1>0. /\ tasks \in [Tasks -> Row]
      /\ job[w].session \in Sessions \cup {NoSession}
      /\ Busy(w) => job[w].task \in Tasks
  BY DEF IInv, TypeOK, Job, WorkerShape
<1>1. CASE Claim(w)
  <2>1. PICK t \in Tasks : tasks[t].status = "queued" /\ tasks' = ClaimNextTask(t)
    BY <1>1 DEF Claim, Claimable
  <2>2. \A u \in Tasks : tasks'[u].status = IF u = t THEN "running" ELSE tasks[u].status
    BY <1>0, <2>1 DEF ClaimNextTask, Row
  <2>3. Lifecycle!Start(t)
    BY <2>1, <2>2 DEF Lifecycle!Start, Lifecycle!Move
  <2> QED  BY <2>3 DEF Abstract, Lifecycle!Next
<1>2. CASE UNCHANGED tasks
  BY <1>2, Stutters
<1>3. CASE RecordSession(w) \/ PromptAdmitted(w) \/ SessionBusy(w) \/ NoteLLMRetry(w)
  <2>1. wpc[w] # "idle"
    BY <1>3 DEF RecordSession, PromptAdmitted, SessionBusy, NoteLLMRetry, Step, Return, Goto
  <2>2. job[w].task \in Tasks
    BY <1>0, <2>1 DEF Busy
  <2>3. CASE tasks' = SetTaskSession(job[w].task, job[w].session)
    BY <1>0, <2>2, <2>3, ColumnEffects, Stutters
  <2>4. ASSUME NEW b \in BOOLEAN, tasks' = UpdateTaskProgress(job[w].task, b)
        PROVE  Abstract
    BY <1>0, <2>2, <2>4, ColumnEffects, Stutters
  <2> QED
    BY <1>3, <2>3, <2>4 DEF RecordSession, PromptAdmitted, SessionBusy, NoteLLMRetry
<1>4. CASE Complete(w) \/ Fail(w) \/ Panic(w)
  <2>1. wpc[w] \in Undecided
    BY <1>4 DEF Complete, Fail, Panic, Step, Return, Goto, Undecided, PC
  <2>2. /\ job[w].task \in Tasks
        /\ tasks[job[w].task].status \in {"running", "canceled", "purged"}
    BY <1>0, <2>1 DEF IInv, OwnRow, Busy, Undecided
  <2>3. PICK st \in {"succeeded", "failed"} :
            tasks' = SetStatus({job[w].task} \cap InStatus(Stored), st)
    BY <1>4 DEF Complete, Fail, Panic, CompleteTask, FailTask
  <2> DEFINE S == {job[w].task} \cap InStatus(Stored)
  <2>4. /\ S \in SUBSET Tasks
        /\ \A u \in S : tasks[u].status \in {"running", "canceled"}
        /\ {job[w].task} \cap S = S /\ st \in Status
    BY <2>2 DEF InStatus, Stored, Terminal, Active, Status
  <2>5. tasks' = SetStatus({job[w].task} \cap S, st)
    BY <2>3, <2>4
  <2> HIDE DEF S
  <2>6. \/ UNCHANGED statusOf
        \/ Lifecycle!Move({job[w].task}, {"running", "canceled"}, st)
    BY <1>0, <2>4, <2>5, OneRowMoves
  <2>7. CASE Lifecycle!Move({job[w].task}, {"running", "canceled"}, st)
    <3>1. Lifecycle!Settle(job[w].task)  BY <2>7 DEF Lifecycle!Settle
    <3> QED  BY <2>2, <3>1 DEF Abstract, Lifecycle!Next
  <2> QED  BY <2>6, <2>7 DEF Abstract
<1>5. CASE Promote(w)
  <2>0. PICK D \in SUBSET Tasks : D = Dependents(job[w].task, {"pending", "blocked"})
    BY DEF Dependents, InStatus
  <2>1. /\ tasks' = SetStatus(D, "queued")
        /\ \A u \in D : tasks[u].status \in {"pending", "blocked"}
        /\ "queued" \in Status
    BY <1>5, <2>0 DEF Promote, PromotePendingDependents, Dependents, InStatus, Status,
        Stored, Active
  <2>2. Lifecycle!Release(D)
    BY <1>0, <2>1, SetStatusMoves DEF Lifecycle!Release
  <2> QED  BY <2>2, ManyRowsMove
<1>6. CASE FailWithRetry(w) \/ DecideRetry(w)
  <2>1. wpc[w] \in Undecided
    BY <1>6 DEF FailWithRetry, DecideRetry, Return, Step, Goto, Undecided, PC
  <2>2. \A u \in Tasks : tasks'[u] = tasks[u]
    BY <1>6, <2>1, RetryNeverMatches DEF FailWithRetry, DecideRetry
  <2> QED  BY <2>2, Stutters
<1>7. CASE BlockUpdate(w)
  <2>0. PICK D \in SUBSET Tasks : D = Dependents(job[w].task, {"pending"})
    BY DEF Dependents, InStatus
  <2>1. /\ tasks' = SetStatus(D, "blocked")
        /\ \A u \in D : tasks[u].status \in {"pending"}
        /\ "blocked" \in Status
    BY <1>7, <2>0 DEF BlockUpdate, BlockDependents, Dependents, InStatus, Status, Stored, Active
  <2>2. Lifecycle!Block(D)
    BY <1>0, <2>1, SetStatusMoves DEF Lifecycle!Block
  <2> QED  BY <2>2, ManyRowsMove
<1> QED
  BY <1>1, <1>2, <1>3, <1>4, <1>5, <1>6, <1>7 DEF WorkerNext, WorkerStep, Lock,
      Deadline, CheckCanceled, CreateSession, CreateSessionFails, PromptFails,
      WaitCanceled, SessionIdle, PollFails, LastAssistantText, CollectFails,
      Escalate, BlockSelect

(* Steps of a request. *)
LEMMA HandlerRefines ==
    ASSUME IInv, NEW h \in Handlers, HandlerNext(h)
    PROVE  Abstract
<1>0. tasks \in [Tasks -> Row]
  BY DEF IInv, TypeOK
<1>i. ASSUME NEW t \in Tasks, tasks[t].status = "absent",
             NEW st \in {"queued", "pending", "scheduled"}, NEW d, NEW s, NEW stamp,
             tasks' = CreateTaskWithStatus(t, d, s, st, stamp)
      PROVE  Abstract
  <2>1. \A u \in Tasks : tasks'[u].status = IF u = t THEN st ELSE tasks[u].status
    BY <1>0, <1>i, InsertEffect
  <2>2. Lifecycle!Submit(t)
    BY <1>i, <2>1 DEF Lifecycle!Submit, Lifecycle!Move
  <2> QED  BY <2>2 DEF Abstract, Lifecycle!Next
<1>c. ASSUME NEW t, NEW from \in SUBSET {"queued", "pending", "running", "scheduled"},
             tasks' = SetStatus({t} \cap InStatus(from), "canceled")
      PROVE  Abstract
  <2>1. /\ InStatus(from) \in SUBSET Tasks /\ "canceled" \in Status
        /\ \A u \in InStatus(from) :
              tasks[u].status \in {"queued", "pending", "running", "scheduled"}
    BY DEF InStatus, Status, Stored, Terminal
  <2>2. UNCHANGED statusOf \/ (t \in Tasks /\ Lifecycle!Cancel(t))
    BY <1>0, <1>c, <2>1, OneRowMoves DEF Lifecycle!Cancel
  <2> QED  BY <2>2 DEF Abstract, Lifecycle!Next
<1>1. CASE CreateScheduled(h)
  BY <1>1, <1>i DEF CreateScheduled, NewID
<1>b. CASE handleBatch(h)
  BY <1>b, <1>i DEF handleBatch, NewID
<1>2. CASE UNCHANGED tasks
  BY <1>2, Stutters
<1>3. CASE Delete(h)
  BY <1>3, <1>c DEF Delete, CancelTask, Cancelable
<1>4. CASE Unblock(h)
  <2>1. PICK t \in InStatus({"blocked"}) :
            tasks' = SetStatus({t} \cap InStatus({"blocked"}), "queued")
    BY <1>4 DEF Unblock, UnblockTask
  <2>2. /\ {t} \cap InStatus({"blocked"}) = {t} /\ {t} \in SUBSET Tasks
        /\ \A u \in {t} : tasks[u].status \in {"pending", "blocked"}
        /\ "queued" \in Status
    BY <2>1 DEF InStatus, Status, Stored, Active
  <2>3. Lifecycle!Release({t})
    BY <1>0, <2>1, <2>2, SetStatusMoves DEF Lifecycle!Release
  <2> QED  BY <2>2, <2>3, ManyRowsMove
<1>5. CASE CreateInsert(h)
  <2>1. hpc[h] = "insert"
    BY <1>5 DEF CreateInsert, Respond
  <2>2. /\ req[h].task \in Tasks /\ tasks[req[h].task].status = "absent"
        /\ req[h].status \in {"queued", "pending", "scheduled"}
    BY <2>1 DEF IInv, TypeOK, RequestShape
  <2> QED  BY <1>5, <1>i, <2>2 DEF CreateInsert
<1>6. CASE DeleteScheduled(h)
  BY <1>6, <1>c DEF DeleteScheduled, CancelScheduledTask
<1>7. CASE DeleteBlockUpdate(h)
  <2>0. PICK D \in SUBSET Tasks : D = Dependents(req[h].task, {"pending"})
    BY DEF Dependents, InStatus
  <2>1. /\ tasks' = SetStatus(D, "blocked")
        /\ \A u \in D : tasks[u].status \in {"pending"}
        /\ "blocked" \in Status
    BY <1>7, <2>0 DEF DeleteBlockUpdate, BlockDependents, Dependents, InStatus, Status,
        Stored, Active
  <2>2. Lifecycle!Block(D)
    BY <1>0, <2>1, SetStatusMoves DEF Lifecycle!Block
  <2> QED  BY <2>2, ManyRowsMove
<1> QED
  BY <1>1, <1>b, <1>2, <1>3, <1>4, <1>5, <1>6, <1>7 DEF HandlerNext, HandlerStep,
      CreateRead, DeleteBlockSelect

(* Every step of the system is a step of the life cycle, or none. *)
LEMMA StepRefines ==
    ASSUME IInv, [Next]_vars
    PROVE  Abstract
<1>0. tasks \in [Tasks -> Row]
  BY DEF IInv, TypeOK
<1>1. CASE Recover
  <2>0. PICK D \in SUBSET Tasks : D = InStatus({"running"})
    BY DEF Dependents, InStatus
  <2>1. /\ tasks' = SetStatus(D, "queued")
        /\ \A u \in D : tasks[u].status \in {"running"}
        /\ "queued" \in Status
    BY <1>1, <2>0 DEF Recover, RecoverStaleRunning, InStatus, Status, Stored, Active
  <2>2. Lifecycle!Requeue(D)
    BY <1>0, <2>1, SetStatusMoves DEF Lifecycle!Requeue
  <2> QED  BY <2>2, ManyRowsMove
<1>2. CASE Poll
  <2>1. PICK t \in Tasks : tasks' = SetStatus({t} \cap InStatus({"scheduled"}), "queued")
    BY <1>2 DEF Poll, PromoteScheduledTask, InStatus
  <2>2. /\ InStatus({"scheduled"}) \in SUBSET Tasks /\ "queued" \in Status
        /\ \A u \in InStatus({"scheduled"}) : tasks[u].status \in {"scheduled"}
    BY DEF InStatus, Status, Stored, Active
  <2>3. UNCHANGED statusOf \/ Lifecycle!ComeDue(t)
    BY <1>0, <2>1, <2>2, OneRowMoves DEF Lifecycle!ComeDue
  <2> QED  BY <2>3 DEF Abstract, Lifecycle!Next
<1>3. CASE Purge
  <2>1. PICK D \in SUBSET Tasks :
            D \subseteq Purgeable /\ tasks' = SetStatus(D, "purged")
    <3>1. PICK gone \in SUBSET Purgeable : tasks' = SetStatus(gone \cap Purgeable, "purged")
      BY <1>3 DEF Purge, PurgeFinishedTasks
    <3>2. gone \cap Purgeable = gone /\ gone \subseteq Tasks
      BY DEF Purgeable, InStatus
    <3> QED  BY <3>1, <3>2
  <2>2. /\ \A u \in D : tasks[u].status \in {"succeeded", "failed", "canceled"}
        /\ "purged" \in Status
    BY <2>1 DEF Purgeable, InStatus, Status, Terminal
  <2>3. Lifecycle!Delete(D)
    BY <1>0, <2>1, <2>2, SetStatusMoves DEF Lifecycle!Delete
  <2> QED  BY <2>3, ManyRowsMove
<1>4. CASE UNCHANGED tasks
  BY <1>4, Stutters
<1> QED
  BY <1>1, <1>2, <1>3, <1>4, WorkerRefines, HandlerRefines DEF Next, ExecutorNext,
      ServerNext, Crash, vars

(* The task queue implements the abstract life cycle: whatever is          *)
(* interleaved, cancelled, purged or restarted, a status only moves along  *)
(* the edges of TaskLifecycle.                                             *)
THEOREM Refinement == Spec => ImplementsLifecycle
<1>1. Init => Lifecycle!Init
  BY DEF Init, StoreInit, NoRow, Lifecycle!Init
<1>2. IInv /\ [Next]_vars => [Lifecycle!Next]_statusOf
  BY StepRefines DEF Abstract
<1> QED
  BY <1>1, <1>2, Invariant, PTL DEF Spec, ImplementsLifecycle, Lifecycle!Spec, statusOf

=============================================================================
