------------------------------- MODULE TaskAPI -------------------------------
(***************************************************************************)
(* The task endpoints (tasks.go and batch.go of internal/server).  Each    *)
(* handler goroutine runs one request at a time; the statements of a       *)
(* request are separate steps.  A request that is refused or only reads    *)
(* leaves no trace.                                                        *)
(***************************************************************************)
EXTENDS TaskStore

CONSTANTS Handlers,     \* concurrent requests
          Schedulable   \* ids clients submit with a future scheduledAt

ASSUME APIAssumption == Schedulable \subseteq Tasks

VARIABLES hpc,    \* where each request is
          req,    \* its parsed body and locals
          late    \* history: rows inserted as pending after their upstream
                  \* had finished

apiVars == <<hpc, req, late>>

-----------------------------------------------------------------------------
HPC == {"idle", "insert", "cancelscheduled", "blockselect", "blockupdate"}

Request == [task : Tasks \cup {NoTask}, dependsOn : Tasks \cup {NoTask},
            session : Sessions \cup {NoSession}, status : Status,
            ids : SUBSET Tasks]

NoRequest == [task |-> NoTask, dependsOn |-> NoTask, session |-> NoSession,
              status |-> "absent", ids |-> {}]

APIInit ==
    /\ hpc = [h \in Handlers |-> "idle"]
    /\ req = [h \in Handlers |-> NoRequest]
    /\ late = {}

Respond(h, from) ==
    /\ hpc[h] = from
    /\ hpc' = [hpc EXCEPT ![h] = "idle"]
    /\ req' = [req EXCEPT ![h] = NoRequest]

Continue(h, from, to, r) ==
    /\ hpc[h] = from
    /\ hpc' = [hpc EXCEPT ![h] = to]
    /\ req' = [req EXCEPT ![h] = r]

-----------------------------------------------------------------------------
(* POST /api/tasks                                                         *)

NewID(t) ==
    /\ tasks[t].status = "absent"
    /\ \A h \in Handlers : req[h].task # t

\* A client names a session it knows: its own, or one it read off a task.
Nameable == {NoSession} \cup UserSessions \cup {tasks[t].session : t \in Tasks}

\* A future scheduledAt: inserted at once, depends_on is not looked at.
CreateScheduled(h) ==
    /\ hpc[h] = "idle"
    /\ \E t \in Schedulable, d \in Tasks \cup {NoTask},
          s \in Nameable, stamp \in 0..MaxStamp :
        /\ NewID(t) /\ Now(stamp)
        /\ tasks' = CreateTaskWithStatus(t, d, s, "scheduled", stamp)
    /\ UNCHANGED apiVars

\* Faulty variant: a running upstream counts as done.
InitialStatusEager(d) ==
    IF d = NoTask THEN "queued"
    ELSE CASE tasks[d].status \in {"succeeded", "running"} -> "queued"
           [] tasks[d].status \in {"queued", "pending", "scheduled"} -> "pending"
           [] OTHER -> "absent"

\* The initial status by what GetTask says of the upstream; "absent" stands
\* for a 400.
InitialStatus(d) ==
    IF d = NoTask THEN "queued"
    ELSE CASE tasks[d].status = "succeeded" -> "queued"
           [] tasks[d].status \in {"queued", "running", "pending", "scheduled"}
                -> "pending"
           [] OTHER -> "absent"

\* createTask up to the INSERT: GetTask(dependsOn) picks the status.
CreateRead(h) ==
    \E t \in Tasks, d \in Tasks \cup {NoTask}, s \in Nameable :
        /\ NewID(t) /\ InitialStatus(d) # "absent"
        /\ Continue(h, "idle", "insert",
                    [task |-> t, dependsOn |-> d, session |-> s,
                     status |-> InitialStatus(d), ids |-> {}])
        /\ UNCHANGED <<tasks, late>>

\* Whether upstream d has finished (or is gone), so that nobody will resolve
\* its dependents any more.
Finished(d) == d # NoTask /\ tasks[d].status \in Terminal \cup {"purged"}

CreateInsert(h) ==
    LET r == req[h] IN
    /\ Respond(h, "insert")
    /\ \E stamp \in 0..MaxStamp :
        /\ Now(stamp)
        /\ tasks' = CreateTaskWithStatus(r.task, r.dependsOn, r.session,
                                         r.status, stamp)
    /\ late' = IF r.status = "pending" /\ Finished(r.dependsOn)
               THEN late \cup {r.task} ELSE late

-----------------------------------------------------------------------------
(* POST /api/batch: one INSERT per target, each without a dependency.  The *)
(* loop keeps nothing but the targets the client sent, so that a batch is  *)
(* a series of these steps, and one that fails is a shorter series.        *)
handleBatch(h) ==
    /\ hpc[h] = "idle"
    /\ \E t \in Tasks, s \in Nameable, stamp \in 0..MaxStamp :
        /\ NewID(t) /\ Now(stamp)
        /\ tasks' = CreateTaskWithStatus(t, NoTask, s, "queued", stamp)
    /\ UNCHANGED apiVars

-----------------------------------------------------------------------------
(* DELETE /api/tasks/{id}                                                  *)

OnTask(t) == [NoRequest EXCEPT !.task = t]

Delete(h) ==
    \E t \in InStatus(Stored) :
        /\ tasks' = CancelTask(t)
        /\ Continue(h, "idle",
                    IF t \in Cancelable THEN "blockselect"
                                        ELSE "cancelscheduled", OnTask(t))
        /\ UNCHANGED late

\* CancelTask matched no row: try the scheduled one, or answer 409.
DeleteScheduled(h) ==
    /\ Respond(h, "cancelscheduled")
    /\ tasks' = CancelScheduledTask(req[h].task)
    /\ UNCHANGED late

\* Faulty variant: the dependents are not looked at.
DeleteRespond(h) == Respond(h, "blockselect") /\ UNCHANGED <<tasks, late>>

DeleteBlockSelect(h) ==
    LET ids == dependentIDs(req[h].task) IN
    /\ IF ids = {} THEN Respond(h, "blockselect")
       ELSE Continue(h, "blockselect", "blockupdate", [req[h] EXCEPT !.ids = ids])
    /\ UNCHANGED <<tasks, late>>

\* The UPDATE, and one event per id the SELECT returned.
DeleteBlockUpdate(h) ==
    /\ Respond(h, "blockupdate")
    /\ tasks' = BlockDependents(req[h].task)
    /\ UNCHANGED late

-----------------------------------------------------------------------------
(* POST /api/tasks/{id}: one statement.                                    *)

Unblock(h) ==
    /\ hpc[h] = "idle"
    /\ \E t \in InStatus({"blocked"}) : tasks' = UnblockTask(t)
    /\ UNCHANGED apiVars

-----------------------------------------------------------------------------
HandlerStep(h) ==
    \/ CreateInsert(h) \/ DeleteScheduled(h)
    \/ DeleteBlockSelect(h) \/ DeleteBlockUpdate(h)

HandlerNext(h) ==
    \/ CreateScheduled(h) \/ CreateRead(h) \/ handleBatch(h) \/ Delete(h) \/ Unblock(h)
    \/ HandlerStep(h)

APICrash ==
    /\ hpc' = [h \in Handlers |-> "idle"]
    /\ req' = [h \in Handlers |-> NoRequest]
    /\ UNCHANGED late

=============================================================================
