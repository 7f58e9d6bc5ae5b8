----------------------------- MODULE TaskSystem -----------------------------
(***************************************************************************)
(* The task queue as a whole: the worker pool, the HTTP handlers, the      *)
(* promotion of due one-shot tasks (internal/server/scheduler.go), the     *)
(* purge of finished rows (internal/tasks/janitor.go and DELETE            *)
(* /api/tasks) and process crashes, over one tasks table.                  *)
(***************************************************************************)
EXTENDS TaskExecutor, TaskAPI

CONSTANT MaxRestarts    \* bound on the crashes of one behaviour

ASSUME SystemAssumption == MaxRestarts \in Nat

VARIABLE restarts       \* how often the process has crashed

vars == <<tasks, phase, wpc, job, gate, hpc, req, late, restarts>>

Init == StoreInit /\ ExecInit /\ APIInit /\ restarts = 0

\* Run's recovery and the workers.
ExecutorNext ==
    /\ Recover \/ \E w \in Workers : WorkerNext(w)
    /\ UNCHANGED <<hpc, req, late, restarts>>

ServerNext ==
    /\ \E h \in Handlers : HandlerNext(h)
    /\ UNCHANGED <<phase, wpc, job, gate, restarts>>

\* pollScheduled: the row is due and still scheduled.
Poll ==
    /\ \E t \in InStatus({"scheduled"}) : tasks' = PromoteScheduledTask(t)
    /\ UNCHANGED <<phase, wpc, job, gate, hpc, req, late, restarts>>

Purge ==
    /\ \E gone \in SUBSET Purgeable : gone # {} /\ tasks' = PurgeFinishedTasks(gone)
    /\ UNCHANGED <<phase, wpc, job, gate, hpc, req, late, restarts>>

\* The process dies between any two statements and is started again.
Crash ==
    /\ restarts < MaxRestarts
    /\ restarts' = restarts + 1
    /\ ExecCrash /\ APICrash
    /\ UNCHANGED tasks

Next == ExecutorNext \/ ServerNext \/ Poll \/ Purge \/ Crash

Spec == Init /\ [][Next]_vars

-----------------------------------------------------------------------------
(***************************************************************************)
(* Fairness: the runtime schedules every runnable goroutine, so a worker   *)
(* or a request with a next step takes it, and a gate that stays free is   *)
(* taken.  The clock brings a polling loop to its deadline however often   *)
(* the session answers busy in between, so Deadline is strongly fair.      *)
(* Clients, the purge and crashes are not fair; one-shot tasks come due.   *)
(***************************************************************************)
Framed(A) == A /\ UNCHANGED <<hpc, req, late, restarts>>

Fairness ==
    /\ WF_vars(Framed(Recover))
    /\ WF_vars(Poll)
    /\ \A w \in Workers :
        /\ WF_vars(Framed(Claim(w) \/ Lock(w) \/ WorkerStep(w)))
        /\ SF_vars(Framed(Deadline(w)))
    /\ \A h \in Handlers :
        WF_vars(HandlerStep(h) /\ UNCHANGED <<phase, wpc, job, gate, restarts>>)

FairSpec == Spec /\ Fairness

-----------------------------------------------------------------------------
(* Every variable stays in its type, and a request under way names a task. *)
TypeOK ==
    /\ tasks \in [Tasks -> Row]
    /\ phase \in {"recovering", "up"}
    /\ wpc \in [Workers -> PC]
    /\ job \in [Workers -> Job]
    /\ gate \in [Sessions -> Workers \cup {NoWorker}]
    /\ hpc \in [Handlers -> HPC]
    /\ req \in [Handlers -> Request]
    /\ \A h \in Handlers : hpc[h] # "idle" => req[h].task \in Tasks
    /\ late \in SUBSET Tasks
    /\ restarts \in 0..MaxRestarts

Busy(w) == wpc[w] # "idle"

(* No two workers ever execute the same task, whatever is cancelled,       *)
(* unblocked, purged or recovered meanwhile: ClaimNextTask hands out a row *)
(* once, and no other statement re-queues a row a worker still executes.   *)
ExclusiveExecution ==
    \A v, w \in Workers : Busy(v) /\ Busy(w) /\ job[v].task = job[w].task => v = w

(* Until a worker writes its outcome, the row it executes is running, or   *)
(* was cancelled under it, or was cancelled and then purged.  RetryTask,   *)
(* which only takes a failed row, can therefore never re-queue it.         *)
Undecided == PC \ {"idle", "promote", "blockselect", "blockupdate"}

OwnRow ==
    \A w \in Workers :
        wpc[w] \in Undecided =>
            tasks[job[w].task].status \in {"running", "canceled", "purged"}

(* A task is claimed at most once per process lifetime: only a restart     *)
(* re-queues a task that has run.                                          *)
AttemptsBound == \A t \in Tasks : tasks[t].attempts <= restarts + 1

(* While the process is up, a running row has a worker: no task is lost in *)
(* running.  The one exception is a row whose extra attempt the LLM has    *)
(* granted: RetryTask refused it, and it waits for a restart.              *)
Abandoned(t) == LLMEnabled /\ tasks[t].llmRetry

RunningHasWorker ==
    phase = "up" =>
        \A t \in InStatus({"running"}) :
            Abandoned(t) \/ \E w \in Workers : Busy(w) /\ job[w].task = t

(* PurgeFinishedTasks keeps the upstream of every waiting task, except of  *)
(* one that createTask inserts after the upstream it had read settled.     *)
UpstreamKept ==
    \A d \in InStatus({"pending", "blocked"}) :
        /\ tasks[d].dependsOn # NoTask
        /\ tasks[tasks[d].dependsOn].status = "purged"
        => d \in late

(* Two workers whose tasks came with the same session id are never past    *)
(* that session's gate together, so neither reads back the other's answer  *)
(* (runClaimed).                                                           *)
PastGate(w) == job[w].explicit /\ wpc[w] \notin {"idle", "gate"}

GateExclusion ==
    \A v, w \in Workers :
        PastGate(v) /\ PastGate(w) /\ job[v].session = job[w].session => v = w

(* The parts of the inductive invariant that are not properties of their   *)
(* own: who executes and what, which ids are reserved, how often a row in  *)
(* a given status can have been claimed, and who holds a gate.             *)
WorkerShape ==
    \A w \in Workers :
        Busy(w) => /\ phase = "up"
                   /\ job[w].task \in Tasks
                   /\ wpc[w] = "gate" => job[w].explicit
                   /\ wpc[w] = "llmretry" => LLMEnabled
                   /\ job[w].explicit => /\ job[w].session \in Sessions
                                         /\ wpc[w] \notin {"check", "create", "record"}

RequestShape ==
    \A h \in Handlers :
        hpc[h] = "insert" =>
            /\ tasks[req[h].task].status = "absent"
            /\ req[h].status \in {"queued", "pending"}
            /\ \A g \in Handlers : hpc[g] = "insert" /\ req[g].task = req[h].task => g = h

DecidedRow ==
    \A w \in Workers :
        Busy(w) /\ wpc[w] \notin Undecided =>
            tasks[job[w].task].status \in Terminal \cup {"purged"}

Claims ==
    \A t \in Tasks :
        /\ tasks[t].status \in {"absent", "pending", "blocked", "scheduled"} =>
                tasks[t].attempts = 0
        /\ tasks[t].status = "queued" => tasks[t].attempts <= restarts
        /\ tasks[t].status = "running" /\ phase = "recovering" =>
                tasks[t].attempts <= restarts

GateHeld == \A w \in Workers : PastGate(w) => gate[job[w].session] = w

(* The inductive invariant behind the theorems of TaskSystemProofs. *)
IInv ==
    /\ TypeOK
    /\ WorkerShape /\ RequestShape
    /\ ExclusiveExecution /\ OwnRow /\ DecidedRow
    /\ Claims /\ AttemptsBound
    /\ GateHeld
    /\ RunningHasWorker
    /\ UpstreamKept

(* A worker or a request is about to release or block the waiters of u. *)
Resolving(u) ==
    \/ \E w \in Workers : /\ job[w].task = u
                          /\ wpc[w] \in {"promote", "blockselect", "blockupdate"}
    \/ \E h \in Handlers : /\ req[h].task = u
                           /\ hpc[h] \in {"blockselect", "blockupdate"}

(* d waits for an upstream that has finished and that nobody resolves. *)
Orphan(d) ==
    /\ tasks[d].status = "pending"
    /\ Finished(tasks[d].dependsOn)
    /\ ~Resolving(tasks[d].dependsOn)

(* Without crashes, panics and scheduled upstreams, the only task left     *)
(* waiting for a finished upstream is one createTask inserted after the    *)
(* upstream it had read as unfinished settled: complete, fail and cancel   *)
(* all reach every waiter that was there before them.                      *)
OrphanOnlyByRace ==
    restarts = 0 /\ ~Panics /\ Schedulable = {} =>
        \A d \in Tasks : Orphan(d) => d \in late

(* What the resolution of waiters rests on: a worker that promotes knows   *)
(* its task succeeded, a request that inserts a queued dependent has read  *)
(* so of the upstream, and a request that blocks has cancelled its task.   *)
(* The ids a SELECT returned are all the waiters there are, but late ones. *)
ResolversKnow ==
    /\ \A w \in Workers :
        /\ wpc[w] = "promote" => tasks[job[w].task].status \in {"succeeded", "purged"}
        /\ wpc[w] = "blockupdate" => dependentIDs(job[w].task) \subseteq job[w].ids \cup late
    /\ \A h \in Handlers :
        /\ hpc[h] = "insert" /\ req[h].status = "queued" /\ req[h].dependsOn # NoTask =>
                tasks[req[h].dependsOn].status \in {"succeeded", "purged"}
        /\ hpc[h] \in {"blockselect", "blockupdate"} => Finished(req[h].task)
        /\ hpc[h] = "blockupdate" => dependentIDs(req[h].task) \subseteq req[h].ids \cup late

NoneScheduled == Schedulable = {} => InStatus({"scheduled"}) = {}

(* The inductive invariant of the resolution, on top of IInv. *)
RInv == ResolversKnow /\ NoneScheduled /\ OrphanOnlyByRace

(* An outcome is final: no statement of a late worker, of a handler or of  *)
(* recovery turns a succeeded or failed row into anything but a deleted    *)
(* one.                                                                    *)
OutcomeFinal ==
    [][\A t \in Tasks :
        tasks[t].status \in {"succeeded", "failed"} =>
            tasks'[t].status \in {tasks[t].status, "purged"}]_vars

(* A task with a dependency enters the queue only after its upstream       *)
(* succeeded, or because a client unblocked it by hand.  (The upstream's   *)
(* row may have been purged since.)                                        *)
DependencyRespected ==
    [][\A t \in Tasks :
        /\ tasks[t].status \in {"absent", "pending", "blocked"}
        /\ tasks'[t].status = "queued"
        /\ tasks'[t].dependsOn # NoTask
        => \/ tasks[tasks'[t].dependsOn].status \in {"succeeded", "purged"}
           \/ \E h \in Handlers : Unblock(h)]_vars

(* Every dependent that becomes blocked is announced by an event: the      *)
(* events go to the ids the SELECT of BlockDependents returned, and the    *)
(* UPDATE blocks no other row, except one that createTask inserted late.   *)
BlockedAnnounced ==
    [][\A d \in Tasks :
        tasks[d].status # "blocked" /\ tasks'[d].status = "blocked" =>
            \/ \E w \in Workers : wpc[w] = "blockupdate" /\ d \in job[w].ids
            \/ \E h \in Handlers : hpc[h] = "blockupdate" /\ d \in req[h].ids
            \/ d \in late]_vars

(* The queue implements the abstract life cycle: whatever interleaving,    *)
(* crash or late write, a status only moves along the abstract edges.      *)
Lifecycle == INSTANCE TaskLifecycle WITH
                 status <- [t \in Tasks |-> tasks[t].status]

ImplementsLifecycle == Lifecycle!Spec

-----------------------------------------------------------------------------
(* Liveness, under FairSpec.                                               *)

(* A queued or running task is settled in the end (or deleted after it     *)
(* was): no worker hangs on a gate, no row is lost by a restart.           *)
EventuallySettled ==
    \A t \in Tasks :
        tasks[t].status \in {"queued", "running"} ~>
            tasks[t].status \in Terminal \cup {"purged"}

(* Waiters of a finished task do not wait for ever, except the ones that   *)
(* createTask inserted too late and the ones whose process died before it  *)
(* resolved them.                                                          *)
WaitersResolved ==
    \A d \in Tasks :
        (/\ tasks[d].status = "pending" /\ Finished(tasks[d].dependsOn)
         /\ d \notin late /\ restarts = 0)
            ~> (tasks[d].status # "pending" \/ restarts > 0)

-----------------------------------------------------------------------------
(***************************************************************************)
(* What the documentation says and the code does not keep: a run expects   *)
(* its violation.                                                          *)
(***************************************************************************)

(* docs/API.md: failed means that the retries are used up.  The executor   *)
(* retries a row that is still running, which RetryTask refuses.           *)
FailedAfterRetries ==
    \A t \in Tasks : tasks[t].status = "failed" => tasks[t].attempts > MaxRetries

=============================================================================
