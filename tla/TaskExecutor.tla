---------------------------- MODULE TaskExecutor ----------------------------
(***************************************************************************)
(* The worker pool (internal/tasks/executor.go).  A worker claims a task,  *)
(* serializes on the gate of an explicit session, drives the upstream      *)
(* session over HTTP and writes the outcome.  Every store statement and    *)
(* every upstream call is a step of its own, so other workers, HTTP        *)
(* handlers and a crash come in between.                                   *)
(*                                                                         *)
(* Upstream calls (createSession, the prompt POST, isSessionBusy,          *)
(* lastAssistantText) and the LLM decision are external: each answers in   *)
(* any of the ways the code tells apart.  Broadcasts go out in the step    *)
(* that precedes them; the advisory summary goroutines are left out.       *)
(* The gate is the lock of module SessionGate.                             *)
(***************************************************************************)
EXTENDS TaskStore

CONSTANTS Workers, NoWorker,
          MaxRetries,     \* Executor.maxRetries
          LLMEnabled,     \* an orchestration LLM is configured
          Panics          \* whether execute may panic

ASSUME ExecutorAssumption ==
    /\ NoWorker \notin Workers
    /\ MaxRetries \in Nat
    /\ LLMEnabled \in BOOLEAN
    /\ Panics \in BOOLEAN

VARIABLES phase,  \* "recovering" until Run has reset stale rows, then "up"
          wpc,    \* where each worker is
          job,    \* the worker's claimed task and locals of execute
          gate    \* who holds the gate of each session

execVars == <<phase, wpc, job, gate>>

-----------------------------------------------------------------------------
PC == {"idle", "gate", "check", "create", "record", "prompt", "wait", "poll",
       "collect", "complete", "promote", "fail", "llmretry", "failtask",
       "blockselect", "blockupdate"}

\* The task snapshot ClaimNextTask returned, the session in use, whether the
\* task came with it (and so runs under its gate), and the ids the SELECT of
\* BlockDependents returned.
Job == [task : Tasks \cup {NoTask}, session : Sessions \cup {NoSession},
        explicit : BOOLEAN, attempts : Nat, llmRetry : BOOLEAN,
        ids : SUBSET Tasks]

NoJob == [task |-> NoTask, session |-> NoSession, explicit |-> FALSE,
          attempts |-> 0, llmRetry |-> FALSE, ids |-> {}]

ExecInit ==
    /\ phase = "recovering"
    /\ wpc = [w \in Workers |-> "idle"]
    /\ job = [w \in Workers |-> NoJob]
    /\ gate = [s \in Sessions |-> NoWorker]

Goto(w, from, to) == wpc[w] = from /\ wpc' = [wpc EXCEPT ![w] = to]

\* Faulty variant: the gate stays locked.
ReturnKeepsGate(w, from) ==
    /\ Goto(w, from, "idle")
    /\ job' = [job EXCEPT ![w] = NoJob]
    /\ UNCHANGED <<phase, gate>>

\* execute returns: the deferred unlock and release run, and the worker loops.
Return(w, from) ==
    /\ Goto(w, from, "idle")
    /\ job' = [job EXCEPT ![w] = NoJob]
    /\ gate' = [s \in Sessions |-> IF gate[s] = w THEN NoWorker ELSE gate[s]]
    /\ UNCHANGED phase

\* A step inside execute that keeps its locals and its gate.
Step(w, from, to) == Goto(w, from, to) /\ UNCHANGED <<phase, job, gate>>

-----------------------------------------------------------------------------
(* Run and worker.                                                         *)

\* Run recovers the rows a previous process left running, then starts the
\* workers.
Recover ==
    /\ phase = "recovering"
    /\ phase' = "up"
    /\ tasks' = RecoverStaleRunning
    /\ UNCHANGED <<wpc, job, gate>>

Claim(w) ==
    /\ phase = "up"
    /\ \E t \in Tasks :
        /\ Claimable(t)
        /\ tasks' = ClaimNextTask(t)
        /\ job' = [job EXCEPT ![w] =
              [task |-> t, session |-> tasks[t].session,
               explicit |-> tasks[t].session # NoSession,
               attempts |-> tasks[t].attempts + 1,
               llmRetry |-> tasks[t].llmRetry, ids |-> {}]]
        /\ Goto(w, "idle",
                IF tasks[t].session = NoSession THEN "check" ELSE "gate")
    /\ UNCHANGED <<phase, gate>>

\* Faulty variant: the gate is taken from its holder.
LockUnchecked(w) ==
    /\ Goto(w, "gate", "prompt")
    /\ gate' = [gate EXCEPT ![job[w].session] = w]
    /\ UNCHANGED <<tasks, phase, job>>

\* hold and g.mu.Lock.  An explicit session skips straight to the prompt.
Lock(w) ==
    /\ Goto(w, "gate", "prompt")
    /\ gate[job[w].session] = NoWorker
    /\ gate' = [gate EXCEPT ![job[w].session] = w]
    /\ UNCHANGED <<tasks, phase, job>>

-----------------------------------------------------------------------------
(* Step 1 of execute: a session to run in.                                 *)

CheckCanceled(w) ==
    /\ Step(w, "check", IF IsTaskCanceled(job[w].task) THEN "blockselect"
                                                      ELSE "create")
    /\ UNCHANGED tasks

\* The upstream invents an id no row has seen.
FreshSessions == Sessions \ (UserSessions \cup {tasks[t].session : t \in Tasks}
                             \cup {job[w].session : w \in Workers})

CreateSession(w) ==
    /\ \E s \in FreshSessions :
        /\ Goto(w, "create", "record")
        /\ job' = [job EXCEPT ![w].session = s]
    /\ UNCHANGED <<tasks, phase, gate>>

CreateSessionFails(w) == Step(w, "create", "fail") /\ UNCHANGED tasks

RecordSession(w) ==
    /\ Step(w, "record", "prompt")
    /\ tasks' = SetTaskSession(job[w].task, job[w].session)

-----------------------------------------------------------------------------
(* Step 2: promptSession.                                                  *)

PromptAdmitted(w) ==
    /\ Step(w, "prompt", "wait")
    /\ tasks' = UpdateTaskProgress(job[w].task, FALSE)

PromptFails(w) == Step(w, "prompt", "fail") /\ UNCHANGED tasks

\* Head of the polling loop, before the deadline.
WaitCanceled(w) ==
    /\ Step(w, "wait", IF IsTaskCanceled(job[w].task) THEN "blockselect"
                                                     ELSE "poll")
    /\ UNCHANGED tasks

\* The deadline ends the loop without another look at the row.
Deadline(w) == Step(w, "wait", "collect") /\ UNCHANGED tasks

SessionBusy(w) ==
    /\ Step(w, "poll", "wait")
    /\ tasks' = UpdateTaskProgress(job[w].task, FALSE)

SessionIdle(w) == Step(w, "poll", "collect") /\ UNCHANGED tasks

PollFails(w) == Step(w, "poll", "fail") /\ UNCHANGED tasks

LastAssistantText(w) == Step(w, "collect", "complete") /\ UNCHANGED tasks

CollectFails(w) == Step(w, "collect", "fail") /\ UNCHANGED tasks

-----------------------------------------------------------------------------
(* The outcome.                                                            *)

Complete(w) ==
    /\ Step(w, "complete", "promote")
    /\ tasks' = CompleteTask(job[w].task)

\* resolveDependents(succeed) and its events.
Promote(w) ==
    /\ Return(w, "promote")
    /\ tasks' = PromotePendingDependents(job[w].task)

Exhausted(w) == job[w].attempts > MaxRetries

\* RetryTask fails unless the row is failed; the task is then failed for good.
FailWithRetry(w) ==
    /\ ~Exhausted(w)
    /\ tasks' = RetryTask(job[w].task)
    /\ IF job[w].task \in Retriable THEN Return(w, "fail")
                                    ELSE Step(w, "fail", "failtask")

\* Retries are exhausted: one consultation of the LLM, unless the snapshot
\* says it already granted one.
ConsultsLLM(w) == LLMEnabled /\ ~job[w].llmRetry

DecideRetry(w) ==
    /\ Exhausted(w) /\ ConsultsLLM(w)
    /\ Step(w, "fail", "llmretry")
    /\ tasks' = RetryTask(job[w].task)      \* its error is ignored

NoteLLMRetry(w) ==
    /\ Return(w, "llmretry")
    /\ tasks' = UpdateTaskProgress(job[w].task, TRUE)

Escalate(w) ==
    /\ Exhausted(w)
    /\ Step(w, "fail", "failtask")
    /\ UNCHANGED tasks

Fail(w) ==
    /\ Step(w, "failtask", "blockselect")
    /\ tasks' = FailTask(job[w].task)

\* Faulty variant: the ids are not kept for the events.
BlockSelectForgets(w) ==
    /\ UNCHANGED tasks
    /\ IF dependentIDs(job[w].task) = {} THEN Return(w, "blockselect")
       ELSE Step(w, "blockselect", "blockupdate")

\* resolveDependents(~succeed): a SELECT, an early return when it is empty,
\* and an UPDATE.  The events go to the ids the SELECT returned.
BlockSelect(w) ==
    /\ UNCHANGED tasks
    /\ IF dependentIDs(job[w].task) = {} THEN Return(w, "blockselect")
       ELSE /\ Goto(w, "blockselect", "blockupdate")
            /\ job' = [job EXCEPT ![w].ids = dependentIDs(job[w].task)]
            /\ UNCHANGED <<phase, gate>>

BlockUpdate(w) ==
    /\ Return(w, "blockupdate")
    /\ tasks' = BlockDependents(job[w].task)

\* Faulty variant: the panic is swallowed.
PanicSwallowed(w) ==
    /\ Panics
    /\ \E pc \in {"create", "prompt", "poll", "collect"} : Return(w, pc)
    /\ UNCHANGED tasks

\* recover() in runClaimed: FailTask and nothing else.
Panic(w) ==
    /\ Panics
    /\ \E pc \in {"create", "prompt", "poll", "collect"} : Return(w, pc)
    /\ tasks' = FailTask(job[w].task)

-----------------------------------------------------------------------------
WorkerStep(w) ==
    \/ CheckCanceled(w) \/ CreateSession(w) \/ CreateSessionFails(w)
    \/ RecordSession(w) \/ PromptAdmitted(w) \/ PromptFails(w)
    \/ WaitCanceled(w) \/ SessionBusy(w) \/ SessionIdle(w) \/ PollFails(w)
    \/ LastAssistantText(w) \/ CollectFails(w)
    \/ Complete(w) \/ Promote(w) \/ FailWithRetry(w) \/ DecideRetry(w)
    \/ NoteLLMRetry(w) \/ Escalate(w) \/ Fail(w)
    \/ BlockSelect(w) \/ BlockUpdate(w) \/ Panic(w)

WorkerNext(w) == Claim(w) \/ Lock(w) \/ Deadline(w) \/ WorkerStep(w)

\* A new process: the goroutines, their locals and the gates are gone.
ExecCrash ==
    /\ phase' = "recovering"
    /\ wpc' = [w \in Workers |-> "idle"]
    /\ job' = [w \in Workers |-> NoJob]
    /\ gate' = [s \in Sessions |-> NoWorker]

=============================================================================
