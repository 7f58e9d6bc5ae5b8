-------------------------- MODULE AutomationEngine --------------------------
(***************************************************************************)
(* Automation rules (internal/automation/engine.go, internal/server/       *)
(* rules.go, internal/store/rule.go and ruleexecution.go): one polling     *)
(* goroutine for cron and git rules, webhook requests for http rules, and  *)
(* Fire, which all of them run statement by statement.  Rules are enabled; *)
(* a disabled one never gets past a check.                                 *)
(***************************************************************************)
EXTENDS Integers, Sequences

CONSTANTS CronRules, GitRules, HttpRules,   \* rule ids by kind
          Hooks,          \* concurrent webhook requests
          Engine,         \* the polling goroutine
          Interval,       \* the distance of two occurrences of a cron rule
          Never,          \* last_fired_at IS NULL
          NoRule, NoHead,
          MaxClock,       \* bound on the clock
          MaxCommits,     \* bound on the commits of the watched repository
          MaxCalls,       \* bound on the webhook calls
          MaxFaults       \* bound on failed statements and restarts together

Rules == CronRules \cup GitRules \cup HttpRules
Actors == Hooks \cup {Engine}

\* A rule has one kind.
ASSUME EngineAssumption ==
    /\ CronRules \cap GitRules = {} /\ (CronRules \cup GitRules) \cap HttpRules = {}
    /\ NoRule \notin Rules /\ Engine \notin Hooks
    /\ Never \notin Nat /\ NoHead \notin Nat
    /\ Interval \in Nat \ {0}
    /\ {MaxClock, MaxCommits, MaxCalls, MaxFaults} \subseteq Nat

VARIABLES now,
          head,       \* HEAD of the watched repository, counted in commits
          rules,      \* the rules table: "absent", "present" or "deleted" ids
          last,       \* its last_fired_at column
          tasks,      \* the tasks Fire created, per rule and in order
          executions, \* rule_executions: the tasks that are recorded
          fpc, firing,\* per actor: the next statement of Fire, and its rule and task
          phase, todo,\* the polling loop: which poll, and the rules it has left
          heads,      \* gitHeads
          calls, faults

table == <<rules, last, tasks, executions>>
memory == <<fpc, firing, phase, todo, heads>>
counters == <<calls, faults>>

\* History: the tasks whose firing MarkRuleFired has recorded.
VARIABLE marked

vars == <<now, head, table, memory, counters, marked>>

NoFiring == [rule |-> NoRule, task |-> 0, head |-> NoHead]

Forget ==
    /\ fpc' = [a \in Actors |-> "idle"] /\ firing' = [a \in Actors |-> NoFiring]
    /\ phase' = "idle" /\ todo' = {} /\ heads' = [r \in GitRules |-> NoHead]

Init ==
    /\ now = 0 /\ head = 0
    /\ rules = [r \in Rules |-> "absent"] /\ last = [r \in Rules |-> Never]
    /\ tasks = [r \in Rules |-> <<>>] /\ executions = {}
    /\ fpc = [a \in Actors |-> "idle"] /\ firing = [a \in Actors |-> NoFiring]
    /\ phase = "idle" /\ todo = {} /\ heads = [r \in GitRules |-> NoHead]
    /\ calls = 0 /\ faults = 0 /\ marked = {}

Present(S) == {r \in S : rules[r] = "present"}

Fails == faults < MaxFaults /\ faults' = faults + 1

-----------------------------------------------------------------------------
(* POST /api/rules and DELETE /api/rules/{id}                              *)

CreateRule(r) ==
    /\ rules[r] = "absent" /\ rules' = [rules EXCEPT ![r] = "present"]
    /\ UNCHANGED <<now, head, last, tasks, executions, memory, counters, marked>>

DeleteRule(r) ==
    /\ rules[r] = "present" /\ rules' = [rules EXCEPT ![r] = "deleted"]
    /\ UNCHANGED <<now, head, last, tasks, executions, memory, counters, marked>>

-----------------------------------------------------------------------------
(* Fire                                                                    *)

StartFire(a, r, h) ==
    /\ fpc' = [fpc EXCEPT ![a] = "get"]
    /\ firing' = [firing EXCEPT ![a] = [rule |-> r, task |-> 0, head |-> h]]

Goto(a, to) == fpc' = [fpc EXCEPT ![a] = to] /\ UNCHANGED firing

Return(a) == /\ fpc' = [fpc EXCEPT ![a] = "idle"]
             /\ firing' = [firing EXCEPT ![a] = NoFiring]

GetRule(a) ==
    /\ fpc[a] = "get"
    /\ \/ rules[firing[a].rule] = "present" /\ Goto(a, "create") /\ UNCHANGED faults
       \/ rules[firing[a].rule] # "present" /\ Return(a) /\ UNCHANGED faults
       \/ Fails /\ Return(a)
    /\ UNCHANGED <<now, head, table, phase, todo, heads, calls, marked>>

CreateTask(a) ==
    LET f == firing[a] IN
    /\ fpc[a] = "create"
    /\ \/ /\ tasks' = [tasks EXCEPT ![f.rule] = Append(@, [at |-> now, head |-> f.head])]
          /\ fpc' = [fpc EXCEPT ![a] = "record"]
          /\ firing' = [firing EXCEPT ![a].task = Len(tasks'[f.rule])]
          /\ UNCHANGED faults
       \/ Fails /\ Return(a) /\ UNCHANGED tasks
    /\ UNCHANGED <<now, head, rules, last, executions, phase, todo, heads, calls, marked>>

\* Its failure is not fatal.
RecordRuleExecution(a) ==
    /\ fpc[a] = "record" /\ Goto(a, "mark")
    /\ \/ executions' = executions \cup {<<firing[a].rule, firing[a].task>>} /\ UNCHANGED faults
       \/ Fails /\ UNCHANGED executions
    /\ UNCHANGED <<now, head, rules, last, tasks, phase, todo, heads, calls, marked>>

MarkRuleFired(a) ==
    LET r == firing[a].rule IN
    /\ fpc[a] = "mark" /\ Return(a)
    /\ \/ /\ last' = IF rules[r] = "present" THEN [last EXCEPT ![r] = now] ELSE last
          /\ marked' = marked \cup {<<r, firing[a].task>>}
          /\ UNCHANGED faults
       \/ Fails /\ UNCHANGED <<last, marked>>
    /\ UNCHANGED <<now, head, rules, tasks, executions, phase, todo, heads, calls>>

FireStep(a) == GetRule(a) \/ CreateTask(a) \/ RecordRuleExecution(a) \/ MarkRuleFired(a)

-----------------------------------------------------------------------------
(* Run: pollCron, then pollGit                                             *)

\* Faulty variants: a moment early; a rule that never fired is not due.
cronDueEarly(r) == last[r] = Never \/ now - last[r] + 1 >= Interval
cronDueFired(r) == last[r] # Never /\ now - last[r] >= Interval

cronDue(r) == last[r] = Never \/ now - last[r] >= Interval

\* The list, the clock and the due rules.  Only this goroutine marks cron
\* rules, so what it finds due stays due until it fires it.
PollCron ==
    /\ phase = "idle" /\ phase' = "cron"
    /\ \/ todo' = {r \in Present(CronRules) : cronDue(r)} /\ UNCHANGED faults
       \/ Fails /\ todo' = {}
    /\ UNCHANGED <<now, head, table, fpc, firing, heads, calls, marked>>

FireDue(r) ==
    /\ phase = "cron" /\ fpc[Engine] = "idle" /\ r \in todo
    /\ todo' = todo \ {r} /\ StartFire(Engine, r, NoHead)
    /\ UNCHANGED <<now, head, table, phase, heads, counters, marked>>

\* Faulty variant: repositories with a baseline are skipped.
PollGitOnce ==
    /\ phase = "cron" /\ fpc[Engine] = "idle" /\ todo = {} /\ phase' = "git"
    /\ todo' = {r \in Present(GitRules) : heads[r] = NoHead}
    /\ UNCHANGED <<now, head, table, fpc, firing, heads, counters, marked>>

PollGit ==
    /\ phase = "cron" /\ fpc[Engine] = "idle" /\ todo = {} /\ phase' = "git"
    /\ \/ todo' = Present(GitRules) /\ UNCHANGED faults
       \/ Fails /\ todo' = {}
    /\ UNCHANGED <<now, head, table, fpc, firing, heads, calls, marked>>

\* Faulty variant: the first sight of a repository counts as a change.
ChangedOrNew(r) == heads[r] # head

Changed(r) == heads[r] \notin {NoHead, head}

\* The first sight of a repository is the baseline; git itself may fail.
CheckHead(r) ==
    /\ phase = "git" /\ fpc[Engine] = "idle" /\ r \in todo
    /\ todo' = todo \ {r}
    /\ \/ /\ heads[r] = NoHead /\ heads' = [heads EXCEPT ![r] = head]
          /\ UNCHANGED <<fpc, firing, faults>>
       \/ heads[r] = head /\ UNCHANGED <<heads, fpc, firing, faults>>
       \/ /\ Changed(r) /\ heads' = [heads EXCEPT ![r] = head]
          /\ StartFire(Engine, r, head) /\ UNCHANGED faults
       \/ Fails /\ UNCHANGED <<heads, fpc, firing>>
    /\ UNCHANGED <<now, head, table, phase, calls, marked>>

EndPoll ==
    /\ phase = "git" /\ fpc[Engine] = "idle" /\ todo = {} /\ phase' = "idle"
    /\ UNCHANGED <<now, head, table, fpc, firing, todo, heads, counters, marked>>

\* FireKind: the first rule that matches the target, whichever that is.
Webhook(h, r) ==
    /\ fpc[h] = "idle" /\ calls < MaxCalls /\ r \in Present(HttpRules)
    /\ calls' = calls + 1 /\ StartFire(h, r, NoHead)
    /\ UNCHANGED <<now, head, table, phase, todo, heads, faults, marked>>

-----------------------------------------------------------------------------
Tick ==
    /\ now < MaxClock /\ now' = now + 1
    /\ UNCHANGED <<head, table, memory, counters, marked>>

Commit ==
    /\ head < MaxCommits /\ head' = head + 1
    /\ UNCHANGED <<now, table, memory, counters, marked>>

Restart ==
    /\ faults < MaxFaults /\ faults' = faults + 1 /\ Forget
    /\ UNCHANGED <<now, head, table, calls, marked>>

EngineNext ==
    \/ PollCron \/ PollGit \/ EndPoll \/ FireStep(Engine)
    \/ \E r \in Rules : FireDue(r) \/ CheckHead(r)

HookStep(h) == FireStep(h)

Next ==
    \/ EngineNext
    \/ \E h \in Hooks : HookStep(h) \/ \E r \in HttpRules : Webhook(h, r)
    \/ \E r \in Rules : CreateRule(r) \/ DeleteRule(r)
    \/ Tick \/ Commit \/ Restart

Spec == Init /\ [][Next]_vars

\* The ticker keeps firing and goroutines run.
FairSpec ==
    /\ Spec /\ WF_vars(EngineNext)
    /\ \A h \in Hooks : WF_vars(HookStep(h))

-----------------------------------------------------------------------------
(* A cron rule whose firing was recorded does not fire again before its    *)
(* next occurrence, whatever failed, was deleted or restarted meanwhile.   *)
CronSpacing ==
    \A r \in CronRules : \A i, j \in DOMAIN tasks[r] :
        i < j /\ <<r, i>> \in marked => tasks[r][j].at - tasks[r][i].at >= Interval

(* A git rule fires at most once for a commit, also across restarts: the   *)
(* head it finds first is a baseline (pollGit).                            *)
GitOnce ==
    \A r \in GitRules : \A i, j \in DOMAIN tasks[r] :
        i < j => tasks[r][i].head < tasks[r][j].head

(* A due cron rule is fired and marked in the end, or deleted: a failed    *)
(* statement or a restart only delays it to the next poll.                 *)
Overdue(r) == last[r] = Never \/ now - last[r] >= Interval

CronFires ==
    \A r \in CronRules :
        (rules[r] = "present" /\ Overdue(r)) ~> (~Overdue(r) \/ rules[r] = "deleted")

(* A commit after the baseline gives a task for it or for a later one,     *)
(* unless the rule is deleted, a statement fails or the process restarts,  *)
(* which forgets the baseline (pollGit).                                   *)
GitNotified ==
    \A r \in GitRules, c \in 1..MaxCommits, f \in 0..MaxFaults :
        (rules[r] = "present" /\ heads[r] \in 0..(c - 1) /\ head >= c /\ faults = f)
            ~> (\/ \E i \in DOMAIN tasks[r] : tasks[r][i].head >= c
                \/ rules[r] = "deleted" \/ faults # f)

-----------------------------------------------------------------------------
(* The inductive invariant behind CronSpacing and GitOnce. *)

Task == [at : Nat, head : Nat \cup {NoHead}]

Firing == [rule : Rules \cup {NoRule}, task : Nat, head : Nat \cup {NoHead}]

\* Every variable stays in its type, and exactly the actors inside Fire have
\* a rule.
TypeOK ==
    /\ now \in Nat /\ head \in Nat
    /\ rules \in [Rules -> {"absent", "present", "deleted"}]
    /\ last \in [Rules -> Nat \cup {Never}]
    /\ tasks \in [Rules -> Seq(Task)]
    /\ fpc \in [Actors -> {"idle", "get", "create", "record", "mark"}]
    /\ firing \in [Actors -> Firing]
    /\ \A a \in Actors : fpc[a] = "idle" <=> firing[a].rule = NoRule
    /\ phase \in {"idle", "cron", "git"} /\ todo \subseteq Rules
    /\ heads \in [GitRules -> Nat \cup {NoHead}]
    /\ marked \subseteq Rules \X Nat

\* Rule r is between the start of its firing by the engine and its task.
Starting(r) == fpc[Engine] \in {"get", "create"} /\ firing[Engine].rule = r

\* Webhooks fire http rules only, the polling goroutine those of its phase,
\* each of them once; a rule that is listed or fired has been created.
Division ==
    /\ \A r \in todo : rules[r] # "absent"
    /\ \A a \in Actors : fpc[a] # "idle" => rules[firing[a].rule] # "absent"
    /\ \A h \in Hooks : fpc[h] # "idle" => firing[h].rule \in HttpRules
    /\ phase = "idle" => todo = {} /\ fpc[Engine] = "idle"
    /\ phase = "cron" => todo \subseteq CronRules
    /\ phase = "git" => todo \subseteq GitRules
    /\ fpc[Engine] # "idle" =>
        /\ firing[Engine].rule \in IF phase = "cron" THEN CronRules ELSE GitRules
        /\ firing[Engine].rule \notin todo

\* Nothing is dated later than now; a recorded task exists.
Past ==
    /\ \A r \in Rules : /\ last[r] # Never => last[r] <= now
                        /\ \A i \in DOMAIN tasks[r] : tasks[r][i].at <= now
    /\ \A a \in Actors : fpc[a] \in {"record", "mark"} =>
        firing[a].task \in DOMAIN tasks[firing[a].rule]
    /\ \A m \in marked : m[2] \in DOMAIN tasks[m[1]]

\* The task of a cron rule whose firing is being recorded is its newest one.
NewestRecorded ==
    fpc[Engine] \in {"record", "mark"} /\ firing[Engine].rule \in CronRules =>
        \A i \in DOMAIN tasks[firing[Engine].rule] : i <= firing[Engine].task

\* A cron rule that waits or starts to fire is due.
StillDue ==
    \A r \in CronRules : (phase = "cron" /\ r \in todo) \/ Starting(r) => cronDue(r)

\* A recorded firing is in last_fired_at, or came after its rule was deleted,
\* which then does not fire again.
MarkCounts ==
    \A r \in CronRules : \A i \in DOMAIN tasks[r] : <<r, i>> \in marked =>
        \/ last[r] # Never /\ tasks[r][i].at <= last[r]
        \/ rules[r] = "deleted" /\ ~(fpc[Engine] = "create" /\ firing[Engine].rule = r)

\* The baseline of a repository is not behind the commits it was fired for,
\* and one that is about to be fired for is ahead of them.
BaselineAhead ==
    \A r \in GitRules :
        /\ heads[r] # NoHead => heads[r] <= head
        /\ \A i \in DOMAIN tasks[r] :
            /\ tasks[r][i].head \in Nat /\ tasks[r][i].head <= head
            /\ heads[r] # NoHead => tasks[r][i].head <= heads[r]
            /\ Starting(r) => tasks[r][i].head < firing[Engine].head
        /\ Starting(r) => heads[r] # NoHead /\ firing[Engine].head = heads[r]

IInv ==
    /\ TypeOK /\ Division /\ Past /\ NewestRecorded /\ StillDue /\ MarkCounts /\ BaselineAhead
    /\ CronSpacing /\ GitOnce

=============================================================================
