----------------------- MODULE AutomationEngineProofs -----------------------
(* Theorems about AutomationEngine for any rules, webhooks and bounds. *)
EXTENDS AutomationEngine, TLAPS

USE EngineAssumption DEF Rules, Actors

(* The initial state satisfies the invariant. *)
LEMMA InitInv == Init => IInv
BY DEF Init, IInv, TypeOK, Task, Firing, NoFiring, Division, Past, NewestRecorded,
    StillDue, MarkCounts, BaselineAhead, CronSpacing, GitOnce, Starting

(* POST and DELETE of a rule keep the invariant. *)
LEMMA RuleStep ==
    ASSUME IInv, NEW r \in Rules, CreateRule(r) \/ DeleteRule(r)
    PROVE  IInv'
<1> USE DEF CreateRule, DeleteRule, memory, counters
<1>1. TypeOK'  BY DEF IInv, TypeOK
<1>2. Division' /\ Past'  BY DEF IInv, TypeOK, Firing, Division, Past
<1>3. StillDue'  BY DEF IInv, StillDue, Starting, cronDue
<1>4. MarkCounts'  BY DEF IInv, TypeOK, MarkCounts
<1>5. BaselineAhead'  BY DEF IInv, BaselineAhead, Starting
<1>6. NewestRecorded' /\ CronSpacing' /\ GitOnce'
  BY DEF IInv, TypeOK, NewestRecorded, CronSpacing, GitOnce
<1> QED  BY <1>1, <1>2, <1>3, <1>4, <1>5, <1>6 DEF IInv

(* So does the look at the rule, after which a deleted one is not fired. *)
LEMMA GetRuleStep ==
    ASSUME IInv, NEW a \in Actors, GetRule(a)
    PROVE  IInv'
<1> USE DEF GetRule, Goto, Return, Fails, table
<1>0. NoFiring \in Firing /\ NoFiring.rule = NoRule
  BY DEF NoFiring, Firing
<1>1. TypeOK'
  <2>1. firing' \in [Actors -> Firing]
    BY <1>0 DEF IInv, TypeOK
  <2>2. fpc' \in [Actors -> {"idle", "get", "create", "record", "mark"}]
    BY DEF IInv, TypeOK
  <2>3. \A x \in Actors : fpc'[x] = "idle" <=> firing'[x].rule = NoRule
    BY <1>0 DEF IInv, TypeOK
  <2> QED  BY <2>1, <2>2, <2>3 DEF IInv, TypeOK
<1>2. Division'  BY <1>0 DEF IInv, TypeOK, Division
<1>3. Past'  BY <1>0 DEF IInv, TypeOK, Past
<1>4. StillDue'  BY <1>0 DEF IInv, TypeOK, StillDue, Starting, cronDue
<1>5. MarkCounts'  BY <1>0 DEF IInv, TypeOK, MarkCounts
<1>6. BaselineAhead'  BY <1>0 DEF IInv, TypeOK, BaselineAhead, Starting
<1>7. NewestRecorded' /\ CronSpacing' /\ GitOnce'
  BY DEF IInv, TypeOK, NewestRecorded, CronSpacing, GitOnce
<1> QED  BY <1>1, <1>2, <1>3, <1>4, <1>5, <1>6, <1>7 DEF IInv

(* The history of the executions is not part of what the engine decides on. *)
LEMMA RecordExecutionStep ==
    ASSUME IInv, NEW a \in Actors, RecordRuleExecution(a)
    PROVE  IInv'
<1> USE DEF RecordRuleExecution, Goto, Fails
<1>1. TypeOK'  BY DEF IInv, TypeOK
<1>2. Division'  BY DEF IInv, TypeOK, Division
<1>3. Past'  BY DEF IInv, TypeOK, Past
<1>4. StillDue'  BY DEF IInv, TypeOK, StillDue, Starting, cronDue
<1>5. MarkCounts'  BY DEF IInv, TypeOK, MarkCounts
<1>6. BaselineAhead'  BY DEF IInv, TypeOK, BaselineAhead, Starting
<1>7. NewestRecorded' /\ CronSpacing' /\ GitOnce'
  BY DEF IInv, TypeOK, NewestRecorded, CronSpacing, GitOnce
<1> QED  BY <1>1, <1>2, <1>3, <1>4, <1>5, <1>6, <1>7 DEF IInv

(* The polls: a cron rule is listed only when it is due, and a git rule is   *)
(* fired only for a head beyond its baseline, which moves with it.           *)
LEMMA PollStep ==
    ASSUME IInv,
           \/ PollCron \/ PollGit \/ EndPoll
           \/ \E r \in Rules : FireDue(r) \/ CheckHead(r)
    PROVE  IInv'
<1>1. CASE PollCron
  <2> USE <1>1 DEF PollCron, Fails, Present, table
  <2>1. TypeOK'  BY DEF IInv, TypeOK
  <2>2. Division'  BY DEF IInv, TypeOK, Division
  <2>3. Past'  BY DEF IInv, Past
  <2>4. StillDue'  BY DEF IInv, TypeOK, StillDue, Starting, cronDue
  <2>5. MarkCounts' /\ BaselineAhead'  BY DEF IInv, MarkCounts, BaselineAhead, Starting
  <2>6. NewestRecorded' /\ CronSpacing' /\ GitOnce'
    BY DEF IInv, TypeOK, NewestRecorded, CronSpacing, GitOnce
  <2> QED  BY <2>1, <2>2, <2>3, <2>4, <2>5, <2>6 DEF IInv
<1>2. CASE PollGit \/ EndPoll
  <2> USE <1>2 DEF PollGit, EndPoll, Fails, Present, table, counters
  <2>1. TypeOK'  BY DEF IInv, TypeOK
  <2>2. Division'  BY DEF IInv, TypeOK, Division
  <2>3. Past'  BY DEF IInv, Past
  <2>4. StillDue'  BY DEF IInv, TypeOK, StillDue, Starting, cronDue
  <2>5. MarkCounts' /\ BaselineAhead'  BY DEF IInv, MarkCounts, BaselineAhead, Starting
  <2>6. NewestRecorded' /\ CronSpacing' /\ GitOnce'
    BY DEF IInv, TypeOK, NewestRecorded, CronSpacing, GitOnce
  <2> QED  BY <2>1, <2>2, <2>3, <2>4, <2>5, <2>6 DEF IInv
<1>3. ASSUME NEW r \in Rules, FireDue(r) PROVE IInv'
  <2> USE <1>3 DEF FireDue, StartFire, table, counters
  <2>1. TypeOK'  BY DEF IInv, TypeOK, Firing
  <2>2. Division'  BY DEF IInv, TypeOK, Division
  <2>3. Past'  BY DEF IInv, TypeOK, Past
  <2>4. StillDue'  BY DEF IInv, TypeOK, StillDue, Starting, cronDue
  <2>5. MarkCounts'  BY DEF IInv, TypeOK, MarkCounts
  <2>6. BaselineAhead'  BY DEF IInv, TypeOK, BaselineAhead, Starting, Division
  <2>7. NewestRecorded' /\ CronSpacing' /\ GitOnce'
    BY DEF IInv, TypeOK, NewestRecorded, CronSpacing, GitOnce
  <2> QED  BY <2>1, <2>2, <2>3, <2>4, <2>5, <2>6, <2>7 DEF IInv
<1>4. ASSUME NEW r \in Rules, CheckHead(r) PROVE IInv'
  <2> USE <1>4 DEF CheckHead, StartFire, Changed, Fails, table
  <2>0. r \in GitRules  BY DEF IInv, Division
  <2>1. TypeOK'
    <3>1. firing' \in [Actors -> Firing]
      BY DEF IInv, TypeOK, Firing
    <3>2. fpc' \in [Actors -> {"idle", "get", "create", "record", "mark"}]
      BY DEF IInv, TypeOK
    <3>3. \A x \in Actors : fpc'[x] = "idle" <=> firing'[x].rule = NoRule
      BY DEF IInv, TypeOK
    <3>4. heads' \in [GitRules -> Nat \cup {NoHead}] /\ todo' \subseteq Rules
      BY <2>0 DEF IInv, TypeOK
    <3> QED  BY <3>1, <3>2, <3>3, <3>4 DEF IInv, TypeOK
  <2>2. Division'
    <3>1. /\ \A x \in Actors : x # Engine => fpc'[x] = fpc[x] /\ firing'[x] = firing[x]
          /\ fpc'[Engine] # "idle" => firing'[Engine].rule = r
      BY DEF IInv, TypeOK
    <3>2. /\ \A x \in todo' : rules[x] # "absent"
          /\ \A x \in Actors : fpc'[x] # "idle" => rules[firing'[x].rule] # "absent"
      BY <3>1 DEF IInv, Division
    <3> QED  BY <2>0, <3>1, <3>2 DEF IInv, Division
  <2>3. Past'  BY DEF IInv, TypeOK, Past
  <2>4. StillDue'  BY DEF IInv, TypeOK, StillDue, Starting, cronDue, Division
  <2>5. MarkCounts'  BY DEF IInv, TypeOK, MarkCounts
  <2>6. BaselineAhead'  BY DEF IInv, TypeOK, BaselineAhead, Starting, Division
  <2>7. NewestRecorded' /\ CronSpacing' /\ GitOnce'
    BY DEF IInv, TypeOK, NewestRecorded, CronSpacing, GitOnce
  <2> QED  BY <2>1, <2>2, <2>3, <2>4, <2>5, <2>6, <2>7 DEF IInv
<1> QED  BY <1>1, <1>2, <1>3, <1>4

(* A webhook fires a rule of its own kind. *)
LEMMA WebhookStep ==
    ASSUME IInv, NEW h \in Hooks, NEW r \in HttpRules, Webhook(h, r)
    PROVE  IInv'
<1> USE DEF Webhook, StartFire, Present, table
<1>1. TypeOK'  BY DEF IInv, TypeOK, Firing
<1>2. Division'  BY DEF IInv, TypeOK, Division
<1>3. Past'  BY DEF IInv, TypeOK, Past
<1>4. StillDue'  BY DEF IInv, TypeOK, StillDue, Starting, cronDue
<1>5. MarkCounts'  BY DEF IInv, TypeOK, MarkCounts
<1>6. BaselineAhead'  BY DEF IInv, TypeOK, BaselineAhead, Starting
<1>7. NewestRecorded' /\ CronSpacing' /\ GitOnce'
  BY DEF IInv, TypeOK, NewestRecorded, CronSpacing, GitOnce
<1> QED  BY <1>1, <1>2, <1>3, <1>4, <1>5, <1>6, <1>7 DEF IInv

(* Time and commits only go forward, and a restart forgets the baselines    *)
(* and whatever was about to fire.                                          *)
LEMMA EnvironmentStep ==
    ASSUME IInv, Tick \/ Commit \/ Restart
    PROVE  IInv'
<1>1. CASE Tick
  <2> USE <1>1 DEF Tick, table, memory, counters
  <2>0. now \in Nat /\ now' = now + 1  BY DEF IInv, TypeOK
  <2>1. TypeOK'
    <3>1. now' \in Nat  BY <2>0
    <3> QED  BY <3>1 DEF IInv, TypeOK
  <2>2. Division'  BY DEF IInv, Division
  <2>3. Past'
    <3>1. \A r \in Rules : last[r] # Never => last[r] \in Nat
      BY DEF IInv, TypeOK
    <3>2. ASSUME NEW r \in Rules, NEW i \in DOMAIN tasks[r] PROVE tasks[r][i].at \in Nat
      <4>1. tasks[r] \in Seq(Task)  BY DEF IInv, TypeOK
      <4>2. tasks[r][i] \in Task  BY <4>1
      <4> QED  BY <4>2 DEF Task
    <3> QED  BY <2>0, <3>1, <3>2 DEF IInv, Past
  <2>4. StillDue'  BY DEF IInv, TypeOK, StillDue, Starting, cronDue
  <2>5. MarkCounts' /\ BaselineAhead'  BY DEF IInv, MarkCounts, BaselineAhead, Starting
  <2>6. NewestRecorded' /\ CronSpacing' /\ GitOnce'
    BY DEF IInv, TypeOK, NewestRecorded, CronSpacing, GitOnce
  <2> QED  BY <2>1, <2>2, <2>3, <2>4, <2>5, <2>6 DEF IInv
<1>2. CASE Commit
  <2> USE <1>2 DEF Commit, table, memory, counters
  <2>0. head \in Nat /\ head' = head + 1  BY DEF IInv, TypeOK
  <2>1. TypeOK'
    <3>1. head' \in Nat  BY <2>0
    <3> QED  BY <3>1 DEF IInv, TypeOK
  <2>2. Division' /\ Past'  BY DEF IInv, Division, Past
  <2>3. StillDue'  BY DEF IInv, StillDue, Starting, cronDue
  <2>4. MarkCounts'  BY DEF IInv, MarkCounts
  <2>5. BaselineAhead'  BY <2>0 DEF IInv, TypeOK, BaselineAhead, Starting
  <2>6. NewestRecorded' /\ CronSpacing' /\ GitOnce'
    BY DEF IInv, TypeOK, NewestRecorded, CronSpacing, GitOnce
  <2> QED  BY <2>1, <2>2, <2>3, <2>4, <2>5, <2>6 DEF IInv
<1>3. CASE Restart
  <2> USE <1>3 DEF Restart, Forget, table
  <2>1. TypeOK'  BY DEF IInv, TypeOK, NoFiring, Firing
  <2>2. Division' /\ Past'  BY DEF IInv, Division, Past
  <2>3. StillDue'  BY DEF StillDue, Starting
  <2>4. MarkCounts'  BY DEF IInv, MarkCounts
  <2>5. BaselineAhead'  BY DEF IInv, BaselineAhead, Starting
  <2>6. NewestRecorded' /\ CronSpacing' /\ GitOnce'
    BY DEF IInv, TypeOK, NewestRecorded, CronSpacing, GitOnce
  <2> QED  BY <2>1, <2>2, <2>3, <2>4, <2>5, <2>6 DEF IInv
<1> QED  BY <1>1, <1>2, <1>3

(* CreateTask: the new task is the last of its rule's, and the others stay. *)
LEMMA TaskAppended ==
    ASSUME TypeOK, NEW a \in Actors, CreateTask(a), tasks' # tasks
    PROVE  LET r == firing[a].rule
               n == Len(tasks[r]) + 1
           IN  /\ r \in Rules /\ fpc[a] = "create"
               /\ tasks' \in [Rules -> Seq(Task)]
               /\ \A x \in Rules : x # r => tasks'[x] = tasks[x]
               /\ n \in Nat \ {0} /\ n \notin DOMAIN tasks[r]
               /\ DOMAIN tasks[r] = 1..(n - 1) /\ DOMAIN tasks'[r] = 1..n
               /\ \A i \in DOMAIN tasks[r] : tasks'[r][i] = tasks[r][i]
               /\ tasks'[r][n].at = now /\ tasks'[r][n].head = firing[a].head
               /\ fpc' = [fpc EXCEPT ![a] = "record"]
               /\ firing' = [firing EXCEPT ![a].task = n]
<1> DEFINE r == firing[a].rule
           n == Len(tasks[r]) + 1
           t == [at |-> now, head |-> firing[a].head]
<1>1. r \in Rules /\ fpc[a] = "create" /\ firing[a].head \in Nat \cup {NoHead}
  BY DEF TypeOK, CreateTask, Firing
<1>2. tasks[r] \in Seq(Task) /\ t \in Task
  BY <1>1 DEF TypeOK, Task
<1>3. /\ tasks' = [tasks EXCEPT ![r] = Append(@, t)]
      /\ fpc' = [fpc EXCEPT ![a] = "record"]
      /\ firing' = [firing EXCEPT ![a].task = Len(tasks'[r])]
  BY DEF CreateTask
<1>4. /\ tasks'[r] = Append(tasks[r], t)
      /\ \A x \in Rules : x # r => tasks'[x] = tasks[x]
  BY <1>1, <1>3 DEF TypeOK
<1>5. /\ Append(tasks[r], t) \in Seq(Task)
      /\ Len(Append(tasks[r], t)) = n
      /\ \A i \in 1..Len(tasks[r]) : Append(tasks[r], t)[i] = tasks[r][i]
      /\ Append(tasks[r], t)[n] = t
      /\ DOMAIN tasks[r] = 1..Len(tasks[r]) /\ DOMAIN Append(tasks[r], t) = 1..n
      /\ Len(tasks[r]) \in Nat
  BY <1>2
<1>6. tasks' \in [Rules -> Seq(Task)]
  BY <1>1, <1>3, <1>5 DEF TypeOK
<1>7. n \in Nat \ {0} /\ n \notin DOMAIN tasks[r] /\ Len(tasks[r]) = n - 1
  BY <1>5
<1>8. DOMAIN tasks[r] = 1..(n - 1)
  BY <1>5, <1>7
<1>9. tasks'[r][n].at = now /\ tasks'[r][n].head = firing[a].head
  BY <1>4, <1>5
<1>10. /\ DOMAIN tasks'[r] = 1..n
       /\ \A i \in DOMAIN tasks[r] : tasks'[r][i] = tasks[r][i]
  BY <1>4, <1>5
<1>11. firing' = [firing EXCEPT ![a].task = n]
  BY <1>3, <1>4, <1>5
<1> HIDE DEF n, r
<1>12. /\ r \in Rules /\ fpc[a] = "create"
       /\ tasks' \in [Rules -> Seq(Task)]
       /\ \A x \in Rules : x # r => tasks'[x] = tasks[x]
       /\ n \in Nat \ {0} /\ n \notin DOMAIN tasks[r]
       /\ DOMAIN tasks[r] = 1..(n - 1) /\ DOMAIN tasks'[r] = 1..n
       /\ \A i \in DOMAIN tasks[r] : tasks'[r][i] = tasks[r][i]
       /\ tasks'[r][n].at = now /\ tasks'[r][n].head = firing[a].head
       /\ fpc' = [fpc EXCEPT ![a] = "record"]
       /\ firing' = [firing EXCEPT ![a].task = n]
  BY <1>1, <1>3, <1>4, <1>6, <1>7, <1>8, <1>9, <1>10, <1>11
<1> QED  BY <1>12, Zenon DEF n, r

(* The task of a cron rule comes when the rule is due, that of a git rule is *)
(* for a head beyond all earlier ones.                                       *)
LEMMA CreateTaskStep ==
    ASSUME IInv, NEW a \in Actors, CreateTask(a)
    PROVE  IInv'
<1>0. NoFiring \in Firing /\ NoFiring.rule = NoRule
  BY DEF NoFiring, Firing
<1>1. CASE tasks' = tasks
  <2>0. /\ fpc' = [fpc EXCEPT ![a] = "idle"] /\ firing' = [firing EXCEPT ![a] = NoFiring]
        /\ UNCHANGED <<now, head, rules, last, phase, todo, heads, marked>>
    <3>1. CASE Fails /\ Return(a) /\ UNCHANGED tasks
      BY <3>1 DEF CreateTask, Return
    <3>2. CASE tasks' = [tasks EXCEPT ![firing[a].rule] =
                           Append(@, [at |-> now, head |-> firing[a].head])]
      <4>1. firing[a].rule \in Rules
        BY DEF IInv, TypeOK, CreateTask, Firing
      <4>2. tasks[firing[a].rule] \in Seq(Task)
        BY <4>1 DEF IInv, TypeOK
      <4>3. Append(tasks[firing[a].rule], [at |-> now, head |-> firing[a].head])
              = tasks[firing[a].rule]
        BY <1>1, <3>2, <4>1 DEF IInv, TypeOK
      <4>4. FALSE
        <5> DEFINE q == tasks[firing[a].rule]
        <5>1. Len(Append(q, [at |-> now, head |-> firing[a].head])) = Len(q) + 1 /\ Len(q) \in Nat
          BY <4>2
        <5> QED  BY <4>3, <5>1
      <4> QED  BY <4>4
    <3> QED  BY <3>1, <3>2 DEF CreateTask
  <2>1. TypeOK'
    <3>1. firing' \in [Actors -> Firing]
      BY <1>0, <2>0 DEF IInv, TypeOK
    <3>2. fpc' \in [Actors -> {"idle", "get", "create", "record", "mark"}]
      BY <2>0 DEF IInv, TypeOK
    <3>3. \A x \in Actors : fpc'[x] = "idle" <=> firing'[x].rule = NoRule
      BY <1>0, <2>0 DEF IInv, TypeOK
    <3> QED  BY <1>1, <2>0, <3>1, <3>2, <3>3 DEF IInv, TypeOK
  <2>2. Division'  BY <2>0 DEF IInv, TypeOK, Division
  <2>3. Past'  BY <1>1, <2>0 DEF IInv, TypeOK, Past
  <2>4. StillDue'  BY <2>0 DEF IInv, TypeOK, StillDue, Starting, cronDue
  <2>5. MarkCounts'  BY <1>1, <2>0 DEF IInv, TypeOK, MarkCounts
  <2>6. BaselineAhead'  BY <1>1, <2>0 DEF IInv, TypeOK, BaselineAhead, Starting
  <2>7. NewestRecorded' /\ CronSpacing' /\ GitOnce'
    BY <1>1, <2>0 DEF IInv, TypeOK, NewestRecorded, CronSpacing, GitOnce
  <2> QED  BY <2>1, <2>2, <2>3, <2>4, <2>5, <2>6, <2>7 DEF IInv
<1>2. CASE tasks' # tasks
  <2> DEFINE r == firing[a].rule
             n == Len(tasks[r]) + 1
  <2>0. /\ r \in Rules /\ fpc[a] = "create"
        /\ tasks' \in [Rules -> Seq(Task)]
        /\ \A x \in Rules : x # r => tasks'[x] = tasks[x]
        /\ n \in Nat \ {0} /\ n \notin DOMAIN tasks[r]
        /\ DOMAIN tasks[r] = 1..(n - 1) /\ DOMAIN tasks'[r] = 1..n
        /\ \A i \in DOMAIN tasks[r] : tasks'[r][i] = tasks[r][i]
        /\ tasks'[r][n].at = now /\ tasks'[r][n].head = firing[a].head
        /\ fpc' = [fpc EXCEPT ![a] = "record"]
        /\ firing' = [firing EXCEPT ![a].task = n]
    BY <1>2, TaskAppended DEF IInv
  <2>1. UNCHANGED <<now, head, rules, last, phase, todo, heads, marked>>
    BY DEF CreateTask
  <2> HIDE DEF n
  <2>2. /\ firing' \in [Actors -> Firing]
        /\ \A x \in Actors : x # a => firing'[x] = firing[x] /\ fpc'[x] = fpc[x]
        /\ firing'[a].rule = r /\ firing'[a].head = firing[a].head
        /\ firing'[a].task = n /\ fpc'[a] = "record"
    <3>1. firing[a] \in Firing /\ firing \in [Actors -> Firing]
      BY DEF IInv, TypeOK
    <3>2. firing'[a] = [firing[a] EXCEPT !.task = n]
      BY <2>0, <3>1
    <3>3. [firing[a] EXCEPT !.task = n] \in Firing
      BY <2>0, <3>1 DEF Firing
    <3>4. firing' = [firing EXCEPT ![a] = [firing[a] EXCEPT !.task = n]]
      BY <2>0, <3>1
    <3>5. firing' \in [Actors -> Firing]
      BY <3>1, <3>3, <3>4
    <3>6. /\ firing'[a].rule = r /\ firing'[a].head = firing[a].head
          /\ firing'[a].task = n
      BY <3>1, <3>2 DEF Firing
    <3>7. \A x \in Actors : x # a => firing'[x] = firing[x] /\ fpc'[x] = fpc[x]
      BY <2>0, <3>1, <3>4 DEF IInv, TypeOK
    <3>8. fpc'[a] = "record"
      BY <2>0 DEF IInv, TypeOK
    <3> QED  BY <3>5, <3>6, <3>7, <3>8
  <2> HIDE DEF r
  <2>3. TypeOK'
    <3>1. fpc' \in [Actors -> {"idle", "get", "create", "record", "mark"}]
      BY <2>0 DEF IInv, TypeOK
    <3>2. \A x \in Actors : fpc'[x] = "idle" <=> firing'[x].rule = NoRule
      BY <2>0, <2>2 DEF IInv, TypeOK
    <3> QED  BY <2>0, <2>1, <2>2, <3>1, <3>2 DEF IInv, TypeOK
  <2>4. Division'
    BY <2>0, <2>1, <2>2 DEF IInv, Division, r
  <2>5. DOMAIN tasks'[r] = DOMAIN tasks[r] \cup {n} /\ n \in DOMAIN tasks'[r]
    BY <2>0
  <2>6. \A x \in Rules : DOMAIN tasks[x] \subseteq DOMAIN tasks'[x]
    BY <2>0, <2>5
  <2>7. Past'
    <3>1. ASSUME NEW x \in Rules, NEW i \in DOMAIN tasks'[x] PROVE tasks'[x][i].at <= now
      <4>1. now <= now  BY DEF IInv, TypeOK
      <4> QED  BY <2>0, <2>5, <4>1 DEF IInv, Past
    <3>2. \A x \in Actors : fpc'[x] \in {"record", "mark"} =>
            firing'[x].task \in DOMAIN tasks'[firing'[x].rule]
      <4> SUFFICES ASSUME NEW x \in Actors, fpc'[x] \in {"record", "mark"}
                   PROVE  firing'[x].task \in DOMAIN tasks'[firing'[x].rule]
        OBVIOUS
      <4>1. CASE x = a  BY <2>2, <2>5, <4>1
      <4>2. CASE x # a
        <5>1. firing'[x] = firing[x] /\ fpc[x] \in {"record", "mark"}
          BY <2>2, <4>2
        <5>2. firing[x].rule \in Rules
          BY <5>1 DEF IInv, TypeOK, Firing
        <5> QED  BY <2>6, <5>1, <5>2 DEF IInv, Past
      <4> QED  BY <4>1, <4>2
    <3>3. \A m \in marked : m[2] \in DOMAIN tasks'[m[1]]
      <4> SUFFICES ASSUME NEW m \in marked PROVE m[2] \in DOMAIN tasks'[m[1]]
        OBVIOUS
      <4>1. m[1] \in Rules /\ m[2] \in DOMAIN tasks[m[1]]
        BY DEF IInv, TypeOK, Past
      <4> QED  BY <2>6, <4>1
    <3> QED  BY <2>1, <3>1, <3>2, <3>3 DEF IInv, Past
  <2>8. StillDue'
    BY <2>0, <2>1, <2>2 DEF IInv, StillDue, Starting, cronDue
  \* The new task is not recorded yet.
  <2>9. <<r, n>> \notin marked
    BY <2>0 DEF IInv, Past
  <2>10. MarkCounts'
    <3> SUFFICES ASSUME NEW x \in CronRules, NEW i \in DOMAIN tasks'[x], <<x, i>> \in marked
                 PROVE  \/ last[x] # Never /\ tasks'[x][i].at <= last[x]
                        \/ /\ rules[x] = "deleted"
                           /\ ~(fpc'[Engine] = "create" /\ firing'[Engine].rule = x)
      BY <2>1 DEF MarkCounts
    <3>1. i \in DOMAIN tasks[x] /\ tasks'[x][i] = tasks[x][i]
      BY <2>0, <2>5, <2>9
    <3> QED  BY <2>2, <3>1 DEF IInv, MarkCounts
  <2>11. CronSpacing'
    <3> SUFFICES ASSUME NEW x \in CronRules, NEW i \in DOMAIN tasks'[x],
                        NEW j \in DOMAIN tasks'[x], i < j, <<x, i>> \in marked
                 PROVE  tasks'[x][j].at - tasks'[x][i].at >= Interval
      BY <2>1 DEF CronSpacing
    <3>1. i \in DOMAIN tasks[x] /\ tasks'[x][i] = tasks[x][i]
      BY <2>0, <2>5, <2>9
    <3>2. CASE x # r \/ j # n
      <4>1. j \in DOMAIN tasks[x] /\ tasks'[x][j] = tasks[x][j]
        BY <2>0, <2>5, <3>2
      <4> QED  BY <3>1, <4>1 DEF IInv, CronSpacing
    <3>3. CASE x = r /\ j = n
      <4>1. a = Engine
        BY <2>0, <3>3 DEF IInv, Division, r
      <4>2. last[r] # Never /\ tasks[r][i].at <= last[r]
        BY <2>0, <3>1, <3>3, <4>1 DEF IInv, MarkCounts, r
      <4>3. cronDue(r)
        BY <2>0, <3>3, <4>1 DEF IInv, StillDue, Starting, r
      <4>4. now - last[r] >= Interval /\ last[r] \in Nat /\ now \in Nat
        BY <2>0, <4>2, <4>3 DEF cronDue, IInv, TypeOK
      <4>5. tasks[r][i].at \in Nat
        <5>1. tasks[r] \in Seq(Task)  BY <2>0 DEF IInv, TypeOK
        <5>2. tasks[r][i] \in Task  BY <3>1, <3>3, <5>1
        <5> QED  BY <5>2 DEF Task
      <4>6. now - tasks[r][i].at >= Interval
        BY <4>2, <4>4, <4>5
      <4> QED  BY <2>0, <3>1, <3>3, <4>6
    <3> QED  BY <3>2, <3>3
  \* A git rule is fired by the engine, for the head that is its baseline.
  <2>12. r \in GitRules => /\ a = Engine /\ Starting(r)
                           /\ heads[r] # NoHead /\ firing[a].head = heads[r]
                           /\ heads[r] <= head /\ heads[r] \in Nat
    BY <2>0 DEF IInv, TypeOK, Division, BaselineAhead, Starting, r
  <2>13. BaselineAhead'
    <3> SUFFICES ASSUME NEW x \in GitRules
                 PROVE  /\ heads[x] # NoHead => heads[x] <= head
                        /\ \A i \in DOMAIN tasks'[x] :
                            /\ tasks'[x][i].head \in Nat /\ tasks'[x][i].head <= head
                            /\ heads[x] # NoHead => tasks'[x][i].head <= heads[x]
                            /\ Starting(x)' => tasks'[x][i].head < firing'[Engine].head
                        /\ Starting(x)' => heads[x] # NoHead /\ firing'[Engine].head = heads[x]
      BY <2>1 DEF BaselineAhead
    <3>1. CASE x # r
      BY <2>0, <2>1, <2>2, <3>1 DEF IInv, BaselineAhead, Starting
    <3>2. CASE x = r
      <4>1. ~Starting(x)'
        BY <2>2, <2>12, <3>2 DEF Starting
      <4>2. heads[r] <= heads[r]
        BY <2>12, <3>2
      <4>3. /\ tasks'[r][n].head \in Nat /\ tasks'[r][n].head <= head
            /\ tasks'[r][n].head <= heads[r]
        BY <2>0, <2>12, <3>2, <4>2
      <4>4. ASSUME NEW i \in DOMAIN tasks[r]
            PROVE  /\ tasks'[r][i].head \in Nat /\ tasks'[r][i].head <= head
                   /\ heads[r] # NoHead => tasks'[r][i].head <= heads[r]
        BY <2>0, <3>2 DEF IInv, BaselineAhead
      <4>5. heads[r] # NoHead => heads[r] <= head
        BY <3>2 DEF IInv, BaselineAhead
      <4> QED  BY <2>5, <3>2, <4>1, <4>3, <4>4, <4>5
    <3> QED  BY <3>1, <3>2
  <2>14. GitOnce'
    <3> SUFFICES ASSUME NEW x \in GitRules, NEW i \in DOMAIN tasks'[x],
                        NEW j \in DOMAIN tasks'[x], i < j
                 PROVE  tasks'[x][i].head < tasks'[x][j].head
      BY DEF GitOnce
    <3>1. CASE x # r
      BY <2>0, <3>1 DEF IInv, GitOnce
    <3>2. CASE x = r
      <4>1. i \in DOMAIN tasks[r] /\ tasks'[r][i] = tasks[r][i]
        BY <2>0, <2>5, <3>2
      <4>2. CASE j = n
        <5>1. tasks[r][i].head < firing[a].head
          BY <2>12, <3>2, <4>1 DEF IInv, BaselineAhead
        <5> QED  BY <2>0, <3>2, <4>1, <4>2, <5>1
      <4>3. CASE j # n
        BY <2>0, <2>5, <3>2, <4>1, <4>3 DEF IInv, GitOnce
      <4> QED  BY <4>2, <4>3
    <3> QED  BY <3>1, <3>2
  <2>15. NewestRecorded'
    <3> SUFFICES ASSUME fpc'[Engine] \in {"record", "mark"}, firing'[Engine].rule \in CronRules,
                        NEW i \in DOMAIN tasks'[firing'[Engine].rule]
                 PROVE  i <= firing'[Engine].task
      BY DEF NewestRecorded
    <3>1. CASE a = Engine
      BY <2>0, <2>2, <3>1
    <3>2. CASE a # Engine
      <4>1. r \notin CronRules
        BY <2>0, <3>2 DEF IInv, Division, r
      <4>2. firing'[Engine] = firing[Engine] /\ fpc'[Engine] = fpc[Engine]
        BY <2>2, <3>2
      <4>3. tasks'[firing[Engine].rule] = tasks[firing[Engine].rule]
        BY <2>0, <4>1, <4>2
      <4> QED  BY <4>2, <4>3 DEF IInv, NewestRecorded
    <3> QED  BY <3>1, <3>2
  <2> QED  BY <2>3, <2>4, <2>7, <2>8, <2>10, <2>11, <2>13, <2>14, <2>15 DEF IInv
<1> QED  BY <1>1, <1>2

(* MarkRuleFired records the firing in last_fired_at while the rule exists.  *)
LEMMA MarkStep ==
    ASSUME IInv, NEW a \in Actors, MarkRuleFired(a)
    PROVE  IInv'
<1> DEFINE r == firing[a].rule
           k == firing[a].task
<1>0. NoFiring \in Firing /\ NoFiring.rule = NoRule
  BY DEF NoFiring, Firing
<1>1. /\ fpc[a] = "mark" /\ r \in Rules /\ k \in Nat /\ k \in DOMAIN tasks[r]
      /\ tasks[r][k].at <= now
  <2>1. fpc[a] = "mark" /\ firing[a] \in Firing /\ r # NoRule
    BY DEF MarkRuleFired, IInv, TypeOK
  <2> QED  BY <2>1 DEF IInv, Past, Firing
<1>2. /\ fpc' = [fpc EXCEPT ![a] = "idle"] /\ firing' = [firing EXCEPT ![a] = NoFiring]
      /\ UNCHANGED <<now, head, rules, tasks, phase, todo, heads>>
  BY DEF MarkRuleFired, Return
\* Either nothing is recorded, or the firing is.
<1>3. \/ last' = last /\ marked' = marked
      \/ /\ marked' = marked \cup {<<r, k>>}
         /\ last' = IF rules[r] = "present" THEN [last EXCEPT ![r] = now] ELSE last
  BY DEF MarkRuleFired
<1> HIDE DEF r, k
<1>4. /\ \A x \in Actors : x # a => firing'[x] = firing[x] /\ fpc'[x] = fpc[x]
      /\ firing'[a] = NoFiring /\ fpc'[a] = "idle"
      /\ firing' \in [Actors -> Firing]
      /\ fpc' \in [Actors -> {"idle", "get", "create", "record", "mark"}]
  BY <1>0, <1>2 DEF IInv, TypeOK
<1>5. now \in Nat  BY DEF IInv, TypeOK
<1>6. /\ last' \in [Rules -> Nat \cup {Never}]
      /\ \A x \in Rules : x # r => last'[x] = last[x]
      /\ last'[r] # last[r] => last'[r] = now
      /\ marked' \subseteq Rules \X Nat
  BY <1>1, <1>3, <1>5 DEF IInv, TypeOK
<1>7. TypeOK'
  <2>1. \A x \in Actors : fpc'[x] = "idle" <=> firing'[x].rule = NoRule
    BY <1>0, <1>4 DEF IInv, TypeOK
  <2> QED  BY <1>2, <1>4, <1>6, <2>1 DEF IInv, TypeOK
<1>8. Division'
  BY <1>0, <1>2, <1>4 DEF IInv, Division
<1>9. Past'
  <2>1. \A x \in Rules : last'[x] # Never => last'[x] <= now
    <3>1. now <= now  BY <1>5
    <3> QED  BY <1>6, <3>1 DEF IInv, Past
  <2>2. \A m \in marked' : m[2] \in DOMAIN tasks[m[1]]
    BY <1>1, <1>3 DEF IInv, Past
  <2>3. \A x \in Actors : fpc'[x] \in {"record", "mark"} =>
          firing'[x].task \in DOMAIN tasks[firing'[x].rule]
    BY <1>4 DEF IInv, Past
  <2> QED  BY <1>2, <2>1, <2>2, <2>3 DEF IInv, Past
\* The marked cron rule is the engine's own, which is no longer in todo.
<1>10. r \in CronRules => a = Engine /\ phase = "cron" /\ r \notin todo
  BY <1>1 DEF IInv, Division, r
<1>11. StillDue'
  <2> SUFFICES ASSUME NEW x \in CronRules,
                      (phase = "cron" /\ x \in todo) \/ Starting(x)'
               PROVE  cronDue(x)'
    BY <1>2 DEF StillDue
  <2>1. (phase = "cron" /\ x \in todo) \/ Starting(x)
    BY <1>4 DEF Starting
  <2>2. x # r
    <3>1. Starting(x) => firing[Engine].rule = x /\ fpc[Engine] # "mark"
      BY DEF Starting
    <3> QED  BY <1>1, <1>4, <1>10, <2>1 DEF Starting, r
  <2> QED  BY <1>2, <1>6, <2>1, <2>2 DEF IInv, StillDue, cronDue
<1>12. MarkCounts'
  <2> SUFFICES ASSUME NEW x \in CronRules, NEW i \in DOMAIN tasks[x], <<x, i>> \in marked'
               PROVE  \/ last'[x] # Never /\ tasks[x][i].at <= last'[x]
                      \/ /\ rules[x] = "deleted"
                         /\ ~(fpc'[Engine] = "create" /\ firing'[Engine].rule = x)
    BY <1>2 DEF MarkCounts
  <2>1. CASE <<x, i>> \in marked
    <3>1. \/ last[x] # Never /\ tasks[x][i].at <= last[x]
          \/ /\ rules[x] = "deleted"
             /\ ~(fpc[Engine] = "create" /\ firing[Engine].rule = x)
      BY <2>1 DEF IInv, MarkCounts
    <3>2. CASE x # r \/ last'[x] = last[x]
      BY <1>4, <1>6, <3>1, <3>2
    <3>3. CASE x = r /\ last'[r] = now
      <4>1. tasks[r][i].at <= now /\ now # Never
        BY <1>1, <1>5, <3>3 DEF IInv, Past
      <4> QED  BY <3>3, <4>1
    <3> QED  BY <1>6, <3>2, <3>3
  <2>2. CASE <<x, i>> \notin marked
    <3>1. x = r /\ i = k /\ last' = IF rules[r] = "present" THEN [last EXCEPT ![r] = now] ELSE last
      BY <1>3, <2>2
    <3>2. CASE rules[r] = "present"
      <4>1. last'[r] = now /\ now # Never
        BY <1>1, <1>5, <3>1, <3>2 DEF IInv, TypeOK
      <4> QED  BY <1>1, <3>1, <4>1
    <3>3. CASE rules[r] # "present"
      \* It was there when the engine looked, so it has been deleted since.
      <4>1. rules[r] = "deleted"
        BY <1>1, <3>3 DEF IInv, TypeOK, Division, r
      <4>2. a = Engine
        BY <1>10, <3>1
      <4> QED  BY <1>4, <3>1, <4>1, <4>2
    <3> QED  BY <3>2, <3>3
  <2> QED  BY <2>1, <2>2
<1>13. CronSpacing'
  <2> SUFFICES ASSUME NEW x \in CronRules, NEW i \in DOMAIN tasks[x], NEW j \in DOMAIN tasks[x],
                      i < j, <<x, i>> \in marked'
               PROVE  tasks[x][j].at - tasks[x][i].at >= Interval
    BY <1>2 DEF CronSpacing
  <2>1. CASE <<x, i>> \in marked
    BY <2>1 DEF IInv, CronSpacing
  \* Nothing comes after the task that is recorded now.
  <2>2. CASE <<x, i>> \notin marked
    <3>1. x = r /\ i = k
      BY <1>3, <2>2
    <3>2. a = Engine /\ j <= k
      BY <1>1, <1>10, <3>1 DEF IInv, NewestRecorded, r, k
    <3>3. j \in Nat
      <4>1. tasks[x] \in Seq(Task)
        BY DEF IInv, TypeOK
      <4> QED  BY <4>1
    <3> QED  BY <1>1, <3>1, <3>2, <3>3
  <2> QED  BY <2>1, <2>2
<1>14. BaselineAhead' /\ GitOnce'
  BY <1>2, <1>4 DEF IInv, BaselineAhead, GitOnce, Starting
<1>15. NewestRecorded'
  BY <1>2, <1>4 DEF IInv, NewestRecorded
<1> QED  BY <1>7, <1>8, <1>9, <1>11, <1>12, <1>13, <1>14, <1>15 DEF IInv

(* The inductive invariant, for any rules, webhooks, faults and restarts. *)
THEOREM Invariant == Spec => []IInv
<1>1. Init => IInv  BY InitInv
<1>2. IInv /\ [Next]_vars => IInv'
  <2> SUFFICES ASSUME IInv, [Next]_vars PROVE IInv'
    OBVIOUS
  <2>1. ASSUME NEW a \in Actors, FireStep(a) PROVE IInv'
    BY <2>1, GetRuleStep, CreateTaskStep, RecordExecutionStep, MarkStep DEF FireStep
  <2>2. CASE EngineNext
    BY <2>1, <2>2, PollStep DEF EngineNext
  <2>3. ASSUME NEW h \in Hooks, HookStep(h) \/ \E r \in HttpRules : Webhook(h, r) PROVE IInv'
    BY <2>1, <2>3, WebhookStep DEF HookStep
  <2>4. CASE \E r \in Rules : CreateRule(r) \/ DeleteRule(r)
    BY <2>4, RuleStep
  <2>5. CASE Tick \/ Commit \/ Restart
    BY <2>5, EnvironmentStep
  <2>6. CASE UNCHANGED vars
    BY <2>6 DEF vars, table, memory, counters, IInv, TypeOK, Division, Past, NewestRecorded,
      StillDue, cronDue, MarkCounts, BaselineAhead, Starting, CronSpacing, GitOnce
  <2> QED  BY <2>2, <2>3, <2>4, <2>5, <2>6 DEF Next
<1> QED  BY <1>1, <1>2, PTL DEF Spec

-----------------------------------------------------------------------------
(* A cron rule whose firing was recorded does not fire again before its     *)
(* next occurrence, whatever fails, is deleted or restarts meanwhile.       *)
THEOREM CronRulesKeepTheirDistance == Spec => []CronSpacing
<1>1. IInv => CronSpacing  BY DEF IInv
<1> QED  BY <1>1, Invariant, PTL

(* A git rule fires at most once for a commit, also across restarts. *)
THEOREM OneTaskPerCommit == Spec => []GitOnce
<1>1. IInv => GitOnce  BY DEF IInv
<1> QED  BY <1>1, Invariant, PTL

=============================================================================
