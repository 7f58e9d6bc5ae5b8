-------------------------- MODULE RecurringScheduler --------------------------
(***************************************************************************)
(* Recurring templates (fireRecurring in internal/server/scheduler.go and  *)
(* the statements on last_fired_at in internal/store/task.go), for one     *)
(* template and several backend instances over one database.  An instance  *)
(* lists the template and reads its clock once per poll, so everything it  *)
(* does afterwards works on that snapshot; only the validation of the cron *)
(* expression reads the clock again.                                       *)
(***************************************************************************)
EXTENDS CronExpr

CONSTANTS Schedulers,   \* backend instances
          Expressions,  \* what clients ask for: a set of parts for each field
          MaxClock,     \* bound on the clock
          MaxFailures,  \* bound on the failed INSERTs of one behaviour
          MaxInterrupts \* bound on the shutdowns and crashes

ASSUME SchedulerAssumption ==
    /\ MaxClock \in Nat
    /\ MaxFailures \in Nat
    /\ MaxInterrupts \in Nat

VARIABLES clock,
          expr,       \* the cron expression of the template
          status,     \* of the template
          cursor,     \* last_fired_at
          pc, local,  \* where each instance is; its snapshot and its now
          clones,     \* tasks created for each occurrence
          covered,    \* history: the occurrences a clone was created for,
                      \* with the missed ones it also stands for
          ghosts,     \* history: INSERTs that took effect and reported an error
          slipped,    \* history: a claim was made after the clock had moved on
          failures, interrupts

history == <<ghosts, slipped>>

vars == <<clock, expr, status, cursor, pc, local, clones, covered, history,
          failures, interrupts>>

Never == -1     \* last_fired_at IS NULL
Created == 0    \* created_at of the template

Idle == [expected |-> Never, now |-> 0]

\* createTask accepts what ParseCron accepts.
Init ==
    /\ clock = Created
    /\ expr \in {e \in Expressions : ParseCron(e, Created)}
    /\ status = "scheduled"
    /\ cursor = Never
    /\ pc = [i \in Schedulers |-> "idle"]
    /\ local = [i \in Schedulers |-> Idle]
    /\ clones = [o \in 1..MaxClock |-> 0]
    /\ covered = {}
    /\ ghosts = 0 /\ slipped = FALSE
    /\ failures = 0 /\ interrupts = 0

-----------------------------------------------------------------------------
\* A template that never fired counts from its creation.
Base(c) == IF c = Never THEN Created ELSE c

\* The next occurrence for an instance that read the cursor c.
Upcoming(c) == NextCron(Base(c), expr, clock)

Due(c, now) == Upcoming(c) # NoTime /\ Upcoming(c) <= now

Occurrences == {o \in 1..MaxClock : Matches(expr, o)}

Later(c) == {o \in Occurrences : o > Base(c)}

\* Faulty variant: no compare before the set.
ClaimableBlind(expected) == status = "scheduled"

\* Faulty variant: NULL does not equal NULL.
ClaimableSet(expected) ==
    status = "scheduled" /\ cursor = expected /\ expected # Never

\* The UPDATE affects a row when the cursor is still the expected one.
Claimable(expected) == status = "scheduled" /\ cursor = expected

Goto(i, to) == pc' = [pc EXCEPT ![i] = to]

Return(i) == Goto(i, "idle") /\ local' = [local EXCEPT ![i] = Idle]

\* pollScheduled: ListScheduledTasks, then time.Now.
List(i) ==
    /\ pc[i] = "idle"
    /\ IF status = "scheduled"
       THEN /\ local' = [local EXCEPT ![i] = [expected |-> cursor, now |-> clock]]
            /\ Goto(i, "fire")
       ELSE UNCHANGED <<pc, local>>
    /\ UNCHANGED <<clock, expr, status, cursor, clones, covered, history, failures, interrupts>>

\* Faulty variant: an expression is not validated again.
FireUnchecked(i) ==
    LET e == local[i].expected
        now == local[i].now
        next == nextCron(Base(e), expr)
    IN  /\ pc[i] = "fire"
        /\ IF next # NoTime /\ next <= now /\ Claimable(e)
           THEN /\ cursor' = now /\ Goto(i, "clone") /\ UNCHANGED local
                /\ slipped' = (slipped \/ clock # now)
           ELSE Return(i) /\ UNCHANGED <<cursor, slipped>>
        /\ UNCHANGED <<clock, expr, status, clones, covered, ghosts, failures, interrupts>>

\* fireRecurring up to ClaimRecurringFire.
Fire(i) ==
    LET e == local[i].expected
        now == local[i].now
    IN  /\ pc[i] = "fire"
        /\ IF Due(e, now) /\ Claimable(e)
           THEN /\ cursor' = now /\ Goto(i, "clone") /\ UNCHANGED local
                /\ slipped' = (slipped \/ clock # now)
           ELSE Return(i) /\ UNCHANGED <<cursor, slipped>>
        /\ UNCHANGED <<clock, expr, status, clones, covered, ghosts, failures, interrupts>>

\* The occurrence instance i creates a task for.
First(i) == Min(Later(local[i].expected))

\* One task stands for all occurrences since the base.
Inserted(i) ==
    /\ clones' = [clones EXCEPT ![First(i)] = @ + 1]
    /\ covered' = covered \cup {o \in Later(local[i].expected) : o <= local[i].now}

\* CreateTask of the clone.
Clone(i) ==
    /\ pc[i] = "clone"
    /\ Inserted(i)
    /\ Return(i)
    /\ UNCHANGED <<clock, expr, status, cursor, history, failures, interrupts>>

\* The INSERT fails, or its answer is lost after it took effect.
CloneFails(i) ==
    /\ pc[i] = "clone" /\ failures < MaxFailures
    /\ failures' = failures + 1
    /\ \/ UNCHANGED <<clones, covered, ghosts>>
       \/ Inserted(i) /\ ghosts' = ghosts + 1
    /\ Goto(i, "rollback")
    /\ UNCHANGED <<clock, expr, status, cursor, local, slipped, interrupts>>

\* Faulty variant: the cursor is left where the claim put it.
RollbackForgotten(i) ==
    /\ pc[i] = "rollback"
    /\ Return(i)
    /\ UNCHANGED <<clock, expr, status, cursor, clones, covered, history, failures, interrupts>>

\* SetTaskLastFiredAtPtr has no condition on the cursor.
Rollback(i) ==
    /\ pc[i] = "rollback"
    /\ cursor' = local[i].expected
    /\ Return(i)
    /\ UNCHANGED <<clock, expr, status, clones, covered, history, failures, interrupts>>

\* A shutdown cancels ctx, so that CreateTask and the rollback both fail; a
\* crash has the same effect.
Interrupt(i) ==
    /\ interrupts < MaxInterrupts
    /\ interrupts' = interrupts + 1
    /\ pc[i] # "idle"
    /\ Return(i)
    /\ UNCHANGED <<clock, expr, status, cursor, clones, covered, history, failures>>

\* DELETE on the template: CancelScheduledTask.
Cancel ==
    /\ status = "scheduled" /\ status' = "canceled"
    /\ UNCHANGED <<clock, expr, cursor, pc, local, clones, covered, history, failures, interrupts>>

Tick ==
    /\ clock < MaxClock /\ clock' = clock + 1
    /\ UNCHANGED <<expr, status, cursor, pc, local, clones, covered, history, failures, interrupts>>

SchedulerNext(i) ==
    \/ List(i) \/ Fire(i) \/ Clone(i) \/ CloneFails(i) \/ Rollback(i) \/ Interrupt(i)

Next == Cancel \/ Tick \/ \E i \in Schedulers : SchedulerNext(i)

Spec == Init /\ [][Next]_vars

\* Time passes, every instance polls every schedulerInterval and finishes
\* its poll; clients need not cancel.
Fairness ==
    /\ WF_vars(Tick)
    /\ \A i \in Schedulers :
        WF_vars(List(i) \/ Fire(i) \/ Clone(i) \/ Rollback(i))

FairSpec == Spec /\ Fairness

-----------------------------------------------------------------------------
(* No occurrence is cloned twice, although two instances poll at the same  *)
(* time, INSERTs fail and cursors are rolled back (fireRecurring).  The    *)
(* rollback is unconditional, so with a third instance whose snapshot      *)
(* predates both, it would not hold.  An INSERT that reports an error      *)
(* although it took effect is repeated, once per such answer.              *)
AtMostOnce == \A o \in Occurrences : clones[o] <= 1 + ghosts

(* Once nobody handles an occurrence any more, the cursor is still before  *)
(* it or a task was created for it.                                        *)
Handler(i) == pc[i] \in {"clone", "rollback"}

Handling == \E i \in Schedulers : Handler(i)

Accounted ==
    ~Handling => \A o \in Occurrences : o <= Base(cursor) => o \in covered

(* A clone that fails is retried rather than skipped (fireRecurring), also *)
(* when another instance claims in between.  Two failed clones rolled back *)
(* in the order of their claims, or an interruption, would drop one.       *)
NoneSkipped == failures <= 1 /\ interrupts = 0 => Accounted

(* A template never comes to a cursor from which nextCron finds nothing,   *)
(* which would stop it for ever: the claim is made only when ParseCron saw *)
(* an occurrence within the horizon of the present, and that present is    *)
(* the new cursor.  The two readings of the clock in one poll may differ.  *)
NextFound == ~slipped => nextCron(Base(cursor), expr) # NoTime

(* Every occurrence is passed in the end: the cursor catches up with the   *)
(* clock again and again, however often clones fail, instances stop or     *)
(* rollbacks set it back.  While no further occurrence comes within the    *)
(* horizon ParseCron refuses the expression, and one that is due waits.    *)
CaughtUp == Scan(Base(cursor), expr) \cap 0..clock = {}

Fires ==
    []<>(status = "canceled" \/ CaughtUp \/ slipped \/ ~ParseCron(expr, clock))

-----------------------------------------------------------------------------
(* The inductive invariants behind the three invariants. *)

TypeOK ==
    /\ clock \in 0..MaxClock /\ failures \in Nat /\ interrupts \in Nat /\ ghosts \in Nat
    /\ cursor \in Never..clock
    /\ pc \in [Schedulers -> {"idle", "fire", "clone", "rollback"}]
    /\ local \in [Schedulers -> [expected : Int, now : Int]]
    /\ \A i \in Schedulers : local[i].expected \in Never..clock /\ local[i].now \in 0..clock
    /\ clones \in [1..MaxClock -> Nat]

\* Whoever claimed has an occurrence to create a task for.
Windows ==
    \A i \in Schedulers :
        Handler(i) => /\ First(i) \in Later(local[i].expected) /\ First(i) <= local[i].now
                      /\ \A o \in Later(local[i].expected) : First(i) <= o

\* Nobody works from a cursor after which nextCron finds nothing.
Sound ==
    ~slipped => /\ nextCron(Base(cursor), expr) # NoTime
                /\ \A i \in Schedulers :
                      pc[i] # "idle" => nextCron(Base(local[i].expected), expr) # NoTime

\* The cursor is not behind a claim that will be undone, up to the first
\* failure.
Undoable ==
    /\ failures = 0 =>
          \A i \in Schedulers :
              pc[i] # "rollback" /\ (pc[i] = "clone" => Base(local[i].expected) <= Base(cursor))
    /\ failures <= 1 =>
          \A i \in Schedulers : pc[i] = "rollback" =>
              /\ Base(local[i].expected) <= Base(cursor)
              /\ \A j \in Schedulers : pc[j] = "rollback" => i = j

\* An occurrence behind the cursor has its task or lies in a claim.
Pending ==
    failures <= 1 /\ interrupts = 0 =>
        \A o \in Occurrences : o <= Base(cursor) =>
            \/ o \in covered
            \/ \E i \in Schedulers :
                  Handler(i) /\ Base(local[i].expected) < o /\ o <= local[i].now

\* No claim from the cursor b will create a task for o: an earlier occurrence
\* comes first, and whoever is about to claim will put the cursor past o.
Passed(b, o) ==
    o \in Later(b) =>
        /\ \E p \in Later(b) : p < o
        /\ \A k \in Schedulers :
              pc[k] = "fire" /\ local[k].expected = b => o <= local[k].now

\* So it is for the present cursor and for those a rollback may bring back,
\* the rollbacks of some instances set aside.
Unclaimable(o, mine) ==
    /\ Passed(cursor, o)
    /\ \A j \in Schedulers \ mine : Handler(j) => Passed(local[j].expected, o)

Done(o) == clones[o] > ghosts

\* What has its task gets no other one, and what an instance is about to
\* create a task for gets none but by that instance's own claim.
OnceEach ==
    /\ \A o \in Occurrences : Done(o) => o <= clock /\ Unclaimable(o, {})
    /\ \A i \in Schedulers : Handler(i) => Unclaimable(First(i), {i})

=============================================================================
