----------------------- MODULE RecurringSchedulerProofs -----------------------
(* Theorems about RecurringScheduler for any calendar, any cron expressions, *)
(* any horizon and, but for the last one, any number of instances.           *)
EXTENDS RecurringScheduler, WellFoundedInduction, TLAPS

(* A set of naturals has a least element, by the well-founded order: the    *)
(* provers have no induction.                                              *)
LEMMA LeastFacts ==
    ASSUME NEW S \in SUBSET Nat, S # {}
    PROVE  Min(S) \in S /\ \A y \in S : Min(S) <= y
<1> DEFINE R == OpToRel(<, Nat)
<1>1. IsWellFoundedOn(R, Nat)
  BY NatLessThanWellFounded
<1>2. \A x, y \in Nat : y < x => <<y, x>> \in R
  BY DEF OpToRel
<1> HIDE DEF R
<1>3. \E x \in S : \A y \in S : ~(<<y, x>> \in R)
  BY <1>1, WFMin
<1>4. \E x \in S : \A y \in S : x <= y
  <2>1. PICK x \in S : \A y \in S : ~(<<y, x>> \in R)
    BY <1>3
  <2>2. \A y \in S : ~(y < x)
    BY <1>2, <2>1
  <2>3. \A y \in S : x <= y
    BY <2>2
  <2> QED  BY <2>3
<1> QED  BY <1>4 DEF Min

USE CronAssumption, SchedulerAssumption

-----------------------------------------------------------------------------
(* Types and claims. *)

(* Occurrences are instants after the creation of the template. *)
LEMMA LaterFacts ==
    ASSUME NEW c \in Int
    PROVE  /\ Occurrences \in SUBSET Nat /\ Occurrences \subseteq 1..MaxClock
           /\ Later(c) \in SUBSET Nat /\ Later(c) \subseteq Occurrences
           /\ Base(c) \in Int /\ \A o \in Later(c) : o > Base(c)
BY DEF Occurrences, Later, Base, Created

(* Who finds an occurrence due has one to create a task for. *)
LEMMA DueFacts ==
    ASSUME NEW c \in Never..MaxClock, NEW n \in 0..MaxClock, Due(c, n)
    PROVE  /\ \E o \in Later(c) : o <= n
           /\ ParseCron(expr, clock)
<1> DEFINE S == Scan(Base(c), expr)
<1>1. Base(c) \in Nat
  BY DEF Base, Created, Never
<1>2. /\ ParseCron(expr, clock) /\ nextCron(Base(c), expr) # NoTime
      /\ nextCron(Base(c), expr) <= n
  BY DEF Due, Upcoming, NextCron
<1>3. S # {} /\ nextCron(Base(c), expr) = Min(S)
  BY <1>2 DEF nextCron
<1>4. S \in SUBSET Nat
  BY <1>1 DEF Scan
<1>5. Min(S) \in S
  BY <1>3, <1>4, LeastFacts
<1>6. Min(S) \in 1..MaxClock /\ Matches(expr, Min(S)) /\ Min(S) > Base(c)
  BY <1>1, <1>2, <1>3, <1>5 DEF Scan
<1> QED  BY <1>2, <1>3, <1>6 DEF Later, Occurrences

(* A successful claim. *)
Claims(i) ==
    /\ pc[i] = "fire" /\ cursor = local[i].expected /\ Due(local[i].expected, local[i].now)
    /\ cursor' = local[i].now /\ pc' = [pc EXCEPT ![i] = "clone"] /\ UNCHANGED local

(* What a step does to what an instance holds. *)
LEMMA FireCases ==
    ASSUME NEW i \in Schedulers, Fire(i)
    PROVE  /\ Claims(i) \/ (Return(i) /\ UNCHANGED cursor)
           /\ UNCHANGED <<clock, expr, status, clones, covered, ghosts, failures, interrupts>>
BY DEF Fire, Claims, Claimable, Goto

(* The expression never changes, so its occurrences do not either. *)
LEMMA SameOccurrences ==
    ASSUME Next
    PROVE  expr' = expr /\ Occurrences' = Occurrences
<1>1. expr' = expr
  BY DEF Next, SchedulerNext, List, Fire, Clone, CloneFails, Rollback, Interrupt, Cancel, Tick
<1> QED  BY <1>1 DEF Occurrences

(* The types. *)
LEMMA TypeStep ==
    ASSUME TypeOK, Next, Windows
    PROVE  TypeOK'
<1>0. /\ clock \in 0..MaxClock /\ MaxClock \in Nat /\ failures \in Nat /\ interrupts \in Nat
      /\ ghosts \in Nat /\ cursor \in Never..clock
      /\ pc \in [Schedulers -> {"idle", "fire", "clone", "rollback"}]
      /\ local \in [Schedulers -> [expected : Int, now : Int]]
      /\ \A i \in Schedulers : local[i].expected \in Never..clock /\ local[i].now \in 0..clock
      /\ clones \in [1..MaxClock -> Nat] /\ Never = -1
  BY DEF TypeOK, Never
<1>1. \A i \in Schedulers, s \in {"idle", "fire", "clone", "rollback"} :
        [pc EXCEPT ![i] = s] \in [Schedulers -> {"idle", "fire", "clone", "rollback"}]
  BY <1>0
<1>2. ASSUME NEW i \in Schedulers, Return(i)
      PROVE  /\ pc' \in [Schedulers -> {"idle", "fire", "clone", "rollback"}]
             /\ local' \in [Schedulers -> [expected : Int, now : Int]]
             /\ \A k \in Schedulers : local'[k].expected \in Never..clock /\ local'[k].now \in 0..clock
  <2>1. Idle \in [expected : Int, now : Int] /\ Idle.expected \in Never..clock /\ Idle.now \in 0..clock
    BY <1>0 DEF Idle
  <2> QED  BY <1>0, <1>1, <1>2, <2>1 DEF Return, Goto
<1>3. ASSUME NEW i \in Schedulers, Handler(i), Inserted(i)
      PROVE  clones' \in [1..MaxClock -> Nat]
  <2>1. First(i) \in 1..MaxClock
    BY <1>0, <1>3, LaterFacts DEF Windows
  <2> QED  BY <1>0, <1>3, <2>1 DEF Inserted
<1>4. ASSUME NEW i \in Schedulers, List(i)
      PROVE  TypeOK'
  <2> DEFINE rec == [expected |-> cursor, now |-> clock]
  <2>1. rec \in [expected : Int, now : Int] /\ rec.expected \in Never..clock /\ rec.now \in 0..clock
    BY <1>0
  <2>2. /\ pc' = pc \/ pc' = [pc EXCEPT ![i] = "fire"]
        /\ local' = local \/ local' = [local EXCEPT ![i] = rec]
        /\ UNCHANGED <<clock, cursor, clones, ghosts, failures, interrupts>>
    BY <1>4 DEF List, Goto, history
  <2> HIDE DEF rec
  <2>3. /\ local' \in [Schedulers -> [expected : Int, now : Int]]
        /\ \A k \in Schedulers : local'[k] = local[k] \/ local'[k] = rec
    BY <1>0, <2>1, <2>2
  <2>4. \A k \in Schedulers : local'[k].expected \in Never..clock /\ local'[k].now \in 0..clock
    BY <1>0, <2>1, <2>3
  <2>5. pc' \in [Schedulers -> {"idle", "fire", "clone", "rollback"}]
    BY <1>0, <1>1, <2>2
  <2> QED  BY <1>0, <2>2, <2>3, <2>4, <2>5 DEF TypeOK
<1>5. ASSUME NEW i \in Schedulers, Fire(i)
      PROVE  TypeOK'
  <2>1. UNCHANGED <<clock, clones, ghosts, failures, interrupts>>
    BY <1>5, FireCases
  <2>2. CASE Claims(i)
    BY <1>0, <1>1, <2>1, <2>2 DEF Claims, TypeOK
  <2>3. CASE Return(i) /\ UNCHANGED cursor
    BY <1>0, <1>2, <2>1, <2>3 DEF TypeOK
  <2> QED  BY <1>5, <2>2, <2>3, FireCases
<1>6. ASSUME NEW i \in Schedulers, Clone(i) \/ Rollback(i) \/ Interrupt(i)
      PROVE  TypeOK'
  <2>1. /\ Return(i) /\ UNCHANGED <<clock, failures, ghosts>> /\ interrupts' \in Nat
        /\ cursor' = cursor \/ cursor' = local[i].expected
    BY <1>0, <1>6 DEF Clone, Rollback, Interrupt, history
  <2>2. clones' \in [1..MaxClock -> Nat]
    BY <1>0, <1>3, <1>6 DEF Clone, Rollback, Interrupt, Handler
  <2> QED  BY <1>0, <1>2, <2>1, <2>2 DEF TypeOK
<1>7. ASSUME NEW i \in Schedulers, CloneFails(i)
      PROVE  TypeOK'
  <2>1. /\ pc' = [pc EXCEPT ![i] = "rollback"] /\ UNCHANGED <<clock, local, cursor, interrupts>>
        /\ failures' \in Nat /\ ghosts' \in Nat
    BY <1>0, <1>7 DEF CloneFails, Goto
  <2>2. clones' \in [1..MaxClock -> Nat]
    BY <1>0, <1>3, <1>7 DEF CloneFails, Handler
  <2> QED  BY <1>0, <1>1, <2>1, <2>2 DEF TypeOK
<1>8. CASE Cancel
  BY <1>8 DEF Cancel, TypeOK, history
<1>9. CASE Tick
  <2>1. clock' \in 0..MaxClock /\ 0..clock \subseteq 0..clock' /\ Never..clock \subseteq Never..clock'
    BY <1>0, <1>9 DEF Tick
  <2> QED  BY <1>0, <1>9, <2>1 DEF Tick, TypeOK, history
<1> QED  BY <1>4, <1>5, <1>6, <1>7, <1>8, <1>9 DEF Next, SchedulerNext

(* Whoever claimed keeps its snapshot until it is done. *)
LEMMA HandlerStep ==
    ASSUME TypeOK, Next, NEW j \in Schedulers, Handler(j)'
    PROVE  local'[j] = local[j] /\ (Handler(j) \/ Claims(j))
<1>0. /\ pc \in [Schedulers -> {"idle", "fire", "clone", "rollback"}]
      /\ local \in [Schedulers -> [expected : Int, now : Int]]
  BY DEF TypeOK
<1>1. ASSUME NEW i \in Schedulers, Return(i)
      PROVE  local'[j] = local[j] /\ Handler(j)
  BY <1>0, <1>1 DEF Return, Goto, Handler
<1>2. ASSUME NEW i \in Schedulers, List(i)
      PROVE  local'[j] = local[j] /\ Handler(j)
  BY <1>0, <1>2 DEF List, Goto, Handler
<1>3. ASSUME NEW i \in Schedulers, Fire(i)
      PROVE  local'[j] = local[j] /\ (Handler(j) \/ Claims(j))
  <2>1. CASE Claims(i)
    BY <1>0, <2>1 DEF Claims, Handler
  <2> QED  BY <1>1, <1>3, <2>1, FireCases
<1>4. ASSUME NEW i \in Schedulers, CloneFails(i)
      PROVE  local'[j] = local[j] /\ Handler(j)
  BY <1>0, <1>4 DEF CloneFails, Goto, Handler
<1>5. CASE Cancel \/ Tick
  BY <1>5 DEF Cancel, Tick, Handler
<1> QED
  BY <1>1, <1>2, <1>3, <1>4, <1>5 DEF Next, SchedulerNext, Clone, Rollback, Interrupt

(* The first occurrence of a claim. *)
LEMMA WindowsStep ==
    ASSUME TypeOK, Windows, Next
    PROVE  Windows'
<1>0. /\ clock \in 0..MaxClock /\ MaxClock \in Nat /\ Never \in Int
      /\ \A i \in Schedulers : local[i].expected \in Never..clock /\ local[i].now \in 0..clock
  BY DEF TypeOK, Never
<1>1. Occurrences' = Occurrences
  BY SameOccurrences
<1> SUFFICES ASSUME NEW j \in Schedulers, Handler(j)'
             PROVE  /\ First(j)' \in Later(local[j].expected)' /\ First(j)' <= local'[j].now
                    /\ \A o \in Later(local[j].expected)' : First(j)' <= o
  BY DEF Windows
<1>2. local'[j] = local[j] /\ (Handler(j) \/ Claims(j))
  BY HandlerStep
<1>3. First(j)' = First(j) /\ Later(local[j].expected)' = Later(local[j].expected)
  BY <1>1, <1>2 DEF First, Later
<1>4. CASE Handler(j)
  BY <1>2, <1>3, <1>4 DEF Windows
<1>5. CASE Claims(j)
  <2>1. local[j].expected \in Never..MaxClock /\ local[j].now \in 0..MaxClock /\ local[j].expected \in Int
    BY <1>0
  <2>2. PICK p \in Later(local[j].expected) : p <= local[j].now
    BY <1>5, <2>1, DueFacts DEF Claims
  <2>3. Later(local[j].expected) \in SUBSET Nat
    BY <2>1, LaterFacts
  <2>4. First(j) \in Later(local[j].expected) /\ \A o \in Later(local[j].expected) : First(j) <= o
    BY <2>2, <2>3, LeastFacts DEF First
  <2> QED  BY <1>2, <1>3, <2>1, <2>2, <2>3, <2>4
<1> QED  BY <1>2, <1>4, <1>5

-----------------------------------------------------------------------------
(* A cursor with a next occurrence. *)

(* What an instance works from after a step. *)
LEMMA SnapshotStep ==
    ASSUME TypeOK, Next, NEW j \in Schedulers, pc'[j] # "idle"
    PROVE  \/ local'[j] = local[j] /\ pc[j] # "idle"
           \/ local'[j] = [expected |-> cursor, now |-> clock]
<1>0. /\ pc \in [Schedulers -> {"idle", "fire", "clone", "rollback"}]
      /\ local \in [Schedulers -> [expected : Int, now : Int]]
  BY DEF TypeOK
<1>1. ASSUME NEW i \in Schedulers, Return(i)
      PROVE  local'[j] = local[j] /\ pc[j] # "idle"
  BY <1>0, <1>1 DEF Return, Goto
<1>2. ASSUME NEW i \in Schedulers, List(i)
      PROVE  \/ local'[j] = local[j] /\ pc[j] # "idle"
             \/ local'[j] = [expected |-> cursor, now |-> clock]
  BY <1>0, <1>2 DEF List, Goto
<1>3. ASSUME NEW i \in Schedulers, Claims(i)
      PROVE  local'[j] = local[j] /\ pc[j] # "idle"
  BY <1>0, <1>3 DEF Claims
<1>4. ASSUME NEW i \in Schedulers, CloneFails(i)
      PROVE  local'[j] = local[j] /\ pc[j] # "idle"
  BY <1>0, <1>4 DEF CloneFails, Goto
<1>5. CASE Cancel \/ Tick
  BY <1>5 DEF Cancel, Tick
<1> QED
  BY <1>1, <1>2, <1>3, <1>4, <1>5, FireCases DEF Next, SchedulerNext, Clone, Rollback, Interrupt

(* Where the cursor goes. *)
LEMMA CursorStep ==
    ASSUME Next
    PROVE  \/ UNCHANGED cursor
           \/ \E i \in Schedulers : Claims(i) /\ Fire(i)
           \/ \E i \in Schedulers : Rollback(i)
<1>1. ASSUME NEW i \in Schedulers, Fire(i), ~UNCHANGED cursor
      PROVE  Claims(i) /\ Fire(i)
  BY <1>1, FireCases
<1> QED
  BY <1>1 DEF Next, SchedulerNext, List, Clone, CloneFails, Interrupt, Cancel, Tick

(* A claim moves the cursor forward. *)
LEMMA ClaimForward ==
    ASSUME TypeOK, NEW i \in Schedulers, Claims(i)
    PROVE  /\ Base(cursor) = Base(local[i].expected) /\ Base(cursor') = local[i].now
           /\ Base(cursor) < Base(cursor') /\ Base(cursor) \in Int /\ Base(cursor') \in Int
<1>0. /\ clock \in 0..MaxClock /\ MaxClock \in Nat /\ Never = -1
      /\ local[i].expected \in Never..clock /\ local[i].now \in 0..clock
  BY DEF TypeOK, Never
<1>1. /\ cursor = local[i].expected /\ cursor' = local[i].now
      /\ local[i].expected \in Never..MaxClock /\ local[i].now \in 0..MaxClock
      /\ Due(local[i].expected, local[i].now)
  BY <1>0 DEF Claims
<1>2. PICK o \in Later(local[i].expected) : o <= local[i].now
  BY <1>1, DueFacts
<1>3. o \in Int /\ o > Base(local[i].expected)
  BY <1>0, LaterFacts
<1>4. Base(cursor') = local[i].now /\ Base(cursor) \in Int
  BY <1>0, <1>1 DEF Base, Created
<1> QED  BY <1>0, <1>1, <1>2, <1>3, <1>4

(* The claim that moves the cursor saw an occurrence after it. *)
LEMMA SoundStep ==
    ASSUME TypeOK, Sound, Next
    PROVE  Sound'
<1>0. expr' = expr
  BY SameOccurrences
<1> DEFINE Good(t) == nextCron(t, expr) # NoTime
<1>1. ~slipped' => ~slipped
  <2>1. slipped' = slipped \/ \E i \in Schedulers : Fire(i)
    BY DEF Next, SchedulerNext, List, Clone, CloneFails, Rollback, Interrupt, Cancel, Tick, history
  <2>2. ASSUME NEW i \in Schedulers, Fire(i)
        PROVE  ~slipped' => ~slipped
    BY <2>2, Zenon DEF Fire
  <2> QED  BY <2>1, <2>2, Zenon
<1>2. ASSUME ~slipped
      PROVE  Good(Base(cursor)) /\ \A i \in Schedulers : pc[i] # "idle" => Good(Base(local[i].expected))
  BY <1>2 DEF Sound
<1>3. ASSUME ~slipped', NEW i \in Schedulers, Claims(i), Fire(i)
      PROVE  Good(Base(cursor'))
  <2>1. cursor' = clock
    <3>1. cursor' # cursor => slipped' = (slipped \/ clock # local[i].now)
      BY <1>3, Zenon DEF Fire
    <3>2. cursor' = local[i].now /\ local[i].now \in 0..clock /\ clock \in 0..MaxClock
      BY <1>3 DEF Claims, TypeOK
    <3>3. cursor' # cursor
      <4>1. Base(cursor) < Base(cursor') /\ Base(cursor) \in Int
        BY <1>3, ClaimForward
      <4> QED  BY <4>1
    <3>4. clock = local[i].now
      BY <1>3, <3>1, <3>3, Zenon
    <3> QED  BY <3>2, <3>4
  <2>2. ParseCron(expr, clock)
    <3>1. local[i].expected \in Never..MaxClock /\ local[i].now \in 0..MaxClock
      BY DEF TypeOK, Never
    <3> QED  BY <1>3, <3>1, DueFacts DEF Claims
  <2>3. Base(clock) = clock
    BY DEF TypeOK, Base, Never
  <2> QED  BY <2>1, <2>2, <2>3 DEF ParseCron
<1>4. ASSUME ~slipped'
      PROVE  Good(Base(cursor'))
  <2>1. ASSUME NEW i \in Schedulers, Rollback(i)
        PROVE  Good(Base(cursor'))
    <3>1. cursor' = local[i].expected /\ pc[i] # "idle"
      BY <2>1 DEF Rollback
    <3> QED  BY <1>1, <1>2, <1>4, <3>1
  <2> QED  BY <1>1, <1>2, <1>3, <1>4, <2>1, CursorStep
<1>5. ASSUME ~slipped', NEW j \in Schedulers, pc'[j] # "idle"
      PROVE  Good(Base(local'[j].expected))
  <2>1. \/ local'[j] = local[j] /\ pc[j] # "idle"
        \/ local'[j] = [expected |-> cursor, now |-> clock]
    BY <1>5, SnapshotStep
  <2> QED  BY <1>1, <1>2, <1>5, <2>1
<1> QED  BY <1>0, <1>4, <1>5 DEF Sound

-----------------------------------------------------------------------------
(* No occurrence is skipped. *)

(* Rollbacks. *)
LEMMA UndoableStep ==
    ASSUME TypeOK, Undoable, Next
    PROVE  Undoable'
<1>0. /\ failures \in Nat /\ \A i \in Schedulers : Base(local[i].expected) \in Int
      /\ Base(cursor) \in Int /\ pc \in [Schedulers -> {"idle", "fire", "clone", "rollback"}]
      /\ local \in [Schedulers -> [expected : Int, now : Int]]
  BY DEF TypeOK, Base, Created, Never
<1>1. ASSUME NEW i \in Schedulers, Claims(i), Fire(i)
      PROVE  Undoable'
  <2>1. /\ Base(cursor) = Base(local[i].expected) /\ Base(cursor) < Base(cursor') /\ Base(cursor') \in Int
        /\ UNCHANGED <<failures, local>> /\ pc' = [pc EXCEPT ![i] = "clone"]
    BY <1>1, ClaimForward, FireCases DEF Claims
  <2>2. \A j \in Schedulers : pc'[j] = IF j = i THEN "clone" ELSE pc[j]
    BY <1>0, <2>1
  <2>3. \A j \in Schedulers : Base(local[j].expected) <= Base(cursor)
                                => Base(local[j].expected) <= Base(cursor')
    BY <1>0, <2>1
  <2>4. Base(local[i].expected) <= Base(cursor')
    BY <1>0, <2>1
  <2> QED  BY <2>1, <2>2, <2>3, <2>4 DEF Undoable
<1>2. ASSUME NEW i \in Schedulers, Return(i), UNCHANGED <<cursor, failures>>
      PROVE  Undoable'
  <2>1. \A j \in Schedulers : pc'[j] = "idle" \/ (pc'[j] = pc[j] /\ local'[j] = local[j])
    BY <1>0, <1>2 DEF Return, Goto
  <2> QED  BY <1>2, <2>1 DEF Undoable
<1>3. ASSUME NEW i \in Schedulers, Rollback(i)
      PROVE  Undoable'
  <2>1. /\ pc[i] = "rollback" /\ UNCHANGED failures
        /\ \A j \in Schedulers : pc'[j] = "idle" \/ (j # i /\ pc'[j] = pc[j] /\ local'[j] = local[j])
    BY <1>0, <1>3 DEF Rollback, Return, Goto
  <2>2. failures # 0
    BY <2>1 DEF Undoable
  <2>3. failures <= 1 => \A j \in Schedulers : pc'[j] # "rollback"
    BY <2>1 DEF Undoable
  <2> QED  BY <2>1, <2>2, <2>3 DEF Undoable
<1>4. ASSUME NEW i \in Schedulers, List(i)
      PROVE  Undoable'
  <2>1. /\ UNCHANGED <<cursor, failures>>
        /\ \A j \in Schedulers : pc'[j] = "fire" \/ (pc'[j] = pc[j] /\ local'[j] = local[j])
    BY <1>0, <1>4 DEF List, Goto
  <2> QED  BY <2>1 DEF Undoable
<1>5. ASSUME NEW i \in Schedulers, CloneFails(i)
      PROVE  Undoable'
  <2>1. /\ pc[i] = "clone" /\ failures' = failures + 1 /\ UNCHANGED <<cursor, local>>
        /\ \A j \in Schedulers : pc'[j] = IF j = i THEN "rollback" ELSE pc[j]
    BY <1>0, <1>5 DEF CloneFails, Goto
  <2>2. failures' # 0 /\ (failures' <= 1 => failures = 0)
    BY <1>0, <2>1
  <2> QED  BY <2>1, <2>2 DEF Undoable
<1>6. CASE Cancel \/ Tick
  BY <1>6 DEF Cancel, Tick, Undoable
<1>7. ASSUME NEW i \in Schedulers, Fire(i)
      PROVE  Undoable'
  BY <1>1, <1>2, <1>7, FireCases
<1>8. ASSUME NEW i \in Schedulers, Clone(i) \/ Interrupt(i)
      PROVE  Undoable'
  BY <1>2, <1>8 DEF Clone, Interrupt
<1> QED  BY <1>3, <1>4, <1>5, <1>6, <1>7, <1>8 DEF Next, SchedulerNext

(* Everything behind the cursor is covered or claimed. *)
LEMMA PendingStep ==
    ASSUME TypeOK, Undoable, Pending, Next
    PROVE  Pending'
<1>0. /\ failures \in Nat /\ interrupts \in Nat /\ \A i \in Schedulers : Base(local[i].expected) \in Int
      /\ Base(cursor) \in Int /\ pc \in [Schedulers -> {"idle", "fire", "clone", "rollback"}]
      /\ local \in [Schedulers -> [expected : Int, now : Int]]
  BY DEF TypeOK, Base, Created, Never
<1>1. Occurrences' = Occurrences /\ Occurrences \in SUBSET Nat
  BY SameOccurrences DEF Occurrences
<1> DEFINE In(o, i) == Handler(i) /\ Base(local[i].expected) < o /\ o <= local[i].now
<1>2. ASSUME UNCHANGED <<cursor, covered, failures, interrupts>>,
             \A i \in Schedulers : Handler(i) => Handler(i)' /\ local'[i] = local[i]
      PROVE  Pending'
  BY <1>1, <1>2 DEF Pending
<1>3. CASE Cancel \/ Tick
  <2>1. UNCHANGED <<cursor, covered, failures, interrupts, pc, local>>
    BY <1>3 DEF Cancel, Tick
  <2> QED  BY <1>2, <2>1 DEF Handler
<1>4. ASSUME NEW i \in Schedulers, List(i)
      PROVE  Pending'
  <2>1. \A j \in Schedulers : Handler(j) => pc'[j] = pc[j] /\ local'[j] = local[j]
    BY <1>0, <1>4 DEF List, Goto, Handler
  <2>2. UNCHANGED <<cursor, covered, failures, interrupts>>
    BY <1>4 DEF List
  <2> QED  BY <1>2, <2>1, <2>2 DEF Handler
<1>5. ASSUME NEW i \in Schedulers, Claims(i), Fire(i)
      PROVE  Pending'
  <2>1. /\ Base(cursor) = Base(local[i].expected) /\ Base(cursor') = local[i].now
        /\ Base(cursor) < Base(cursor') /\ Base(cursor') \in Int
        /\ UNCHANGED <<failures, interrupts, covered, local>> /\ pc' = [pc EXCEPT ![i] = "clone"]
    BY <1>5, ClaimForward, FireCases DEF Claims
  <2>2. Handler(i)' /\ \A j \in Schedulers : Handler(j) => Handler(j)'
    BY <1>0, <2>1 DEF Handler
  <2>3. \A o \in Occurrences : o <= Base(cursor') =>
          o <= Base(cursor) \/ (Base(local'[i].expected) < o /\ o <= local'[i].now)
    BY <1>0, <1>1, <2>1
  <2> QED  BY <1>1, <2>1, <2>2, <2>3 DEF Pending
<1>6. ASSUME NEW i \in Schedulers, Return(i), ~Handler(i),
             UNCHANGED <<cursor, covered, failures, interrupts>>
      PROVE  Pending'
  <2>1. \A j \in Schedulers : Handler(j) => pc'[j] = pc[j] /\ local'[j] = local[j]
    BY <1>0, <1>6 DEF Return, Goto, Handler
  <2> QED  BY <1>2, <1>6, <2>1 DEF Handler
<1>7. ASSUME NEW i \in Schedulers, Clone(i)
      PROVE  Pending'
  <2>1. /\ UNCHANGED <<cursor, failures, interrupts>>
        /\ covered' = covered \cup {o \in Later(local[i].expected) : o <= local[i].now}
    BY <1>7 DEF Clone, Inserted
  <2>2. \A j \in Schedulers \ {i} : Handler(j) => Handler(j)' /\ local'[j] = local[j]
    BY <1>0, <1>7 DEF Clone, Return, Goto, Handler
  <2>3. \A o \in Occurrences : In(o, i) => o \in covered'
    BY <2>1 DEF Later
  <2> QED  BY <1>1, <2>1, <2>2, <2>3 DEF Pending
<1>8. ASSUME NEW i \in Schedulers, CloneFails(i)
      PROVE  Pending'
  <2>1. /\ UNCHANGED <<cursor, interrupts, local>> /\ covered \subseteq covered'
        /\ failures' <= 1 => failures <= 1
    BY <1>0, <1>8 DEF CloneFails, Inserted
  <2>2. \A j \in Schedulers : Handler(j) => Handler(j)'
    BY <1>0, <1>8 DEF CloneFails, Goto, Handler
  <2> QED  BY <1>1, <2>1, <2>2 DEF Pending
<1>9. ASSUME NEW i \in Schedulers, Rollback(i)
      PROVE  Pending'
  <2>1. /\ UNCHANGED <<failures, interrupts, covered>> /\ cursor' = local[i].expected
        /\ pc[i] = "rollback"
    BY <1>9 DEF Rollback
  <2>2. \A j \in Schedulers \ {i} : Handler(j) => Handler(j)' /\ local'[j] = local[j]
    BY <1>0, <1>9 DEF Rollback, Return, Goto, Handler
  <2>3. failures <= 1 => Base(cursor') <= Base(cursor) /\ Base(cursor') \in Int
    BY <1>0, <2>1 DEF Undoable
  <2>4. \A o \in Occurrences : o <= Base(cursor') => ~In(o, i)
    BY <1>0, <1>1, <2>1
  <2>5. failures <= 1 => \A o \in Occurrences : o <= Base(cursor') => o <= Base(cursor)
    BY <1>0, <1>1, <2>3
  <2> QED  BY <1>1, <2>1, <2>2, <2>4, <2>5 DEF Pending
<1>10. ASSUME NEW i \in Schedulers, Interrupt(i)
       PROVE  Pending'
  BY <1>0, <1>10 DEF Interrupt, Pending
<1>11. ASSUME NEW i \in Schedulers, Fire(i)
       PROVE  Pending'
  <2>1. ~Handler(i)
    BY <1>11 DEF Fire, Handler
  <2> QED  BY <1>5, <1>6, <1>11, <2>1, FireCases
<1> QED
  BY <1>3, <1>4, <1>7, <1>8, <1>9, <1>10, <1>11 DEF Next, SchedulerNext

-----------------------------------------------------------------------------
(* No occurrence has two tasks. *)

(* An occurrence no claim would create a task for stays so, as long as the  *)
(* cursor does not move or a rollback brings back one that was counted.    *)
LEMMA UnclaimableKept ==
    ASSUME NEW o, NEW mine, o <= clock, Unclaimable(o, mine), Occurrences' = Occurrences,
           \A k \in Schedulers : pc'[k] = "fire" =>
               (pc[k] = "fire" /\ local'[k] = local[k]) \/ local'[k].now = clock,
           \A k \in Schedulers : Handler(k)' => Handler(k) /\ local'[k] = local[k],
           \/ cursor' = cursor
           \/ \E i \in Schedulers \ mine : Handler(i) /\ cursor' = local[i].expected
    PROVE  Unclaimable(o, mine)'
<1> DEFINE PassedNext(b) ==
        o \in Later(b) =>
            /\ \E p \in Later(b) : p < o
            /\ \A k \in Schedulers : pc'[k] = "fire" /\ local'[k].expected = b => o <= local'[k].now
<1>1. \A b : Passed(b, o) => PassedNext(b)
  BY DEF Passed
<1>2. PassedNext(cursor')
  BY <1>1 DEF Unclaimable
<1>3. \A j \in Schedulers \ mine : Handler(j)' => PassedNext(local'[j].expected)
  BY <1>1 DEF Unclaimable
<1>4. Passed(cursor, o)'
  BY <1>2 DEF Passed, Later
<1>5. \A j \in Schedulers \ mine : Handler(j)' => Passed(local[j].expected, o)'
  BY <1>3 DEF Passed, Later
<1> QED  BY <1>4, <1>5 DEF Unclaimable

(* So it does when an instance claims: it puts the cursor past it. *)
LEMMA UnclaimableClaim ==
    ASSUME TypeOK, NEW o \in Occurrences, NEW mine, Unclaimable(o, mine), Occurrences' = Occurrences,
           NEW i \in Schedulers, Claims(i)
    PROVE  Unclaimable(o, mine)'
<1>0. /\ pc \in [Schedulers -> {"idle", "fire", "clone", "rollback"}]
      /\ Occurrences \in SUBSET Nat
  BY DEF TypeOK, Occurrences
<1> DEFINE PassedNext(b) ==
        o \in Later(b) =>
            /\ \E p \in Later(b) : p < o
            /\ \A k \in Schedulers : pc'[k] = "fire" /\ local'[k].expected = b => o <= local'[k].now
<1>1. /\ pc[i] = "fire" /\ cursor = local[i].expected /\ cursor' = local[i].now /\ local' = local
      /\ pc' = [pc EXCEPT ![i] = "clone"]
  BY DEF Claims
<1>2. \A k \in Schedulers : pc'[k] = IF k = i THEN "clone" ELSE pc[k]
  BY <1>0, <1>1
<1>3. \A b : Passed(b, o) => PassedNext(b)
  BY <1>1, <1>2 DEF Passed
<1>4. o \notin Later(cursor')
  <2> SUFFICES ASSUME o \in Later(cursor')
               PROVE  FALSE
    OBVIOUS
  <2>1. Base(cursor) < Base(cursor') /\ Base(cursor) \in Int /\ Base(cursor') \in Int
        /\ Base(cursor') = local[i].now
    BY ClaimForward
  <2>2. o > Base(cursor') /\ o \in Int
    BY <1>0 DEF Later
  <2>3. o \in Later(cursor)
    BY <2>1, <2>2 DEF Later
  <2>4. o <= local[i].now
    BY <1>1, <2>3 DEF Unclaimable, Passed
  <2> QED  BY <2>1, <2>2, <2>4
<1>5. PassedNext(cursor')
  BY <1>4
<1>6. \A j \in Schedulers \ mine : Handler(j)' => PassedNext(local'[j].expected)
  <2> SUFFICES ASSUME NEW j \in Schedulers \ mine, Handler(j)'
               PROVE  PassedNext(local'[j].expected)
    OBVIOUS
  <2>1. CASE j = i
    BY <1>1, <1>3, <2>1 DEF Unclaimable
  <2>2. CASE j # i
    <3>1. Handler(j)
      BY <1>2, <2>2 DEF Handler
    <3> QED  BY <1>1, <1>3, <3>1 DEF Unclaimable
  <2> QED  BY <2>1, <2>2
<1>7. Passed(cursor, o)'
  BY <1>5 DEF Passed, Later
<1>8. \A j \in Schedulers \ mine : Handler(j)' => Passed(local[j].expected, o)'
  BY <1>6 DEF Passed, Later
<1> QED  BY <1>7, <1>8 DEF Unclaimable

\* One database serves at most two instances.
AtMostTwo == \A i, j, k \in Schedulers : i = j \/ j = k \/ i = k

(* The occurrence an instance claims is nobody else's. *)
LEMMA OwnClaim ==
    ASSUME AtMostTwo, TypeOK, Windows, Windows', OnceEach, Occurrences' = Occurrences,
           NEW i \in Schedulers, Claims(i), NEW o, o = First(i)
    PROVE  Unclaimable(o, {i})'
<1>0. /\ pc \in [Schedulers -> {"idle", "fire", "clone", "rollback"}]
      /\ Occurrences \in SUBSET Nat
  BY DEF TypeOK, Occurrences
<1>1. /\ pc[i] = "fire" /\ cursor = local[i].expected /\ cursor' = local[i].now /\ local' = local
      /\ pc' = [pc EXCEPT ![i] = "clone"]
  BY DEF Claims
<1>2. \A k \in Schedulers : pc'[k] = IF k = i THEN "clone" ELSE pc[k]
  BY <1>0, <1>1
<1>3. /\ o \in Later(cursor) /\ o <= local[i].now /\ \A p \in Later(cursor) : o <= p
  <2>1. Handler(i)'
    BY <1>2 DEF Handler
  <2>2. First(i)' = First(i) /\ Later(local[i].expected)' = Later(local[i].expected)
    BY <1>1 DEF First, Later
  <2> QED  BY <1>1, <2>1, <2>2 DEF Windows
<1>4. o \in Nat /\ o > Base(cursor) /\ Base(cursor) \in Int /\ Base(cursor') = local[i].now
      /\ Base(cursor') \in Int
  BY <1>0, <1>3, ClaimForward DEF Later
<1>5. o \notin Later(cursor')
  BY <1>3, <1>4 DEF Later
<1>6. Passed(cursor, o)'
  BY <1>5 DEF Passed, Later
<1>7. ASSUME NEW j \in Schedulers \ {i}, Handler(j)', o \in Later(local[j].expected)
      PROVE  \E p \in Later(local[j].expected) : p < o
  <2>1. Handler(j)
    BY <1>2, <1>7 DEF Handler
  <2>2. /\ First(j) \in Later(local[j].expected) /\ First(j) <= o
        /\ First(j) \in Occurrences /\ First(j) \in Nat
    BY <1>0, <1>7, <2>1 DEF Windows, Later
  <2>3. CASE First(j) \in Later(cursor)
    <3>1. PICK p \in Later(cursor) : p < First(j)
      BY <2>1, <2>3 DEF OnceEach, Unclaimable, Passed
    <3>2. o <= p /\ p \in Nat
      BY <1>0, <1>3 DEF Later
    <3> QED  BY <1>4, <2>2, <3>1, <3>2
  <2>4. CASE First(j) \notin Later(cursor)
    <3>1. First(j) < o
      BY <1>4, <2>2, <2>4 DEF Later
    <3> QED  BY <2>2, <3>1
  <2> QED  BY <2>3, <2>4
<1>8. ASSUME NEW j \in Schedulers \ {i}, Handler(j)', NEW k \in Schedulers
      PROVE  pc'[k] # "fire"
  <2>1. k = i \/ k = j
    BY <1>8 DEF AtMostTwo
  <2> QED  BY <1>2, <1>8, <2>1 DEF Handler
<1>9. ASSUME NEW j \in Schedulers \ {i}, Handler(j)'
      PROVE  Passed(local[j].expected, o)'
  <2>1. Later(local[j].expected)' = Later(local[j].expected)
    BY <1>1 DEF Later
  <2>2. o \in Later(local[j].expected)' => \E p \in Later(local[j].expected)' : p < o
    BY <1>7, <1>9, <2>1
  <2>3. \A k \in Schedulers : pc'[k] # "fire"
    BY <1>8, <1>9
  <2> QED  BY <2>2, <2>3 DEF Passed
<1> QED  BY <1>6, <1>9 DEF Unclaimable

(* Who is about to claim, after a step that claims nothing. *)
LEMMA CalmStep ==
    ASSUME TypeOK, Next, \A i \in Schedulers : ~Claims(i)
    PROVE  /\ \A k \in Schedulers : pc'[k] = "fire" =>
                 (pc[k] = "fire" /\ local'[k] = local[k]) \/ local'[k].now = clock
           /\ \A k \in Schedulers : Handler(k)' => Handler(k) /\ local'[k] = local[k]
           /\ cursor' = cursor \/ \E i \in Schedulers : /\ Handler(i) /\ cursor' = local[i].expected
                                                       /\ ~Handler(i)'
<1>0. /\ pc \in [Schedulers -> {"idle", "fire", "clone", "rollback"}]
      /\ local \in [Schedulers -> [expected : Int, now : Int]]
  BY DEF TypeOK
<1>1. ASSUME NEW k \in Schedulers, pc'[k] = "fire"
      PROVE  (pc[k] = "fire" /\ local'[k] = local[k]) \/ local'[k].now = clock
  <2>1. ASSUME NEW i \in Schedulers, Return(i)
        PROVE  pc[k] = "fire" /\ local'[k] = local[k]
    BY <1>0, <1>1, <2>1 DEF Return, Goto
  <2>2. ASSUME NEW i \in Schedulers, List(i)
        PROVE  (pc[k] = "fire" /\ local'[k] = local[k]) \/ local'[k].now = clock
    BY <1>0, <1>1, <2>2 DEF List, Goto
  <2>3. ASSUME NEW i \in Schedulers, CloneFails(i)
        PROVE  pc[k] = "fire" /\ local'[k] = local[k]
    BY <1>0, <1>1, <2>3 DEF CloneFails, Goto
  <2>4. CASE Cancel \/ Tick
    BY <1>1, <2>4 DEF Cancel, Tick
  <2> QED
    BY <2>1, <2>2, <2>3, <2>4, FireCases DEF Next, SchedulerNext, Clone, Rollback, Interrupt
<1>2. \A k \in Schedulers : Handler(k)' => Handler(k) /\ local'[k] = local[k]
  BY HandlerStep
<1>3. ASSUME NEW i \in Schedulers, Rollback(i)
      PROVE  Handler(i) /\ cursor' = local[i].expected /\ ~Handler(i)'
  BY <1>0, <1>3 DEF Rollback, Return, Goto, Handler
<1> QED  BY <1>1, <1>2, <1>3, CursorStep

(* A task is created for an occurrence that had none. *)
LEMMA InsertOnce ==
    ASSUME TypeOK, Windows, OnceEach, NEW i \in Schedulers, Handler(i)
    PROVE  First(i) \in Occurrences /\ ~Done(First(i)) /\ First(i) <= clock
<1>1. /\ First(i) \in Later(local[i].expected) /\ First(i) <= local[i].now
      /\ \A o \in Later(local[i].expected) : First(i) <= o
  BY DEF Windows
<1>2. /\ First(i) \in Occurrences /\ First(i) \in Nat /\ Occurrences \in SUBSET Nat
      /\ local[i].now \in Int /\ local[i].now <= clock /\ clock \in Int
  BY <1>1 DEF Later, Occurrences, TypeOK
<1>3. ~Done(First(i))
  <2> SUFFICES ASSUME Done(First(i))
               PROVE  FALSE
    OBVIOUS
  <2>1. Passed(local[i].expected, First(i))
    BY <1>2 DEF OnceEach, Unclaimable
  <2>2. PICK p \in Later(local[i].expected) : p < First(i)
    BY <1>1, <2>1 DEF Passed
  <2> QED  BY <1>1, <1>2, <2>2 DEF Later
<1> QED  BY <1>1, <1>2, <1>3

(* The clones after a step. *)
LEMMA ClonesStep ==
    ASSUME TypeOK, Windows, AtMostOnce, OnceEach, Next
    PROVE  /\ \A o \in Occurrences : clones'[o] <= 1 + ghosts'
           /\ \A o \in Occurrences : Done(o)' =>
                 Done(o) \/ \E i \in Schedulers : Handler(i) /\ ~Handler(i)' /\ o = First(i)
<1>0. /\ clones \in [1..MaxClock -> Nat] /\ ghosts \in Nat /\ Occurrences \subseteq 1..MaxClock
      /\ pc \in [Schedulers -> {"idle", "fire", "clone", "rollback"}]
  BY DEF TypeOK, Occurrences
<1>1. CASE UNCHANGED <<clones, ghosts>>
  BY <1>1 DEF AtMostOnce, Done
<1>2. ASSUME NEW i \in Schedulers, Handler(i), Inserted(i)
      PROVE  /\ First(i) \in Occurrences /\ ~(clones[First(i)] > ghosts)
             /\ \A o \in Occurrences : clones'[o] = IF o = First(i) THEN clones[o] + 1 ELSE clones[o]
  <2>1. First(i) \in Occurrences /\ ~Done(First(i))
    BY <1>2, InsertOnce
  <2>2. clones' = [clones EXCEPT ![First(i)] = clones[First(i)] + 1]
    BY <1>2 DEF Inserted
  <2> QED  BY <1>0, <2>1, <2>2 DEF Done
<1>3. ASSUME NEW i \in Schedulers, Clone(i)
      PROVE  /\ \A o \in Occurrences : clones'[o] <= 1 + ghosts'
             /\ \A o \in Occurrences : Done(o)' =>
                   Done(o) \/ \E h \in Schedulers : Handler(h) /\ ~Handler(h)' /\ o = First(h)
  <2>1. Handler(i) /\ Inserted(i) /\ ghosts' = ghosts /\ ~Handler(i)'
    BY <1>0, <1>3 DEF Clone, Return, Goto, Handler, history
  <2>2. \A o \in Occurrences : clones[o] \in Nat /\ clones[o] <= 1 + ghosts
    BY <1>0 DEF AtMostOnce
  <2>3. \A o \in Occurrences : clones'[o] = IF o = First(i) THEN clones[o] + 1 ELSE clones[o]
    BY <1>2, <2>1
  <2>4. ~(clones[First(i)] > ghosts) /\ First(i) \in Occurrences
    BY <1>2, <2>1
  <2>5. \A o \in Occurrences : clones'[o] <= 1 + ghosts'
    BY <1>0, <2>1, <2>2, <2>3, <2>4
  <2>6. \A o \in Occurrences : o # First(i) /\ Done(o)' => Done(o)
    BY <2>1, <2>3 DEF Done
  <2> QED  BY <2>1, <2>5, <2>6
<1>4. ASSUME NEW i \in Schedulers, CloneFails(i), ~UNCHANGED <<clones, ghosts>>
      PROVE  /\ \A o \in Occurrences : clones'[o] <= 1 + ghosts'
             /\ \A o \in Occurrences : Done(o)' => Done(o)
  <2>1. Handler(i) /\ Inserted(i) /\ ghosts' = ghosts + 1
    BY <1>4 DEF CloneFails, Handler
  <2>2. \A o \in Occurrences : clones[o] \in Nat /\ clones[o] <= 1 + ghosts
    BY <1>0 DEF AtMostOnce
  <2>3. \A o \in Occurrences : clones'[o] = IF o = First(i) THEN clones[o] + 1 ELSE clones[o]
    BY <1>2, <2>1
  <2>4. \A o \in Occurrences : clones'[o] <= 1 + ghosts'
    BY <1>0, <2>1, <2>2, <2>3
  <2>5. \A o \in Occurrences : clones'[o] > ghosts' => clones[o] > ghosts
    BY <1>0, <2>1, <2>2, <2>3
  <2> QED  BY <2>4, <2>5 DEF Done
<1>5. \/ UNCHANGED <<clones, ghosts>>
      \/ \E i \in Schedulers : Clone(i)
      \/ \E i \in Schedulers : CloneFails(i)
  BY DEF Next, SchedulerNext, List, Fire, Rollback, Interrupt, Cancel, Tick, history
<1> QED  BY <1>1, <1>3, <1>4, <1>5

(* Each occurrence once. *)
LEMMA OnceStep ==
    ASSUME AtMostTwo, TypeOK, Windows, AtMostOnce, OnceEach, Next
    PROVE  AtMostOnce' /\ OnceEach'
<1>0. /\ Occurrences' = Occurrences /\ Occurrences \in SUBSET Nat
      /\ clock \in Nat /\ clock' \in Nat /\ clock <= clock'
  <2>1. clock' = clock \/ clock' = clock + 1
    BY DEF Next, SchedulerNext, List, Fire, Clone, CloneFails, Rollback, Interrupt, Cancel, Tick
  <2>2. clock \in Nat
    BY DEF TypeOK
  <2> QED  BY <2>1, <2>2, SameOccurrences DEF Occurrences
<1>1. /\ \A o \in Occurrences : clones'[o] <= 1 + ghosts'
      /\ \A o \in Occurrences : Done(o)' =>
            Done(o) \/ \E i \in Schedulers : Handler(i) /\ ~Handler(i)' /\ o = First(i)
  BY ClonesStep
<1>2. ASSUME NEW o \in Occurrences, NEW mine \in SUBSET Schedulers, o <= clock,
             Unclaimable(o, mine), \A i \in mine : Handler(i)' \/ ~Handler(i) \/ cursor' = cursor
      PROVE  Unclaimable(o, mine)'
  <2>1. ASSUME NEW i \in Schedulers, Claims(i)
        PROVE  Unclaimable(o, mine)'
    BY <1>0, <1>2, <2>1, UnclaimableClaim
  <2>2. CASE \A i \in Schedulers : ~Claims(i)
    <3>1. /\ \A k \in Schedulers : pc'[k] = "fire" =>
                (pc[k] = "fire" /\ local'[k] = local[k]) \/ local'[k].now = clock
          /\ \A k \in Schedulers : Handler(k)' => Handler(k) /\ local'[k] = local[k]
          /\ cursor' = cursor \/ \E i \in Schedulers : /\ Handler(i) /\ cursor' = local[i].expected
                                                      /\ ~Handler(i)'
      BY <2>2, CalmStep
    <3>2. \/ cursor' = cursor
          \/ \E i \in Schedulers \ mine : Handler(i) /\ cursor' = local[i].expected
      BY <1>2, <3>1
    <3> QED  BY <1>0, <1>2, <3>1, <3>2, UnclaimableKept
  <2> QED  BY <2>1, <2>2
<1>3. ASSUME NEW o \in Occurrences, Done(o)'
      PROVE  o <= clock' /\ Unclaimable(o, {})'
  <2>1. CASE Done(o)
    <3>1. o <= clock /\ Unclaimable(o, {})
      BY <2>1 DEF OnceEach
    <3> QED  BY <1>0, <1>2, <3>1
  <2>2. ASSUME NEW i \in Schedulers, Handler(i), ~Handler(i)', o = First(i), ~Done(o)
        PROVE  o <= clock' /\ Unclaimable(o, {})'
    <3>1. o <= clock /\ Unclaimable(o, {i})
      BY <2>2, InsertOnce DEF OnceEach
    <3>2. cursor' = cursor
      <4>1. ~(\E k \in Schedulers : Rollback(k)) /\ ~(\E k \in Schedulers : Fire(k))
        <5>1. clones' = clones /\ ghosts' = ghosts => (Done(o)' => Done(o))
          BY DEF Done
        <5>2. ~(clones' = clones /\ ghosts' = ghosts)
          BY <1>3, <2>2, <5>1
        <5> QED  BY <5>2 DEF Rollback, Fire, history
      <4> QED  BY <4>1, CursorStep
    <3>3. Unclaimable(o, {i})'
      BY <1>2, <3>1, <3>2
    <3>4. Unclaimable(o, {})'
      BY <2>2, <3>3 DEF Unclaimable
    <3> QED  BY <1>0, <3>1, <3>4
  <2> QED  BY <1>1, <1>3, <2>1, <2>2
<1>4. ASSUME NEW j \in Schedulers, Handler(j)'
      PROVE  Unclaimable(First(j), {j})'
  <2>1. local'[j] = local[j] /\ (Handler(j) \/ Claims(j))
    BY <1>4, HandlerStep
  <2>2. First(j)' = First(j)
    BY <1>0, <2>1 DEF First, Later
  <2>3. PICK o : o = First(j)
    OBVIOUS
  <2>4. Unclaimable(o, {j})'
    <3>1. CASE Handler(j)
      <4>1. o \in Occurrences /\ o <= clock /\ Unclaimable(o, {j})
        BY <2>3, <3>1, InsertOnce DEF OnceEach
      <4> QED  BY <1>2, <1>4, <4>1
    <3>2. CASE Claims(j)
      BY <1>0, <2>3, <3>2, WindowsStep, OwnClaim
    <3> QED  BY <2>1, <3>1, <3>2
  <2> QED  BY <2>2, <2>3, <2>4 DEF Unclaimable, Passed
<1>5. AtMostOnce'
  BY <1>0, <1>1 DEF AtMostOnce
<1> QED  BY <1>0, <1>3, <1>4, <1>5 DEF OnceEach

-----------------------------------------------------------------------------
(* The theorems. *)

IInv == TypeOK /\ Windows /\ Sound /\ Undoable /\ Pending

(* A new template. *)
LEMMA InitHolds ==
    ASSUME Init
    PROVE  IInv /\ AtMostOnce /\ OnceEach
<1>0. /\ clock = 0 /\ cursor = -1 /\ ghosts = 0 /\ failures = 0 /\ interrupts = 0
      /\ pc = [i \in Schedulers |-> "idle"] /\ local = [i \in Schedulers |-> Idle]
      /\ clones = [o \in 1..MaxClock |-> 0] /\ Base(cursor) = 0
  BY DEF Init, Created, Never, Base
<1>1. \A i \in Schedulers : pc[i] = "idle" /\ local[i] = Idle /\ ~Handler(i)
  BY <1>0 DEF Handler
<1>2. Idle \in [expected : Int, now : Int] /\ Idle.expected = -1 /\ Idle.now = 0
  BY DEF Idle, Never
<1>3. TypeOK
  BY <1>0, <1>1, <1>2 DEF TypeOK, Never
<1>4. nextCron(Base(cursor), expr) # NoTime
  <2>1. ParseCron(expr, 0)
    BY DEF Init, Created
  <2> QED  BY <1>0, <2>1 DEF ParseCron
<1>5. Windows /\ Sound /\ Undoable
  BY <1>1, <1>4 DEF Windows, Sound, Undoable
<1>6. Occurrences \subseteq 1..MaxClock
  BY DEF Occurrences
<1>7. Pending
  BY <1>0, <1>6 DEF Pending
<1>8. \A o \in Occurrences : clones[o] = 0
  BY <1>0, <1>6
<1>9. AtMostOnce /\ OnceEach
  BY <1>0, <1>1, <1>8 DEF AtMostOnce, OnceEach, Done
<1> QED  BY <1>3, <1>5, <1>7, <1>9 DEF IInv

(* Stuttering. *)
LEMMA StutterHolds ==
    ASSUME UNCHANGED vars
    PROVE  /\ IInv => IInv'
           /\ AtMostOnce /\ OnceEach => AtMostOnce' /\ OnceEach'
<1>1. UNCHANGED <<clock, expr, cursor, pc, local, clones, covered, ghosts, slipped, failures, interrupts>>
  BY DEF vars, history
<1>2. Occurrences' = Occurrences
  BY <1>1 DEF Occurrences
<1>3. TypeOK /\ Windows => TypeOK' /\ Windows'
  BY <1>1, <1>2 DEF TypeOK, Windows, Handler, First, Later
<1>4. Sound /\ Undoable /\ Pending => Sound' /\ Undoable' /\ Pending'
  BY <1>1, <1>2 DEF Sound, Undoable, Pending, Handler
<1>5. AtMostOnce /\ OnceEach => AtMostOnce' /\ OnceEach'
  BY <1>1, <1>2 DEF AtMostOnce, OnceEach, Done, Unclaimable, Passed, Handler, First, Later
<1> QED  BY <1>3, <1>4, <1>5 DEF IInv

(* The inductive invariant: a claim always has an occurrence to create a    *)
(* task for, every cursor in use has a next occurrence, and what is behind  *)
(* the cursor has its task or lies in a claim.                             *)
THEOREM Invariant == Spec => []IInv
<1>1. Init => IInv
  BY InitHolds
<1>2. IInv /\ [Next]_vars => IInv'
  <2>1. ASSUME IInv, Next
        PROVE  IInv'
    BY <2>1, TypeStep, WindowsStep, SoundStep, UndoableStep, PendingStep DEF IInv
  <2> QED  BY <2>1, StutterHolds
<1> QED  BY <1>1, <1>2, PTL DEF Spec

(* A template never stops for lack of a next occurrence, as long as no      *)
(* claim is made after the clock has moved on.                             *)
THEOREM TemplatesGoOn == Spec => []NextFound
<1>1. IInv => NextFound
  BY DEF IInv, Sound, NextFound
<1> QED  BY <1>1, Invariant, PTL

(* With at most one failed INSERT and no interruption no occurrence is      *)
(* skipped, whatever the number of instances.                              *)
THEOREM FailedClonesAreRetried == Spec => []NoneSkipped
<1>1. IInv => NoneSkipped
  BY DEF IInv, Pending, NoneSkipped, Accounted, Handling
<1> QED  BY <1>1, Invariant, PTL

(* Two instances over one database never create two tasks for one           *)
(* occurrence, however often an INSERT fails or an instance is interrupted, *)
(* but for those whose INSERT reported an error and took effect.           *)
THEOREM OneTaskPerOccurrence ==
    ASSUME AtMostTwo
    PROVE  Spec => []AtMostOnce
<1> DEFINE Both == IInv /\ AtMostOnce /\ OnceEach
<1>1. Init => Both
  BY InitHolds
<1>2. Both /\ [Next]_vars => Both'
  <2>1. ASSUME Both, Next
        PROVE  Both'
    BY <2>1, TypeStep, WindowsStep, SoundStep, UndoableStep, PendingStep, OnceStep DEF IInv
  <2> QED  BY <2>1, StutterHolds
<1>3. Both => AtMostOnce
  OBVIOUS
<1> QED  BY <1>1, <1>2, <1>3, PTL DEF Spec

=============================================================================
