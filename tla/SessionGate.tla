----------------------------- MODULE SessionGate -----------------------------
(***************************************************************************)
(* The per-session gates of the worker pool (runClaimed, hold and release  *)
(* in internal/tasks/executor.go).  A gate is an object found through a    *)
(* map, counted by its holders and dropped from the map by the last one.   *)
(* hold and release run under gateMu, so each is one step; locking and     *)
(* unlocking g.mu are steps of their own.  A panic in execute runs the     *)
(* same deferred calls.                                                    *)
(***************************************************************************)
EXTENDS Integers, FiniteSets

CONSTANTS Workers, NoWorker, Sessions, NoSession,
          Gates, NoGate     \* addresses of sessionGate objects, nil

ASSUME GateAssumption ==
    /\ NoWorker \notin Workers
    /\ NoSession \notin Sessions
    /\ NoGate \notin Gates
    /\ IsFiniteSet(Workers)

VARIABLES gates,    \* Executor.gates
          object,   \* the sessionGate at each address
          pc,       \* where each worker is in runClaimed
          session,  \* t.SessionID
          held      \* g, the gate hold returned

vars == <<gates, object, pc, session, held>>

Gate == [sessionID : Sessions \cup {NoSession},
         mu : Workers \cup {NoWorker}, holders : Int]

NewGate(s) == [sessionID |-> s, mu |-> NoWorker, holders |-> 0]

Init ==
    /\ gates = [s \in Sessions |-> NoGate]
    /\ object = [g \in Gates |-> NewGate(NoSession)]
    /\ pc = [w \in Workers |-> "idle"]
    /\ session = [w \in Workers |-> NoSession]
    /\ held = [w \in Workers |-> NoGate]

\* An allocation returns an address nothing refers to, possibly a used one.
Unreferenced(g) ==
    /\ \A s \in Sessions : gates[s] # g
    /\ \A w \in Workers : held[w] # g

-----------------------------------------------------------------------------
\* hold: find the gate of s or create it, and count one more holder.
Enter(w, s, g) ==
    /\ object' = IF gates[s] = NoGate
                 THEN [object EXCEPT ![g] = [NewGate(s) EXCEPT !.holders = 1]]
                 ELSE [object EXCEPT ![g].holders = @ + 1]
    /\ gates' = [gates EXCEPT ![s] = g]
    /\ held' = [held EXCEPT ![w] = g]

Hold(w) ==
    /\ pc[w] = "idle"
    /\ \E s \in Sessions :
        /\ \E g \in Gates :
            /\ IF gates[s] = NoGate THEN Unreferenced(g) ELSE g = gates[s]
            /\ Enter(w, s, g)
        /\ session' = [session EXCEPT ![w] = s]
    /\ pc' = [pc EXCEPT ![w] = "waiting"]

\* Faulty variant: the lock is taken whoever has it.
LockBarging(w) ==
    /\ pc[w] = "waiting"
    /\ object' = [object EXCEPT ![held[w]].mu = w]
    /\ pc' = [pc EXCEPT ![w] = "running"]
    /\ UNCHANGED <<gates, session, held>>

Lock(w) ==
    /\ pc[w] = "waiting"
    /\ object[held[w]].mu = NoWorker
    /\ object' = [object EXCEPT ![held[w]].mu = w]
    /\ pc' = [pc EXCEPT ![w] = "running"]
    /\ UNCHANGED <<gates, session, held>>

\* Faulty variant: the mutex stays locked.
UnlockForgotten(w) ==
    /\ pc[w] = "running"
    /\ pc' = [pc EXCEPT ![w] = "leaving"]
    /\ UNCHANGED <<object, gates, session, held>>

\* The deferred g.mu.Unlock, which runs before the deferred release.
Unlock(w) ==
    /\ pc[w] = "running"
    /\ object' = [object EXCEPT ![held[w]].mu = NoWorker]
    /\ pc' = [pc EXCEPT ![w] = "leaving"]
    /\ UNCHANGED <<gates, session, held>>

\* Faulty variants: dropped by anybody, or never.
DropAlways(g) == [gates EXCEPT ![object[g].sessionID] = NoGate]

DropLate(g) ==
    IF object[g].holders - 1 < 0
    THEN [gates EXCEPT ![object[g].sessionID] = NoGate] ELSE gates

\* delete(e.gates, g.sessionID), whatever the map has there.
Drop(g) ==
    IF object[g].holders - 1 <= 0
    THEN [gates EXCEPT ![object[g].sessionID] = NoGate] ELSE gates

Release(w) ==
    /\ pc[w] = "leaving"
    /\ object' = [object EXCEPT ![held[w]].holders = @ - 1]
    /\ gates' = Drop(held[w])
    /\ pc' = [pc EXCEPT ![w] = "idle"]
    /\ session' = [session EXCEPT ![w] = NoSession]
    /\ held' = [held EXCEPT ![w] = NoGate]

WorkerNext(w) == Hold(w) \/ Lock(w) \/ Unlock(w) \/ Release(w)

Next == \E w \in Workers : WorkerNext(w)

Spec == Init /\ [][Next]_vars

\* execute ends, deferred calls run, and sync.Mutex hands itself to a waiter
\* that has waited long enough, so a waiter is not overtaken for ever.
Fairness ==
    \A w \in Workers : /\ SF_vars(Lock(w))
                       /\ WF_vars(Unlock(w))
                       /\ WF_vars(Release(w))

FairSpec == Spec /\ Fairness

-----------------------------------------------------------------------------
(* Every variable stays in its type. *)
TypeOK ==
    /\ gates \in [Sessions -> Gates \cup {NoGate}]
    /\ object \in [Gates -> Gate]
    /\ pc \in [Workers -> {"idle", "waiting", "running", "leaving"}]
    /\ session \in [Workers -> Sessions \cup {NoSession}]
    /\ held \in [Workers -> Gates \cup {NoGate}]

Inside(w) == pc[w] # "idle"

(* Two tasks that share a session never run at the same time: both would   *)
(* have to lock the same object, although gates come and go (sessionGate). *)
MutualExclusion ==
    \A v, w \in Workers :
        pc[v] = "running" /\ pc[w] = "running" /\ session[v] = session[w] => v = w

(* A gate is not dropped from the map while an execution holds it or waits *)
(* on it: everybody who names the session afterwards finds the same one    *)
(* (the comment in runClaimed).                                            *)
GateStays == \A w \in Workers : Inside(w) => gates[session[w]] = held[w]

(* The map does not grow: a gate without a worker is not in it (release).  *)
NoLeak ==
    \A s \in Sessions : gates[s] # NoGate => \E w \in Workers : Inside(w) /\ session[w] = s

(* The rest of the inductive invariant: held gates, the map and the holder *)
(* count agree, and a locked gate is locked by a worker that runs.         *)
HeldShape ==
    \A w \in Workers : /\ Inside(w) => session[w] \in Sessions /\ held[w] \in Gates
                       /\ ~Inside(w) => held[w] = NoGate

MapShape ==
    \A s \in Sessions : gates[s] # NoGate => object[gates[s]].sessionID = s

Users(g) == {w \in Workers : held[w] = g}

HolderCount ==
    \A s \in Sessions : gates[s] # NoGate =>
        /\ object[gates[s]].holders = Cardinality(Users(gates[s]))
        /\ Users(gates[s]) # {}

Ownership ==
    /\ \A w \in Workers : pc[w] = "running" => object[held[w]].mu = w
    /\ \A s \in Sessions : gates[s] # NoGate /\ object[gates[s]].mu # NoWorker =>
            /\ pc[object[gates[s]].mu] = "running"
            /\ held[object[gates[s]].mu] = gates[s]

(* The inductive invariant behind the theorems of SessionGateProofs. *)
IInv == TypeOK /\ GateStays /\ HeldShape /\ MapShape /\ HolderCount /\ Ownership

(* The gates implement one lock per session. *)
LockOf == INSTANCE SessionLock WITH
    owner <- [s \in Sessions |-> IF gates[s] = NoGate THEN NoWorker
                                 ELSE object[gates[s]].mu]

ImplementsLock == LockOf!Spec

(* A worker that waits for a session gets it in the end. *)
NoStarvation == \A w \in Workers : pc[w] = "waiting" ~> pc[w] = "running"

=============================================================================
