-------------------------- MODULE SessionGateProofs --------------------------
(* Theorems about SessionGate for any number of workers and sessions. *)
EXTENDS SessionGate, FiniteSetTheorems, TLAPS

USE GateAssumption

(* The workers that refer to a gate are finitely many. *)
LEMMA UsersFinite ==
    ASSUME NEW g
    PROVE  IsFiniteSet(Users(g)) /\ Cardinality(Users(g)) \in Nat
<1>1. Users(g) \subseteq Workers  BY DEF Users
<1> QED  BY <1>1, FS_Subset, FS_CardinalityType

(* The initial state satisfies the invariant. *)
LEMMA InitInv == Init => IInv
BY DEF Init, IInv, TypeOK, GateStays, HeldShape, MapShape, HolderCount, Ownership,
    Inside, NewGate, Gate

(* hold keeps the invariant, whether it finds the gate or creates it. *)
LEMMA HoldInv ==
    ASSUME IInv, NEW w \in Workers, Hold(w)
    PROVE  IInv'
<1>0. /\ gates \in [Sessions -> Gates \cup {NoGate}]
      /\ object \in [Gates -> Gate]
      /\ pc \in [Workers -> {"idle", "waiting", "running", "leaving"}]
      /\ session \in [Workers -> Sessions \cup {NoSession}]
      /\ held \in [Workers -> Gates \cup {NoGate}]
      /\ GateStays /\ HeldShape /\ MapShape /\ HolderCount /\ Ownership
  BY DEF IInv, TypeOK
<1>1. PICK s \in Sessions, g \in Gates :
        /\ IF gates[s] = NoGate THEN Unreferenced(g) ELSE g = gates[s]
        /\ Enter(w, s, g)
        /\ session' = [session EXCEPT ![w] = s]
  BY DEF Hold
<1>2. /\ pc[w] = "idle" /\ pc' = [pc EXCEPT ![w] = "waiting"]
      /\ gates' = [gates EXCEPT ![s] = g]
      /\ held' = [held EXCEPT ![w] = g]
  BY <1>1 DEF Hold, Enter
<1>3. held[w] = NoGate
  BY <1>0, <1>2 DEF HeldShape, Inside
\* What the gate becomes, in both cases.
<1>4. /\ object' \in [Gates -> Gate]
      /\ \A h \in Gates \ {g} : object'[h] = object[h]
      /\ object'[g].sessionID = s
      /\ object'[g].holders = Cardinality(Users(g)) + 1
      /\ gates[s] = NoGate => object'[g].mu = NoWorker /\ Users(g) = {}
      /\ gates[s] # NoGate => object'[g].mu = object[g].mu
  <2>1. CASE gates[s] = NoGate
    <3>1. object' = [object EXCEPT ![g] = [NewGate(s) EXCEPT !.holders = 1]]
      BY <1>1, <2>1 DEF Enter
    <3>2. Users(g) = {}
      BY <1>1, <2>1 DEF Unreferenced, Users
    <3>3. Cardinality(Users(g)) = 0
      BY <3>2, FS_EmptySet
    <3>4. [NewGate(s) EXCEPT !.holders = 1] = [sessionID |-> s, mu |-> NoWorker, holders |-> 1]
      BY DEF NewGate
    <3> QED  BY <1>0, <2>1, <3>1, <3>2, <3>3, <3>4 DEF Gate
  <2>2. CASE gates[s] # NoGate
    <3>1. /\ object' = [object EXCEPT ![g].holders = @ + 1]
          /\ g = gates[s]
      BY <1>1, <2>2 DEF Enter
    <3>2. object[g].holders = Cardinality(Users(g)) /\ object[g].sessionID = s
      BY <1>0, <2>2, <3>1 DEF HolderCount, MapShape
    <3> QED  BY <1>0, <2>2, <3>1, <3>2, UsersFinite DEF Gate
  <2> QED  BY <2>1, <2>2
\* No other session has this gate.
<1>5. \A r \in Sessions \ {s} : gates[r] # g
  BY <1>0, <1>1 DEF Unreferenced, MapShape
<1>6. /\ \A v \in Workers \ {w} : /\ pc'[v] = pc[v] /\ held'[v] = held[v]
                                  /\ session'[v] = session[v]
      /\ pc'[w] = "waiting" /\ held'[w] = g /\ session'[w] = s
      /\ gates'[s] = g /\ \A r \in Sessions \ {s} : gates'[r] = gates[r]
  BY <1>0, <1>1, <1>2
<1>7. TypeOK'
  BY <1>0, <1>1, <1>2, <1>4 DEF TypeOK
<1>8. HeldShape'
  BY <1>0, <1>6 DEF HeldShape, Inside
<1>9. GateStays'
  <2>1. \A v \in Workers \ {w} : Inside(v) /\ session[v] = s => held[v] = g
    BY <1>0, <1>1 DEF GateStays, HeldShape, Unreferenced
  <2> QED
    BY <1>0, <1>6, <2>1 DEF GateStays, HeldShape, Inside
<1>10. MapShape'
  BY <1>0, <1>4, <1>5, <1>6 DEF MapShape
<1>11. HolderCount'
  <2> DEFINE Now(h) == {v \in Workers : held'[v] = h}
  <2>0. NoGate \notin Gates  OBVIOUS
  <2>1. Now(g) = Users(g) \cup {w}
    BY <1>6 DEF Users
  <2>2. w \notin Users(g)
    BY <1>3, <2>0 DEF Users
  <2>3. \A h \in Gates \ {g} : Now(h) = Users(h)
    <3> SUFFICES ASSUME NEW h \in Gates \ {g} PROVE Now(h) = Users(h)
      OBVIOUS
    <3>1. \A v \in Workers : held'[v] = h <=> held[v] = h
      BY <1>3, <1>6, <2>0
    <3> QED  BY <3>1 DEF Users
  <2>4. IsFiniteSet(Users(g))
    BY UsersFinite
  <2>5. Cardinality(Users(g) \cup {w}) = Cardinality(Users(g)) + 1
    BY <2>2, <2>4, FS_AddElement
  <2>6. object'[g].holders = Cardinality(Now(g))
    BY <1>4, <2>1, <2>5
  <2> HIDE DEF Now
  <2> SUFFICES ASSUME NEW r \in Sessions, gates'[r] # NoGate
               PROVE  /\ object'[gates'[r]].holders = Cardinality(Now(gates'[r]))
                      /\ Now(gates'[r]) # {}
    BY DEF HolderCount, Users, Now
  <2>7. CASE r = s
    BY <1>6, <2>1, <2>6, <2>7
  <2>8. CASE r # s
    <3>1. gates'[r] = gates[r] /\ gates[r] \in Gates \ {g}
      BY <1>0, <1>5, <1>6, <2>8
    <3>2. /\ object[gates[r]].holders = Cardinality(Users(gates[r]))
          /\ Users(gates[r]) # {}
      BY <1>0, <3>1 DEF HolderCount
    <3> QED  BY <1>4, <2>3, <3>1, <3>2
  <2> QED  BY <2>7, <2>8
<1>12. Ownership'
  <2>1. \A v \in Workers : pc'[v] = "running" => object'[held'[v]].mu = v
    <3> SUFFICES ASSUME NEW v \in Workers, pc'[v] = "running"
                 PROVE  object'[held'[v]].mu = v
      OBVIOUS
    <3>1. v # w /\ pc[v] = "running" /\ held'[v] = held[v]
      BY <1>6
    <3>2. held[v] \in Gates /\ object[held[v]].mu = v
      BY <1>0, <3>1 DEF HeldShape, Inside, Ownership
    <3>3. held[v] = g => gates[s] # NoGate
      BY <1>4, <3>1 DEF Users
    <3> QED  BY <1>4, <3>1, <3>2, <3>3
  <2>2. ASSUME NEW r \in Sessions, gates'[r] # NoGate, object'[gates'[r]].mu # NoWorker
        PROVE  /\ pc'[object'[gates'[r]].mu] = "running"
               /\ held'[object'[gates'[r]].mu] = gates'[r]
    <3>1. gates[r] # NoGate /\ gates'[r] = gates[r] /\ object'[gates'[r]].mu = object[gates[r]].mu
      BY <1>0, <1>1, <1>4, <1>5, <1>6, <2>2
    <3>2. /\ pc[object[gates[r]].mu] = "running"
          /\ held[object[gates[r]].mu] = gates[r]
          /\ object[gates[r]].mu \in Workers
      BY <1>0, <2>2, <3>1 DEF Ownership, Gate
    <3>3. object[gates[r]].mu # w
      BY <1>2, <3>2
    <3> QED  BY <1>6, <3>1, <3>2, <3>3
  <2> QED  BY <2>1, <2>2 DEF Ownership
<1> QED
  BY <1>7, <1>8, <1>9, <1>10, <1>11, <1>12 DEF IInv

(* Locking and unlocking keep it: only the mutex of a gate in the map      *)
(* changes, between free and the worker that runs.                         *)
LEMMA MutexInv ==
    ASSUME IInv, NEW w \in Workers, Lock(w) \/ Unlock(w)
    PROVE  IInv'
<1>0. /\ gates \in [Sessions -> Gates \cup {NoGate}]
      /\ object \in [Gates -> Gate]
      /\ pc \in [Workers -> {"idle", "waiting", "running", "leaving"}]
      /\ session \in [Workers -> Sessions \cup {NoSession}]
      /\ held \in [Workers -> Gates \cup {NoGate}]
      /\ GateStays /\ HeldShape /\ MapShape /\ HolderCount /\ Ownership
  BY DEF IInv, TypeOK
<1>1. /\ gates' = gates /\ session' = session /\ held' = held
      /\ Inside(w)
  BY DEF Lock, Unlock, Inside
<1>2. held[w] \in Gates /\ session[w] \in Sessions /\ gates[session[w]] = held[w]
  BY <1>0, <1>1 DEF HeldShape, GateStays
<1>3. PICK m \in {w, NoWorker}, p \in {"running", "leaving"} :
        /\ object' = [object EXCEPT ![held[w]].mu = m]
        /\ pc' = [pc EXCEPT ![w] = p]
        /\ p = "running" => m = w /\ object[held[w]].mu = NoWorker
        /\ p = "leaving" => m = NoWorker /\ object[held[w]].mu = w
  BY <1>0 DEF Lock, Unlock, Ownership
<1>4. /\ object' \in [Gates -> Gate]
      /\ object'[held[w]].mu = m
      /\ \A g \in Gates : /\ object'[g].sessionID = object[g].sessionID
                          /\ object'[g].holders = object[g].holders
                          /\ g # held[w] => object'[g] = object[g]
      /\ pc'[w] = p /\ \A v \in Workers \ {w} : pc'[v] = pc[v]
      /\ pc' \in [Workers -> {"idle", "waiting", "running", "leaving"}]
  BY <1>0, <1>2, <1>3 DEF Gate
<1>5. TypeOK'
  BY <1>0, <1>1, <1>4 DEF TypeOK
<1>6. \A v \in Workers : Inside(v)' <=> Inside(v)
  BY <1>1, <1>4 DEF Inside
<1>7. HeldShape' /\ GateStays'
  BY <1>0, <1>1, <1>6 DEF HeldShape, GateStays
<1>8. MapShape'
  BY <1>0, <1>1, <1>4 DEF MapShape
<1>9. HolderCount'
  <2>1. \A g \in Gates : Users(g)' = Users(g)
    BY <1>1 DEF Users
  <2> QED
    BY <1>0, <1>1, <1>4, <2>1 DEF HolderCount
<1>10. Ownership'
  <2>1. ASSUME NEW v \in Workers, pc'[v] = "running"
        PROVE  object'[held'[v]].mu = v
    <3>1. CASE v = w
      BY <1>1, <1>3, <1>4, <2>1, <3>1
    <3>2. CASE v # w
      <4>1. pc[v] = "running" /\ held[v] \in Gates /\ object[held[v]].mu = v
        BY <1>0, <1>4, <2>1, <3>2 DEF Ownership, HeldShape, Inside
      <4>2. held[v] # held[w]
        BY <1>3, <3>2, <4>1
      <4> QED  BY <1>1, <1>4, <4>1, <4>2
    <3> QED  BY <3>1, <3>2
  <2>2. ASSUME NEW r \in Sessions, gates'[r] # NoGate, object'[gates'[r]].mu # NoWorker
        PROVE  /\ pc'[object'[gates'[r]].mu] = "running"
               /\ held'[object'[gates'[r]].mu] = gates'[r]
    <3>1. CASE gates[r] = held[w]
      <4>1. m = w /\ p = "running"
        BY <1>1, <1>3, <1>4, <2>2, <3>1
      <4> QED  BY <1>1, <1>4, <3>1, <4>1
    <3>2. CASE gates[r] # held[w]
      <4>1. object'[gates'[r]].mu = object[gates[r]].mu /\ gates'[r] = gates[r]
        BY <1>0, <1>1, <1>4, <2>2, <3>2
      <4>2. /\ pc[object[gates[r]].mu] = "running"
            /\ held[object[gates[r]].mu] = gates[r]
            /\ object[gates[r]].mu \in Workers
        BY <1>0, <2>2, <4>1 DEF Ownership, Gate
      <4>3. object[gates[r]].mu # w
        BY <3>2, <4>2
      <4> QED  BY <1>1, <1>4, <4>1, <4>2, <4>3
    <3> QED  BY <3>1, <3>2
  <2> QED  BY <2>1, <2>2 DEF Ownership
<1> QED
  BY <1>5, <1>7, <1>8, <1>9, <1>10 DEF IInv

(* release keeps it: the last holder drops the gate, and nobody else uses  *)
(* it then.                                                                *)
LEMMA ReleaseInv ==
    ASSUME IInv, NEW w \in Workers, Release(w)
    PROVE  IInv'
<1>0. /\ gates \in [Sessions -> Gates \cup {NoGate}]
      /\ object \in [Gates -> Gate]
      /\ pc \in [Workers -> {"idle", "waiting", "running", "leaving"}]
      /\ session \in [Workers -> Sessions \cup {NoSession}]
      /\ held \in [Workers -> Gates \cup {NoGate}]
      /\ GateStays /\ HeldShape /\ MapShape /\ HolderCount /\ Ownership
  BY DEF IInv, TypeOK
<1>1. PICK g \in Gates, s \in Sessions :
        held[w] = g /\ session[w] = s /\ gates[s] = g /\ object[g].sessionID = s
  <2>1. Inside(w)  BY DEF Release, Inside
  <2>2. held[w] \in Gates /\ session[w] \in Sessions /\ gates[session[w]] = held[w]
    BY <1>0, <2>1 DEF HeldShape, GateStays
  <2>3. object[held[w]].sessionID = session[w]
    BY <1>0, <2>2 DEF MapShape
  <2> QED  BY <2>2, <2>3
<1>2. /\ pc[w] = "leaving" /\ pc' = [pc EXCEPT ![w] = "idle"]
      /\ object' = [object EXCEPT ![g].holders = @ - 1]
      /\ session' = [session EXCEPT ![w] = NoSession]
      /\ held' = [held EXCEPT ![w] = NoGate]
      /\ gates' = IF object[g].holders - 1 <= 0
                  THEN [gates EXCEPT ![s] = NoGate] ELSE gates
  BY <1>1 DEF Release, Drop
<1>3. /\ object' \in [Gates -> Gate]
      /\ object'[g].holders = object[g].holders - 1
      /\ \A h \in Gates : /\ object'[h].sessionID = object[h].sessionID
                          /\ object'[h].mu = object[h].mu
                          /\ h # g => object'[h] = object[h]
      /\ \A v \in Workers \ {w} : /\ pc'[v] = pc[v] /\ held'[v] = held[v]
                                  /\ session'[v] = session[v]
      /\ pc'[w] = "idle" /\ held'[w] = NoGate
  BY <1>0, <1>2 DEF Gate
<1> DEFINE Now(h) == {v \in Workers : held'[v] = h}
<1>4. /\ Now(g) = Users(g) \ {w} /\ w \in Users(g)
      /\ \A h \in Gates \ {g} : Now(h) = Users(h)
  <2>1. Now(g) = Users(g) \ {w}  BY <1>1, <1>3 DEF Users
  <2>2. w \in Users(g)  BY <1>1 DEF Users
  <2>3. ASSUME NEW h \in Gates \ {g} PROVE Now(h) = Users(h)
    <3>1. \A v \in Workers : held'[v] = h <=> held[v] = h
      BY <1>1, <1>3, <2>3
    <3> QED  BY <3>1 DEF Users
  <2> QED  BY <2>1, <2>2, <2>3
<1> HIDE DEF Now
<1>5. /\ object'[g].holders = Cardinality(Now(g)) /\ Cardinality(Now(g)) \in Nat
      /\ Cardinality(Now(g)) = 0 <=> Now(g) = {}
  <2>1. object[g].holders = Cardinality(Users(g))
    BY <1>0, <1>1 DEF HolderCount
  <2>2. IsFiniteSet(Users(g)) /\ Cardinality(Users(g)) \in Nat
    BY UsersFinite
  <2>3. IsFiniteSet(Now(g)) /\ Cardinality(Now(g)) = Cardinality(Users(g)) - 1
    BY <1>4, <2>2, FS_RemoveElement
  <2>4. Cardinality(Now(g)) \in Nat
    BY <2>3, FS_CardinalityType
  <2> QED  BY <1>3, <2>1, <2>3, <2>4, FS_EmptySet
\* The gate leaves the map exactly when nobody uses it any more.
<1>6. /\ \A r \in Sessions \ {s} : gates'[r] = gates[r]
      /\ gates'[s] = IF Now(g) = {} THEN NoGate ELSE g
      /\ gates' \in [Sessions -> Gates \cup {NoGate}]
  <2>1. object[g].holders - 1 <= 0 <=> Now(g) = {}
    BY <1>3, <1>5
  <2> QED  BY <1>0, <1>1, <1>2, <2>1
<1>7. TypeOK'
  BY <1>0, <1>2, <1>3, <1>6 DEF TypeOK
<1>8. HeldShape'
  BY <1>0, <1>3 DEF HeldShape, Inside
<1>9. GateStays'
  <2> SUFFICES ASSUME NEW v \in Workers, Inside(v)'
               PROVE  gates'[session'[v]] = held'[v]
    BY DEF GateStays
  <2>1. v # w /\ Inside(v) /\ held'[v] = held[v] /\ session'[v] = session[v]
    BY <1>3 DEF Inside
  <2>2. session[v] \in Sessions /\ gates[session[v]] = held[v]
    BY <1>0, <2>1 DEF GateStays, HeldShape
  <2>3. CASE session[v] = s
    <3>1. v \in Now(g)
      BY <1>1, <2>1, <2>2, <2>3 DEF Now
    <3> QED  BY <1>1, <1>6, <2>1, <2>2, <2>3, <3>1
  <2>4. CASE session[v] # s
    BY <1>6, <2>1, <2>2, <2>4
  <2> QED  BY <2>3, <2>4
<1>10. MapShape'
  BY <1>0, <1>1, <1>3, <1>6 DEF MapShape
<1>11. HolderCount'
  <2> SUFFICES ASSUME NEW r \in Sessions, gates'[r] # NoGate
               PROVE  /\ object'[gates'[r]].holders = Cardinality(Now(gates'[r]))
                      /\ Now(gates'[r]) # {}
    BY DEF HolderCount, Users, Now
  <2>1. CASE r = s
    BY <1>5, <1>6, <2>1
  <2>2. CASE r # s
    <3>1. gates'[r] = gates[r] /\ gates[r] \in Gates /\ object[gates[r]].sessionID = r
      BY <1>0, <1>6, <2>2 DEF MapShape
    <3>2. gates[r] # g
      BY <1>1, <2>2, <3>1
    <3>3. /\ object[gates[r]].holders = Cardinality(Users(gates[r]))
          /\ Users(gates[r]) # {}
      BY <1>0, <3>1 DEF HolderCount
    <3> QED  BY <1>3, <1>4, <3>1, <3>2, <3>3
  <2> QED  BY <2>1, <2>2
<1>12. Ownership'
  <2>1. ASSUME NEW v \in Workers, pc'[v] = "running"
        PROVE  object'[held'[v]].mu = v
    <3>1. v # w /\ pc[v] = "running" /\ held'[v] = held[v]
      BY <1>3, <2>1
    <3>2. held[v] \in Gates /\ object[held[v]].mu = v
      BY <1>0, <3>1 DEF HeldShape, Inside, Ownership
    <3> QED  BY <1>3, <3>1, <3>2
  <2>2. ASSUME NEW r \in Sessions, gates'[r] # NoGate, object'[gates'[r]].mu # NoWorker
        PROVE  /\ pc'[object'[gates'[r]].mu] = "running"
               /\ held'[object'[gates'[r]].mu] = gates'[r]
    <3>1. gates'[r] = gates[r] /\ gates[r] \in Gates
      BY <1>0, <1>1, <1>6, <2>2
    <3>2. /\ object'[gates'[r]].mu = object[gates[r]].mu
          /\ object[gates[r]].mu \in Workers
      BY <1>0, <1>3, <2>2, <3>1 DEF Gate
    <3>3. /\ pc[object[gates[r]].mu] = "running"
          /\ held[object[gates[r]].mu] = gates[r]
      BY <1>0, <2>2, <3>1, <3>2 DEF Ownership
    <3>4. object[gates[r]].mu # w
      BY <1>2, <3>3
    <3> QED  BY <1>3, <3>1, <3>2, <3>3, <3>4
  <2> QED  BY <2>1, <2>2 DEF Ownership
<1> QED
  BY <1>7, <1>8, <1>9, <1>10, <1>11, <1>12 DEF IInv

(* The invariant holds in every reachable state. *)
THEOREM Invariant == Spec => []IInv
<1>1. Init => IInv  BY InitInv
<1>2. IInv /\ [Next]_vars => IInv'
  <2> SUFFICES ASSUME IInv, [Next]_vars PROVE IInv'
    OBVIOUS
  <2>1. CASE Next
    BY <2>1, HoldInv, MutexInv, ReleaseInv DEF Next, WorkerNext
  <2>2. CASE UNCHANGED vars
    BY <2>2 DEF vars, IInv, TypeOK, GateStays, HeldShape, MapShape, HolderCount,
        Ownership, Inside, Users
  <2> QED  BY <2>1, <2>2
<1> QED  BY <1>1, <1>2, PTL DEF Spec

(* For any number of workers and sessions, two tasks that share a session  *)
(* never run together.                                                     *)
THEOREM Exclusion == Spec => []MutualExclusion
<1>1. IInv => MutualExclusion
  BY DEF IInv, Ownership, GateStays, MutualExclusion, Inside
<1> QED  BY <1>1, Invariant, PTL

(* The gate a worker holds or waits on is the one in the map. *)
THEOREM GateKept == Spec => []GateStays
<1>1. IInv => GateStays  BY DEF IInv
<1> QED  BY <1>1, Invariant, PTL

(* The map only has gates of workers that are inside. *)
THEOREM MapBounded == Spec => []NoLeak
<1>1. IInv => NoLeak
  <2> SUFFICES ASSUME IInv, NEW s \in Sessions, gates[s] # NoGate
               PROVE  \E w \in Workers : Inside(w) /\ session[w] = s
    BY DEF NoLeak
  <2>1. PICK w \in Workers : held[w] = gates[s]
    BY DEF IInv, HolderCount, Users
  <2>2. Inside(w) /\ session[w] \in Sessions /\ gates[session[w]] = gates[s]
    BY <2>1 DEF IInv, HeldShape, GateStays
  <2>3. session[w] = s
    BY <2>2 DEF IInv, MapShape
  <2> QED  BY <2>2, <2>3
<1> QED  BY <1>1, Invariant, PTL

(* The gates implement one lock per session, although the objects behind   *)
(* them come and go.                                                       *)
THEOREM Refinement == Spec => ImplementsLock
<1> DEFINE owner == [s \in Sessions |-> IF gates[s] = NoGate THEN NoWorker
                                        ELSE object[gates[s]].mu]
<1>1. Init => LockOf!Init
  BY DEF Init, LockOf!Init
<1>2. ASSUME IInv, IInv', NEW w \in Workers, Lock(w)
      PROVE  LockOf!Next
  <2>0. /\ Inside(w) /\ session[w] \in Sessions /\ held[w] \in Gates
        /\ gates[session[w]] = held[w] /\ gates' = gates
        /\ object' = [object EXCEPT ![held[w]].mu = w]
        /\ object[held[w]].mu = NoWorker /\ object \in [Gates -> Gate]
    BY <1>2 DEF Lock, IInv, TypeOK, HeldShape, GateStays, Inside
  <2>1. PICK s \in Sessions : s = session[w]
    BY <2>0
  <2>2. \A r \in Sessions \ {s} : gates[r] # NoGate =>
            gates[r] \in Gates /\ gates[r] # held[w]
    BY <1>2, <2>0, <2>1 DEF IInv, TypeOK, MapShape
  <2>3. /\ owner[s] = NoWorker /\ owner'[s] = w
        /\ \A r \in Sessions \ {s} : owner'[r] = owner[r]
    BY <2>0, <2>1, <2>2 DEF Gate
  <2>4. LockOf!Acquire(w, s)
    BY <2>3 DEF LockOf!Acquire
  <2> QED  BY <2>4 DEF LockOf!Next
<1>3. ASSUME IInv, NEW w \in Workers, Unlock(w)
      PROVE  LockOf!Next
  <2>0. /\ Inside(w) /\ session[w] \in Sessions /\ held[w] \in Gates
        /\ gates[session[w]] = held[w] /\ gates' = gates
        /\ object' = [object EXCEPT ![held[w]].mu = NoWorker]
        /\ object[held[w]].mu = w /\ object \in [Gates -> Gate]
    BY <1>3 DEF Unlock, IInv, TypeOK, HeldShape, GateStays, Inside, Ownership
  <2>1. PICK s \in Sessions : s = session[w]
    BY <2>0
  <2>2. \A r \in Sessions \ {s} : gates[r] # NoGate =>
            gates[r] \in Gates /\ gates[r] # held[w]
    BY <1>3, <2>0, <2>1 DEF IInv, TypeOK, MapShape
  <2>3. /\ owner[s] = w /\ owner'[s] = NoWorker
        /\ \A r \in Sessions \ {s} : owner'[r] = owner[r]
    BY <2>0, <2>1, <2>2 DEF Gate
  <2>4. LockOf!Leave(w, s)
    BY <2>3 DEF LockOf!Leave
  <2> QED  BY <2>4 DEF LockOf!Next
\* A hold that finds the gate keeps its mutex; one that creates it starts free.
<1>4. ASSUME IInv, NEW w \in Workers, Hold(w)
      PROVE  UNCHANGED owner
  <2>1. PICK s \in Sessions, g \in Gates :
          /\ IF gates[s] = NoGate THEN Unreferenced(g) ELSE g = gates[s]
          /\ Enter(w, s, g)
    BY <1>4 DEF Hold
  <2>2. /\ gates \in [Sessions -> Gates \cup {NoGate}] /\ object \in [Gates -> Gate]
        /\ gates' = [gates EXCEPT ![s] = g] /\ MapShape
    BY <1>4, <2>1 DEF IInv, TypeOK, Enter
  <2>3. \A r \in Sessions \ {s} : gates[r] # g
    BY <2>1, <2>2 DEF Unreferenced, MapShape
  <2>4. /\ object'[g].mu = IF gates[s] = NoGate THEN NoWorker ELSE object[g].mu
        /\ \A h \in Gates \ {g} : object'[h] = object[h]
    <3>1. CASE gates[s] = NoGate
      BY <2>1, <2>2, <3>1 DEF Enter, NewGate
    <3>2. CASE gates[s] # NoGate
      BY <2>1, <2>2, <3>2 DEF Enter, Gate
    <3> QED  BY <3>1, <3>2
  <2>5. \A r \in Sessions : owner'[r] = owner[r]
    BY <2>1, <2>2, <2>3, <2>4
  <2> QED  BY <2>5
\* The last holder finds the mutex free: nobody else uses the gate.
<1>5. ASSUME IInv, IInv', NEW w \in Workers, Release(w)
      PROVE  UNCHANGED owner
  <2>1. /\ held[w] \in Gates /\ session[w] \in Sessions /\ gates[session[w]] = held[w]
        /\ object[held[w]].sessionID = session[w]
        /\ gates \in [Sessions -> Gates \cup {NoGate}] /\ object \in [Gates -> Gate]
        /\ pc[w] = "leaving"
    BY <1>5 DEF Release, IInv, TypeOK, HeldShape, GateStays, Inside, MapShape
  <2>2. \A h \in Gates : object'[h].mu = object[h].mu
    BY <1>5, <2>1 DEF Release, Gate
  <2>3. CASE gates' = gates
    BY <2>1, <2>2, <2>3
  <2>4. CASE gates' = [gates EXCEPT ![session[w]] = NoGate]
    <3>1. object[held[w]].mu = NoWorker
      <4> SUFFICES ASSUME object[held[w]].mu # NoWorker PROVE FALSE
        OBVIOUS
      <4>1. PICK v \in Workers : v = object[held[w]].mu
        BY <2>1 DEF Gate
      <4>2. pc[v] = "running" /\ held[v] = held[w]
        BY <1>5, <2>1, <4>1 DEF IInv, Ownership
      <4>3. v # w /\ pc'[v] = "running" /\ held'[v] = held[v]
        BY <1>5, <2>1, <4>2 DEF Release, IInv, TypeOK
      <4>4. session'[v] = session[v] /\ session[v] \in Sessions /\ gates[session[v]] = held[v]
        BY <1>5, <4>2, <4>3 DEF Release, IInv, TypeOK, GateStays, HeldShape, Inside
      <4>5. session[v] = session[w]
        BY <1>5, <2>1, <4>2, <4>4 DEF IInv, MapShape
      <4>6. gates'[session'[v]] = held'[v]
        BY <1>5, <4>3 DEF IInv, GateStays, Inside
      <4> QED
        BY <2>1, <2>4, <4>2, <4>3, <4>4, <4>5, <4>6
    <3> QED  BY <2>1, <2>2, <2>4, <3>1
  <2> QED  BY <1>5, <2>1, <2>3, <2>4 DEF Release, Drop
<1>6. IInv /\ IInv' /\ [Next]_vars => [LockOf!Next]_owner
  <2> SUFFICES ASSUME IInv, IInv', [Next]_vars
               PROVE  LockOf!Next \/ UNCHANGED owner
    OBVIOUS
  <2>1. CASE UNCHANGED vars  BY <2>1 DEF vars
  <2>2. CASE Next
    BY <1>2, <1>3, <1>4, <1>5, <2>2 DEF Next, WorkerNext
  <2> QED  BY <2>1, <2>2
<1> QED
  BY <1>1, <1>6, Invariant, PTL DEF Spec, ImplementsLock, LockOf!Spec

=============================================================================
