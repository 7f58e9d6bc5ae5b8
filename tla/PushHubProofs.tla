---------------------------- MODULE PushHubProofs ----------------------------
(* Theorems about PushHub for any number of connections and broadcasters. *)
EXTENDS PushHub, TLAPS

USE HubAssumption

(* The initial state satisfies the invariant. *)
LEMMA InitInv == Init => IInv
BY DEF Init, IInv, TypeOK, Aimed, OnceRegistered, Pending, Owned, LockHeld,
    HandlerPoints, BroadcastPoints

(* The types survive every step. *)
LEMMA TypeStep ==
    ASSUME TypeOK, Aimed, Next
    PROVE  TypeOK'
<1> USE DEF TypeOK, HandlerPoints
<1>1. ASSUME NEW c \in Conns, Connect(c) \/ HandlerStep(c) \/ PingFails(c) \/ PeerLeaves(c)
      PROVE  TypeOK'
  BY <1>1 DEF Connect, HandlerStep, Register, GreetLock, GreetWrite, ReadFails, Unregister,
    Close, PingFails, PeerLeaves, Step, broadcasts, conns
<1>2. ASSUME NEW b \in Broadcasters, Snapshot(b) \/ BroadcastStep(b)
      PROVE  TypeOK'
  <2> USE DEF BroadcastPoints, Aimed, Fan, conns
  <2>1. CASE Snapshot(b)  BY <2>1 DEF Snapshot
  <2>2. CASE Take(b)  BY <2>2 DEF Take
  <2>3. CASE WriteLock(b)  BY <2>3 DEF WriteLock
  <2>4. CASE WriteSucceeds(b)  BY <2>4 DEF WriteSucceeds
  <2>5. CASE WriteFails(b)  BY <2>5 DEF WriteFails
  <2>6. CASE Drop(b)  BY <2>6 DEF Drop
  <2>7. CASE CloseDropped(b)  BY <2>7 DEF CloseDropped
  <2>8. CASE Finish(b)  BY <2>8 DEF Finish
  <2> QED  BY <1>2, <2>1, <2>2, <2>3, <2>4, <2>5, <2>6, <2>7, <2>8 DEF BroadcastStep
<1>3. ASSUME Stop \/ RunStep PROVE TypeOK'
  BY <1>3 DEF Stop, RunStep, RunTakesAll, RunCloses, conns, broadcasts
<1> QED  BY <1>1, <1>2, <1>3 DEF Next

(* A step of a connection's handler, of its ping goroutine or of its peer  *)
(* keeps the other parts of the invariant.                                 *)
LEMMA ConnStep ==
    ASSUME IInv, NEW d \in Conns,
           Connect(d) \/ HandlerStep(d) \/ PingFails(d) \/ PeerLeaves(d)
    PROVE  Aimed' /\ OnceRegistered' /\ Pending' /\ Owned' /\ LockHeld'
<1> USE DEF IInv, TypeOK, Step, broadcasts, Connect, HandlerStep, Register, GreetLock,
        GreetWrite, ReadFails, Unregister, Close, PingFails, PeerLeaves
<1>1. Aimed'
  BY DEF Aimed
<1>2. OnceRegistered'
  BY DEF OnceRegistered
\* Register is the only one that adds to the map, and d was owed nothing.
<1>3. Pending'
  BY DEF Pending, Serves, OnceRegistered
\* Unregister hands a connection of the map to its handler; one that it does
\* not find there is in other hands already.
<1>4. Owned'
  BY DEF Owned, InCharge
<1>5. LockHeld'
  BY DEF LockHeld, Aimed
<1> QED  BY <1>1, <1>2, <1>3, <1>4, <1>5

(* A step of a broadcaster keeps them: the snapshot makes its message      *)
(* pending for every client, and a client is passed only when the message  *)
(* was written or the client dropped from the map.                         *)
LEMMA BroadcasterStep ==
    ASSUME IInv, NEW b \in Broadcasters, Snapshot(b) \/ BroadcastStep(b)
    PROVE  Aimed' /\ OnceRegistered' /\ Pending' /\ Owned' /\ LockHeld'
<1> USE DEF IInv, TypeOK, Fan, conns
<1>1. Aimed'
  BY DEF Aimed, Snapshot, BroadcastStep, Take, WriteLock, WriteSucceeds, WriteFails,
    Drop, CloseDropped, Finish
<1>2. OnceRegistered'
  BY DEF OnceRegistered, Aimed, Snapshot, BroadcastStep, Take, WriteLock, WriteSucceeds,
    WriteFails, Drop, CloseDropped, Finish
<1>3. Pending'
  <2> USE DEF Pending, Serves
  <2>1. CASE Snapshot(b)  BY <2>1 DEF Snapshot
  <2>2. CASE Take(b)  BY <2>2 DEF Take
  <2>3. CASE WriteLock(b)  BY <2>3 DEF WriteLock
  <2>4. CASE WriteSucceeds(b)  BY <2>4 DEF WriteSucceeds, Aimed
  <2>5. CASE WriteFails(b)  BY <2>5 DEF WriteFails
  <2>6. CASE Drop(b)  BY <2>6 DEF Drop
  <2>7. CASE CloseDropped(b)  BY <2>7 DEF CloseDropped
  <2>8. CASE Finish(b)  BY <2>8 DEF Finish
  <2> QED  BY <2>1, <2>2, <2>3, <2>4, <2>5, <2>6, <2>7, <2>8 DEF BroadcastStep
<1>4. Owned'
  BY DEF Owned, InCharge, Snapshot, BroadcastStep, Take, WriteLock, WriteSucceeds, WriteFails,
    Drop, CloseDropped, Finish
<1>5. LockHeld'
  BY DEF LockHeld, Aimed, Snapshot, BroadcastStep, Take, WriteLock, WriteSucceeds, WriteFails,
    Drop, CloseDropped, Finish
<1> QED  BY <1>1, <1>2, <1>3, <1>4, <1>5

(* So does the end of the server and of the hub: Run takes the connections *)
(* it removes from the map in charge.                                      *)
LEMMA EndStep ==
    ASSUME IInv, Stop \/ RunStep
    PROVE  Aimed' /\ OnceRegistered' /\ Pending' /\ Owned' /\ LockHeld'
<1> USE DEF IInv, TypeOK, Stop, RunStep, RunTakesAll, RunCloses, conns, broadcasts
<1>1. Aimed' /\ OnceRegistered' /\ LockHeld'
  BY DEF Aimed, OnceRegistered, LockHeld
<1>2. Pending'
  BY DEF Pending, Serves
<1>3. Owned'
  BY DEF Owned, InCharge
<1> QED  BY <1>1, <1>2, <1>3

(* The inductive invariant, for any number of connections, broadcasters    *)
(* and broadcasts.                                                         *)
THEOREM Invariant == Spec => []IInv
<1>1. Init => IInv  BY InitInv
<1>2. IInv /\ [Next]_vars => IInv'
  <2> SUFFICES ASSUME IInv, [Next]_vars PROVE IInv'
    OBVIOUS
  <2>1. CASE Next
    <3>1. TypeOK'  BY <2>1, TypeStep DEF IInv
    <3>2. Aimed' /\ OnceRegistered' /\ Pending' /\ Owned' /\ LockHeld'
      BY <2>1, ConnStep, BroadcasterStep, EndStep DEF Next
    <3> QED  BY <3>1, <3>2 DEF IInv
  <2>2. CASE UNCHANGED vars
    BY <2>2 DEF vars, conns, broadcasts, IInv, TypeOK, Aimed, OnceRegistered, Pending,
      Serves, Owned, InCharge, LockHeld
  <2> QED  BY <2>1, <2>2
<1> QED  BY <1>1, <1>2, PTL DEF Spec

-----------------------------------------------------------------------------
(* A client in the map has missed no finished broadcast whose snapshot     *)
(* held it: Broadcast drops whom it cannot write to.                       *)
THEOREM ClientsMissNothing == Spec => []Delivered
<1>1. IInv => Delivered
  BY DEF IInv, Pending, Serves, Delivered, Running
<1> QED  BY <1>1, Invariant, PTL

(* Once Run has returned, every connection that is still open is in the    *)
(* map again or somebody is on the way to register or to close it.         *)
THEOREM RunLeavesNoneBehind == Spec => []StopCloses
<1>1. IInv => StopCloses
  BY DEF IInv, Owned, InCharge, StopCloses
<1> QED  BY <1>1, Invariant, PTL

(* hubConn.Write serialises the writes of all goroutines to a connection.  *)
THEOREM ConnectionsWrittenByOne == Spec => []WritesExclusive
<1>1. IInv => WritesExclusive
  BY DEF IInv, TypeOK, Aimed, LockHeld, WritesExclusive
<1> QED  BY <1>1, Invariant, PTL

=============================================================================
