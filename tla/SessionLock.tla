----------------------------- MODULE SessionLock -----------------------------
(* What runClaimed relies on: one lock per upstream session. *)
CONSTANTS Workers, NoWorker, Sessions
VARIABLE owner      \* the worker inside each session, or NoWorker

Init == owner = [s \in Sessions |-> NoWorker]

Acquire(w, s) == owner[s] = NoWorker /\ owner' = [owner EXCEPT ![s] = w]

Leave(w, s) == owner[s] = w /\ owner' = [owner EXCEPT ![s] = NoWorker]

Next == \E w \in Workers, s \in Sessions : Acquire(w, s) \/ Leave(w, s)

Spec == Init /\ [][Next]_owner

=============================================================================
