---------------------------- MODULE TaskLifecycle ----------------------------
(***************************************************************************)
(* What the task queue promises of a task's status, and nothing else: the  *)
(* state machine of a task as clients see it.  Statements on several rows  *)
(* move all of them at once.                                               *)
(***************************************************************************)
CONSTANT Tasks
VARIABLE status

Move(D, from, to) ==
    /\ \A t \in D : status[t] \in from
    /\ status' = [t \in Tasks |-> IF t \in D THEN to ELSE status[t]]

Init == status = [t \in Tasks |-> "absent"]

Submit(t) == \E st \in {"queued", "pending", "scheduled"} : Move({t}, {"absent"}, st)

Start(t) == Move({t}, {"queued"}, "running")

\* The worker's outcome.  It also lands on a task cancelled while it ran.
Settle(t) == \E st \in {"succeeded", "failed"} : Move({t}, {"running", "canceled"}, st)

Cancel(t) == Move({t}, {"queued", "pending", "running", "scheduled"}, "canceled")

ComeDue(t) == Move({t}, {"scheduled"}, "queued")

Release(D) == Move(D, {"pending", "blocked"}, "queued")

Block(D) == Move(D, {"pending"}, "blocked")

Requeue(D) == Move(D, {"running"}, "queued")

Delete(D) == Move(D, {"succeeded", "failed", "canceled"}, "purged")

Next ==
    \/ \E t \in Tasks : Submit(t) \/ Start(t) \/ Settle(t) \/ Cancel(t) \/ ComeDue(t)
    \/ \E D \in SUBSET Tasks : Release(D) \/ Block(D) \/ Requeue(D) \/ Delete(D)

Spec == Init /\ [][Next]_status

=============================================================================
