------------------------- MODULE MCRecurringScheduler -------------------------
(***************************************************************************)
(* The cron expressions of the scheduler run.  The accepted ones occur in  *)
(* runs with short and long gaps, and once with a gap beyond the horizon;  *)
(* a step of 0, an empty field and a value out of range are refused.       *)
(***************************************************************************)
EXTENDS RecurringScheduler

MCExpressions ==
    [fast : {{Star}}, slow : {{Exactly(2)}}]
        \cup [fast : {{Exactly(1)}}, slow : {{Step(2)}, {Exactly(2)}}]
        \cup [fast : {{Exactly(1)}, {Exactly(2)}, {}}, slow : {{Step(0)}, {Star}}]

=============================================================================
