------------------------------- MODULE CronExpr -------------------------------
(***************************************************************************)
(* Cron expressions (internal/automation/cron.go).  An instant is a number *)
(* of seconds; the calendar has two fields instead of six, a fast one that *)
(* counts from 0 as seconds do and a slow one that counts from 1 as days   *)
(* do.  The code treats all its fields alike.                              *)
(***************************************************************************)
EXTENDS Integers, FiniteSetsExt

CONSTANTS FastSize, SlowSize, \* how many values each field has
          Horizon             \* how far nextCron scans

ASSUME CronAssumption ==
    /\ FastSize \in Nat \ {0}
    /\ SlowSize \in Nat \ {0}
    /\ Horizon \in Nat \ {0}

NoTime == -1    \* the error "no next time within horizon"

Fields == {"fast", "slow"}

MinOf(f) == IF f = "fast" THEN 0 ELSE 1

MaxOf(f) == IF f = "fast" THEN FastSize - 1 ELSE SlowSize

\* What time.Time answers for the field.
FieldAt(f, t) ==
    IF f = "fast" THEN t % FastSize ELSE 1 + ((t \div FastSize) % SlowSize)

\* The comma-separated parts of a field: "*", "*/n" or a value.
Star == [kind |-> "star", n |-> 1]
Step(n) == [kind |-> "step", n |-> n]
Exactly(n) == [kind |-> "value", n |-> n]

BadPart(p, f) ==
    \/ p.kind = "step" /\ p.n <= 0
    \/ p.kind = "value" /\ p.n \notin MinOf(f)..MaxOf(f)

\* The values one part adds: from min in steps up to max, or the value.
Values(p, f) ==
    IF p.kind = "value" THEN {p.n}
    ELSE {v \in MinOf(f)..MaxOf(f) : (v - MinOf(f)) % p.n = 0}

ParseFails(parts, f) == parts = {} \/ \E p \in parts : BadPart(p, f)

parseField(parts, f) == UNION {Values(p, f) : p \in parts}

Malformed(expr) == \E f \in Fields : ParseFails(expr[f], f)

Matches(expr, t) == \A f \in Fields : FieldAt(f, t) \in parseField(expr[f], f)

\* The instants the scan of nextCron accepts: strictly after the base and
\* strictly before the horizon.
Scan(after, expr) == {t \in (after + 1)..(after + Horizon - 1) : Matches(expr, t)}

nextCron(after, expr) ==
    LET found == Scan(after, expr) IN IF found = {} THEN NoTime ELSE Min(found)

\* ParseCron validates by looking for an occurrence after the present.
ParseCron(expr, now) == ~Malformed(expr) /\ nextCron(now, expr) # NoTime

\* NextCron calls ParseCron and therefore also depends on the present.
NextCron(after, expr, now) ==
    IF ParseCron(expr, now) THEN nextCron(after, expr) ELSE NoTime

=============================================================================
