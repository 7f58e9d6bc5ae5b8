SPECIFICATION Spec
CONSTANTS
  Requests = {r1, r2}
  Clients = {c1, c2}
  Sessions = {s1, s2}
  Tokens = {t1, t2}
  Flags <- MCFlags
  Limit = 2
  Window = 2
  TTL = 1
  TouchInterval = 2
  None = None
  MaxClock = 2
  MaxRequests = 3
  MaxFaults = 1
SYMMETRY MCSymmetry
INVARIANTS LoginsBounded  ConfigSurvives
CHECK_DEADLOCK FALSE
