SPECIFICATION Spec
CONSTANTS
  Tasks = {t1, t2}
  NoTask = NoTask
  Sessions = {s1, s2, s3}
  UserSessions = {s1}
  NoSession = NoSession
  MaxStamp = 0
  Workers = {w1, w2}
  NoWorker = NoWorker
  MaxRetries = 1
  LLMEnabled = TRUE
  Panics = TRUE
  Handlers = {h1}
  Schedulable = {t1, t2}
  MaxRestarts = 1
SYMMETRY Symmetry
INVARIANTS ExclusiveExecution OwnRow RunningHasWorker GateExclusion
  UpstreamKept
  
CHECK_DEADLOCK FALSE
