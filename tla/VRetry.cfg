SPECIFICATION Spec
CONSTANTS
  Tasks = {t1, t2}
  NoTask = NoTask
  Sessions = {s1, s2, s3}
  UserSessions = {s1}
  NoSession = NoSession
  MaxStamp = 0
  Workers = {w1}
  NoWorker = NoWorker
  MaxRetries = 1
  LLMEnabled = FALSE
  Panics = FALSE
  Handlers = {h1}
  Schedulable = {}
  MaxRestarts = 0
INVARIANT FailedAfterRetries
CHECK_DEADLOCK FALSE
