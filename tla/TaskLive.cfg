SPECIFICATION FairSpec
CONSTANTS
  Tasks = {t1, t2}
  NoTask = NoTask
  Sessions = {s1}
  UserSessions = {s1}
  NoSession = NoSession
  MaxStamp = 0
  Workers = {w1, w2}
  NoWorker = NoWorker
  MaxRetries = 1
  LLMEnabled = FALSE
  Panics = FALSE
  Handlers = {h1}
  Schedulable = {}
  MaxRestarts = 1
PROPERTIES  WaitersResolved
CHECK_DEADLOCK FALSE
