SPECIFICATION Spec
CONSTANTS
  Tasks = {t1, t2, t3}
  NoTask = NoTask
  Sessions = {s1}
  UserSessions = {s1}
  NoSession = NoSession
  MaxStamp = 0
  Workers = {w1}
  NoWorker = NoWorker
  MaxRetries = 1
  LLMEnabled = FALSE
  Panics = FALSE
  Handlers = {h1, h2}
  Schedulable = {}
  MaxRestarts = 0
SYMMETRY Symmetry
INVARIANTS OrphanOnlyByRace
PROPERTIES DependencyRespected BlockedAnnounced
CHECK_DEADLOCK FALSE
