SPECIFICATION FairSpec
CONSTANTS
  CronRules = {c1}
  GitRules = {g1}
  HttpRules = {h1}
  Hooks = {k1}
  Engine = engine
  Interval = 1
  Never = Never
  NoRule = NoRule
  NoHead = NoHead
  MaxClock = 1
  MaxCommits = 1
  MaxCalls = 1
  MaxFaults = 1
INVARIANTS CronSpacing GitOnce
PROPERTIES CronFires GitNotified
