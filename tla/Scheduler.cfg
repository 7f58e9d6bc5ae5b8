SPECIFICATION FairSpec
CONSTANTS
  FastSize = 2
  SlowSize = 2
  Horizon = 4
  Schedulers = {i1, i2}
  Expressions <- MCExpressions
  MaxClock = 4
  MaxFailures = 2
  MaxInterrupts = 1
INVARIANTS AtMostOnce NoneSkipped NextFound
 
