SPECIFICATION FairSpec
CONSTANTS
  Workers = {w1, w2, w3}
  NoWorker = NoWorker
  Sessions = {s1, s2}
  NoSession = NoSession
  Gates = {g1, g2, g3}
  NoGate = NoGate
INVARIANTS MutualExclusion NoLeak
PROPERTIES ImplementsLock NoStarvation
