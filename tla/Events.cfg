SPECIFICATION FairSpec
CONSTANTS
  Sessions = {s1}
  Kinds = {"busy", "idle", "delta"}
  QueueSize = 1
  FlushBatch = 2
  SeedWindow = 1
  SeedLimit = 1
  Retention = 1
  PageLimit = 1
  MaxEvents = 2
  MaxClock = 2
  MaxFaults = 1
INVARIANTS InOrder CursorComplete UnreadKept 
PROPERTIES Flows ShutdownEnds
