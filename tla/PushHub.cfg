SPECIFICATION FairSpec
CONSTANTS
    Conns = {c1, c2}
    Broadcasters = {b1}
    None = None
    MaxBroadcasts = 2
INVARIANTS
    Delivered
    StopCloses
PROPERTIES
    BroadcastEnds
    Reclaimed
CHECK_DEADLOCK FALSE
