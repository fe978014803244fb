CONSTANTS
    p1 = p1  p2 = p2
    i1 = i1  i2 = i2
    Peers = {p1, p2}
    FastPeers = {p2}
    BadPeers = {p2}
    Pieces = {i1, i2}
    MaxReqs = 1
    MaxWait = 1
    MaxSessions = 2
SPECIFICATION FairSpec
CHECK_DEADLOCK FALSE
INVARIANTS
    RequestsAreAccounted
    OnlyBadPeersBlamed
PROPERTIES
    ChunkCompletes
