SPECIFICATION Spec
CONSTANTS
    b1 = b1
    b2 = b2
    b3 = b3
    c2 = c2
    p1 = p1
    p2 = p2
    None = None
    Blocks = {b1, b2, b3, c2}
    Peers = {p1, p2}
    Parent <- MCParent
    Worlds <- MCGrowing
    IdsPerReply = 2
    MinPrefetch = 1
    MaxPerPeer = 1
    MaxCalls = 1
    MaxWaiting = 1
PROPERTY HonestNotDropped
CHECK_DEADLOCK FALSE
