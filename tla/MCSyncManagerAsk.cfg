SPECIFICATION Spec
CONSTANTS
    p1 = p1
    p2 = p2
    Null = Null
    Peers = {p1, p2}
    Nets <- EqualPeers
    MaxRejected = 1
CHECK_DEADLOCK FALSE
PROPERTY CatchupRequested
