SPECIFICATION FairSpec
CONSTANTS
    p1 = p1
    p2 = p2
    Null = Null
    Peers = {p1, p2}
    Nets <- MCNets
    MaxRejected = 1
CHECK_DEADLOCK FALSE
INVARIANT NoGap
PROPERTY CatchesUp LibCatchupEnds
