SPECIFICATION FairSpec
CONSTANTS
    p1 = p1
    p2 = p2
    c1 = c1
    Publishers <- TwoPublishers
    Clients <- OneClient
    ReplayCap = 2
    BroadcastCap = 2
    OutCap = 1
    MaxSeq = 5
    MaxDrops = 2
    MaxRestarts = 1
INVARIANT TypeOK
INVARIANT BufferHoldsNewest
INVARIANT NoGapAtHandoff
PROPERTY NoDuplicateFrame
PROPERTY ContiguousDelivery
PROPERTY EventuallyDelivered
CHECK_DEADLOCK FALSE
