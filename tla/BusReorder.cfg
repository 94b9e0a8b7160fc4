SPECIFICATION Spec
CONSTANTS
    p1 = p1
    p2 = p2
    c1 = c1
    Publishers <- TwoPublishers
    Clients <- OneClient
    ReplayCap = 2
    BroadcastCap = 2
    OutCap = 1
    MaxSeq = 3
    MaxDrops = 0
    MaxRestarts = 0
INVARIANT LiveInOrder
CHECK_DEADLOCK FALSE
