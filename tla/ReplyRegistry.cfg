SPECIFICATION FairSpec
CONSTANTS
    t1 = t1
    t2 = t2
    t3 = t3
    r1 = r1
    r2 = r2
    r3 = r3
    NoTask = NoTask
    Tasks <- ThreeTasks
    RequestIds <- ThreeIds
    UniqueIds = TRUE
INVARIANT OneLiveRequest
INVARIANT LiveIsCancellable
INVARIANT NoLeakedEntry
PROPERTY AcceptedIsAnswered
CHECK_DEADLOCK FALSE
