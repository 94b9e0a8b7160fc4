SPECIFICATION FairSpec
CONSTANTS
    s1 = s1
    s2 = s2
    c1 = c1
    c2 = c2
    x1 = x1
    l1 = l1
    l2 = l2
    l3 = l3
    NoSession = NoSession
    NoCaller = NoCaller
    NoLock = NoLock
    Sessions <- TwoSessions
    Callers <- TwoCallers
    Removers <- OneRemover
    Locks <- ThreeLocks
    MaxSessions = 1
INVARIANT TypeOK
INVARIANT BuiltOnce
INVARIANT LocksPruned
INVARIANT BusyWhileReplying
PROPERTY CreationEnds
CHECK_DEADLOCK FALSE
