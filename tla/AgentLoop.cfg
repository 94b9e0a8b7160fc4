SPECIFICATION MCSpec
CONSTANTS
    MaxTurns = 2
    StopCap = 1
    RetryLimit = 1
    MaxItems = 1
    MaxSteers = 1
    MaxReplies = 1
INVARIANT TypeOK
INVARIANT CallsBounded
INVARIANT RetriesBounded
INVARIANT StoreIsConversation
INVARIANT SteersServed
PROPERTY ReplyTerminates
CHECK_DEADLOCK FALSE
