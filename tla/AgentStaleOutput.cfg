SPECIFICATION Spec
CONSTANTS
    MaxTurns = 2
    StopCap = 1
    RetryLimit <- NoRetry
    MaxItems = 1
    MaxSteers = 0
    MaxReplies = 2
INVARIANT FinalOutputGivenOut
CHECK_DEADLOCK FALSE
