SPECIFICATION Spec
CONSTANTS
    MaxTurns = 3
    StopCap = 1
    RetryLimit <- NoRetry
    MaxItems = 1
    MaxSteers = 0
    MaxReplies = 1
PROPERTY RefusedNotResent
CHECK_DEADLOCK FALSE
