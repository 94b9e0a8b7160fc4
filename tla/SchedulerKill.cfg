SPECIFICATION MCSpec
CONSTANTS
    j1 = j1
    r1 = r1
    r2 = r2
    c1 = c1
    c2 = c2
    NoJob = NoJob
    NoRun = NoRun
    Jobs <- OneJob
    Runs <- OneRun
    Callers <- OneCaller
    Listing = FALSE
    MaxCrons = 2
    MaxCrashes = 0
    MaxFailures = 0
PROPERTY KillReachesRun
CHECK_DEADLOCK FALSE
