SPECIFICATION MCSpec
CONSTANTS
    j1 = j1
    r1 = r1
    r2 = r2
    c1 = c1
    c2 = c2
    NoJob = NoJob
    NoRun = NoRun
    Jobs <- OneJob
    Runs <- TwoRuns
    Callers <- TwoCallers
    Listing = TRUE
    MaxCrons = 2
    MaxCrashes = 1
    MaxFailures = 1
INVARIANT FlagHasRun
INVARIANT TokenHasRun
INVARIANT JobHasCron
PROPERTY ListHeals
CHECK_DEADLOCK FALSE
