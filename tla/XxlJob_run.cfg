CONSTANTS
    r1 = r1
    r2 = r2
    r3 = r3
    j1 = j1
    j2 = j2
    h1 = h1
    h2 = h2
    Runs <- TwoRuns
    Jobs <- MCJobs
    Handlers <- MCHandlers
    HandlerOf <- OwnHandlers
    Covered = {j2}
    Killed = {j2}
    NoRun = NoRun
    NoJob = NoJob
    NoTask = NoTask
SPECIFICATION FairSpec
CHECK_DEADLOCK FALSE
INVARIANTS
    OneRunPerJob
    IdleBeatIsTrue
    OwnArguments
    NoStuckJob
PROPERTIES
    EveryRunCallsBack
