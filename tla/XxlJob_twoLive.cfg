CONSTANTS
    r1 = r1
    r2 = r2
    r3 = r3
    j1 = j1
    j2 = j2
    h1 = h1
    h2 = h2
    Runs <- ThreeRuns
    Jobs <- MCJobs
    Handlers <- MCHandlers
    HandlerOf <- OwnHandlers
    Covered = {j1, j2}
    Killed = {}
    NoRun = NoRun
    NoJob = NoJob
    NoTask = NoTask
SPECIFICATION Spec
SYMMETRY MCSymmetry
CHECK_DEADLOCK FALSE
INVARIANTS
    OneLiveRunPerJob
