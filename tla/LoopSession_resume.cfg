CONSTANTS
    Sessions = {s1}
    MaxIterations = 2
    None = None
SPECIFICATION Spec
CHECK_DEADLOCK FALSE
INVARIANT SleeperCanResume
