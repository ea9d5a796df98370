CONSTANTS
    Sessions = {2, 3}
    MaxIterations = 2
    None = None
    LastStage = 3
    Adapted = {1}
SPECIFICATION PipelineFairSpec
CHECK_DEADLOCK FALSE
INVARIANTS
    NoLostWakeup
    ResultIsState
    AtMostOneLate
    StageIsAwaited
PROPERTIES
    LoopEnds
    StopEnds
    PipelineReturns
