CONSTANTS
    Graphs <- MCNested
    Budgets <- MCUnlimited
    MaxEvals = 1
    MaxHalts = 0
    MaxInterrupts = 0
    MaxDone = 5
SPECIFICATION Spec
CHECK_DEADLOCK FALSE
INVARIANT JoinWaits
