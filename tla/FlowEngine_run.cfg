CONSTANTS
    Graphs <- MCGraphs
    Budgets <- MCBudgets
    MaxEvals = 3
    MaxHalts = 2
    MaxInterrupts = 1
    MaxDone = 5
SPECIFICATION Spec
CHECK_DEADLOCK FALSE
INVARIANTS
    JoinWaits
    NeverTwice
    EndIsComplete
PROPERTIES
    Finishes
