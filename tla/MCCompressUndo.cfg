SPECIFICATION Spec
CONSTANTS
    Options <- MCNested
    MayDie = FALSE
    MaxFaults = 1
    MaxRuns = 1
INVARIANTS
    FailureUndone
