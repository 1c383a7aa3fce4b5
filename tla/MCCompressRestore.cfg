SPECIFICATION Spec
CONSTANTS
    Options <- MCBlocks
    MayDie = FALSE
    MaxFaults = 1
    MaxRuns = 1
INVARIANTS
    RestoreFileRestores
