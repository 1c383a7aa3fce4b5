SPECIFICATION Spec
CONSTANTS
    Options <- MCOptions
    MayDie = TRUE
    MaxFaults = 3
    MaxRuns = 2
INVARIANTS
    TypeOK
    ContentOrBackup
    OneFailureUndone
    
    CompressedIsSame
PROPERTIES
    NotBuiltUpon
