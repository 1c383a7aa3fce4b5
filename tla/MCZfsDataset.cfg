SPECIFICATION FairSpec
CONSTANTS
    Workers = {w1, w2}
    Files = {f1, f2, f3}
    Invocations <- MCInvocations
    WriteFaults = TRUE
    MaxUnflushed = 1
    CommandFaults = TRUE
    PathFaults = TRUE
    Quits = TRUE
INVARIANTS
    TypeOK
    RefcountExact
    CurrentIsProperty
    CompressionHeld
    LabelTruthful
    ResetWhenIdle
    RestoredAtExit
    BackupKept
PROPERTIES
    Ends
