SPECIFICATION Spec
CONSTANTS
    Workers = {w1, w2}
    Files = {f1, f2}
    Invocations <- MCExclusive
    WriteFaults = FALSE
    MaxUnflushed = 0
    CommandFaults = FALSE
    PathFaults = FALSE
    Quits = TRUE
INVARIANTS
    RestoredAfterQuit
