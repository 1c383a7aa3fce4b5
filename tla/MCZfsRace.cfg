SPECIFICATION Spec
CONSTANTS
    Workers = {w1, w2}
    Files = {f1, f2}
    Invocations <- MCConcurrent
    WriteFaults = FALSE
    MaxUnflushed = 0
    CommandFaults = FALSE
    PathFaults = FALSE
    Quits = FALSE
INVARIANTS
    HeldWhileProcessed
