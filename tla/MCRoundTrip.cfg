SPECIFICATION TripSpec
CONSTANTS
    Options <- MCTripOptions
    MayDie = TRUE
    MaxFaults = 2
    MaxRuns = 2
    Families = {"zlib", "lz"}
    MaxDecompressions = 2
INVARIANTS
    TripTypeOK
    OriginalKept
    DecompressUndone
    UncompressedIsWhole
