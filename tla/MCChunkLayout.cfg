SPECIFICATION Spec
CONSTANTS
    compblksize = 65536
    MaxXattrSize = 3802
    MaxSupportedSize = 2147483647
    FileSizes <- MCFileSizes
    CompressedSizes <- MCCompressedSizes
    Deltas <- MCDeltas
INVARIANTS
    TypeOK
    InBounds
    RoundTrips
