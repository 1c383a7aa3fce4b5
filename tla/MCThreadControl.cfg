SPECIFICATION FairSpec
CONSTANTS
    Options <- MCOptions
    MaxCalls = 6
    MaxSpurious = 1
INVARIANTS
    TypeOK
    ReleasedByNotify
PROPERTIES
    NotifiedLeaves
    DestructorReturns
