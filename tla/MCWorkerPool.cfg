SPECIFICATION FairSpec
CONSTANTS
    NJobs = 3
    NReverse = 1
    NFiles = 3
INVARIANTS
    TypeOK
    FilesConserved
    CountersExact
    EventTruthful
    OnlyQuitInterrupts
PROPERTIES
    DeletedIsTerminated
    RefinesFileJobs
    QuitReturns
    StartedReturns
    AllProcessed
