SPECIFICATION FairSpec
CONSTANTS
    MaxJobs = 2
    MaxUncounted = 1
    Paths <- MCPaths
    Inode <- MCInode
    Size <- MCSize
    Compressable <- MCCompressable
    Compressed0 <- MCCompressed0
    ArgLists <- MCArgLists
    Settings <- MCSettings
INVARIANTS
    DiskIOExclusive
    QueueIsScan
    StatsOfTheRun
PROPERTIES
    AllProcessed
