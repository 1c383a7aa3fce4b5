SPECIFICATION FairSpec
CONSTANTS
    NJobs = 2
    NReverse = 0
    NFiles = 2
PROPERTY RunReturns
