CONSTANTS
    MaxTransfers = 2
    InitializeMayFail = TRUE
SPECIFICATION FairSpec
INVARIANT OneOwner
INVARIANT NoChangeForgotten
PROPERTY EngagementEnds
CHECK_DEADLOCK TRUE
