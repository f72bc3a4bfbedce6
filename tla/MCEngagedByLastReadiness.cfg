CONSTANTS
    MaxTransfers = 2
    InitializeMayFail = FALSE
SPECIFICATION Spec
PROPERTY EngagedByLastReadiness
