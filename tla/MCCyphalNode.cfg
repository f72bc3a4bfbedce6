SPECIFICATION MCSpec
CONSTANTS
    OwnIds = {1, 2} OtherIds = {3} Own = own Other = other
    Base = 10 SetpointPort = 12 FixedPort = 20 Follows = 99
    MaxListeners = 3 MaxTransfers = 2 MaxReceived = 2
    MaxTripVoltage = 8 MaxCommandTimeout = 4 MaxMode = 2 Exact = 4 Reals = {0, 1, 2, 4, 8}
INVARIANTS IdentityKept WritesTaken
PROPERTY IdAllocated
CHECK_DEADLOCK FALSE
