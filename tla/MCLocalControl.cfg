SPECIFICATION MCSpec
CONSTANTS
    PulsesPerRev = 4 StopTimeout = 3 ZeroHold = 5 MaxStep = 2 MaxPulses = 3
    QueueSize = 5 MaxStall = 4 Limits = {0, 2} RiseTime = 2 FallTime = 1 TorqueFloor = 1
    DefaultSeed = 1 MaxSeed = 2 DisplaySeeds = {1, 2} DisplayTimeout = 2 MaxCorrupt = 2
    Torques <- MCTorques LimpHomeTorque = 2 TorqueRamp = 1 CartTimeout = 1 CommandTimeout = 2 MaxSpeed = 2
INVARIANT MeanOfHalfTurn
PROPERTIES StandstillSeen DisplayFollowed FaultHoldsDriveOff DemandFollowed SilenceSurvived
