CONSTANTS
    MaxCycles = 6
    MaxOverlap = 1
    SequenceModulus = 4
    CyclesPerStep = 2
SPECIFICATION Spec
INVARIANT CycleSeesWhole
PROPERTY EstimateWhole
INVARIANT LossesCounted
CHECK_DEADLOCK TRUE
