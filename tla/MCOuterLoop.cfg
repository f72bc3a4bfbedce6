CONSTANTS
    Gains = {g1, g2}
    Positions = {p1, p2}
    CountModulus = 2
    GainsModulus = 3
    BlockSteps = 2
SYMMETRY MCSymmetry
SPECIFICATION Spec
INVARIANT HomeKnown
PROPERTY GainsTaken
PROPERTY HoldsHome
CHECK_DEADLOCK TRUE
