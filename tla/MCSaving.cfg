CONSTANTS
    c1 = c1
    c2 = c2
    s1 = s1
    s2 = s2
    Drivers = {c1, c2}
    Savers = {c1, s1, s2}
    N = 3
    Values <- MCValues
    Factory <- MCFactory
    Valid <- MCValid
    Absent = Absent
    Bad = Bad
SPECIFICATION MCSpec
INVARIANT FlashWrittenWithOutputsOff
INVARIANT FaultDrivenOnlyInRecheck
INVARIANT ShadowMirrorsStorage
PROPERTY CallsFinish
PROPERTY SuccessIsDurable
PROPERTY KeepsContract
CHECK_DEADLOCK TRUE
