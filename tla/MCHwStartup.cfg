CONSTANTS
  SweepSteps = 2
  HeartbeatPeriod = 2
  PortListPeriod = 3
  TelemetryPeriods = {0, 1, 2}
  AllocationDelays = {1, 2}
  ActivePeriod = 1
  IdlePeriod = 2
  MaxLate = 4
SPECIFICATION MCSpec
INVARIANT DecidedOnMeasured
INVARIANT NoBurst
PROPERTY RunEnds
PROPERTY KeepsOwnership
CHECK_DEADLOCK TRUE
