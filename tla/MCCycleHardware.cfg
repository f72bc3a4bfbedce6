SPECIFICATION MCSpec
CONSTANTS
  PlanNumbers = 3
  MaxSpan = 2
  HallCodes = {1, 2, 3}
  NoCode = 0
  N = 2
  IndexModulus = 4
  TurnsInInit = FALSE
  Times = {1, 3}
  CountModulus = 4
  MaxRecords = 6
  MaxOverlap = 2
  Counts = 8
  PolePairs = 2
  MaxTurns = 2
  Speeds <- MCSpeeds
  Positions = {0, 3}
  SpeedSetpoints <- MCSpeedSetpoints
  CurrentSetpoints <- MCCurrents
  Voltages = {0, 3}
  Limits <- MCLimits
  DerateStart = 2
  Trip = 4
  TorqueLimit = 6
  Kp = 1
  IntegralStep = 2
  AccelStep = 1
  SpeedMin <- MCSpeedMin
  SpeedMax = 2
  SpeedLimit = 2
  PositionStep = 1
  DemandStep = 1
  JumpThreshold = 1
  HomingSpeed = 2
  HomingTorque = 5
  BlockSteps = 2
  StepsModulus = 1
  CycleNs = 5
  TickNs = 2
  PlanCount = 3
  Loads = {0, 1}
  DefaultLoad = 0
  MaxCycles = 4
  DataBits = 2
  BitTicks = 2
  TickModulus = 26
  EdgeQueueSize = 5
  FifoSize = 1
  ReadGap = 4
  TimerRange = 16
  MaxAge = 4
  Standstill = 2
  QueueSize = 2
  MaxHallEvents = 2
VIEW MCView
INVARIANTS
  AppliedAsRecorded
  StatisticsTrue
  MeasuresTruth
  NoTurnLost
  NoWindup
  SimLikeHardware
  BytesAsSent
PROPERTY
  QueueIsFifo
