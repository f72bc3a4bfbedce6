SPECIFICATION FairLoopSpec
CONSTANTS
  Speeds = {0, 2}
  Positions = {0}
  SpeedSetpoints = {2}
  CurrentSetpoints = {2}
  Voltages = {0}
  Limits <- MCLimits
  DerateStart = 2
  Trip = 4
  TorqueLimit = 6
  Kp = 1
  IntegralStep = 2
  AccelStep = 1
  SpeedMin <- MCSpeedMin
  SpeedMax = 2
  SpeedLimit = 2
  PositionStep = 1
  DemandStep = 1
  JumpThreshold = 1
  HomingSpeed = 2
  HomingTorque = 5
  BlockSteps = 2
  StepsModulus = 2
PROPERTY StopEndsHoming
