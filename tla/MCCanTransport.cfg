SPECIFICATION MCSpec
CONSTANTS
  Interfaces = {1, 2}
  Healthy = {2}
  Capacity = 2
  TimeoutTicks = 3
  MaxFrames = 2
  InterfaceCount = 2
  RxQueueLength = 1
  MaxFramesPerReceive = 2
  MaxTransfersPerSpin = 2
  OffsPerSpin = 2
  Ports = {1, 2}
  Frames = {"f", "g"}
  FrameLength = 2
  MaxLine = 2
  RxLength = 2
  MaxCharsPerPop = 3
INVARIANTS
  DeliveredInTime
  LocalControlTrustsBus
  LinesWhole
PROPERTY
  NeitherBusStarves
