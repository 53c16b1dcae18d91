SPECIFICATION FeederSpec
CONSTANTS
  Streams = {}
  MaxObs = 1
  MaxFrames = 1
INVARIANT SocketNotShared
CHECK_DEADLOCK FALSE
