SPECIFICATION FairFeederSpec
CONSTANTS
  Streams = {}
  MaxObs = 3
  MaxFrames = 3
PROPERTY StopsOnSignal
CHECK_DEADLOCK FALSE
