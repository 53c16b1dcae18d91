SPECIFICATION FairFeederSpec
CONSTANTS
  Streams = {s1}
  MaxObs = 2
  MaxFrames = 2
PROPERTY FramesGetThrough
CHECK_DEADLOCK FALSE
