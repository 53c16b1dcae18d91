SPECIFICATION FairFeederSpec
CONSTANTS
  Streams = {}
  MaxObs = 5
  MaxFrames = 5
INVARIANTS
  FeederTypeOK
  Conservation
PROPERTIES
  ImplementsLifecycle
  WedgedForever
  StopsOrWedges
CHECK_DEADLOCK FALSE
