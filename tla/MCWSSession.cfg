SPECIFICATION FairSessionSpec
CONSTANTS
  Streams = {s1}
  MaxObs = 2
INVARIANTS
  SessionTypeOK
  SessionOver
  WireOrder
PROPERTIES
  ImplementsBroker
  GoneIsReleased
  ReaderEndsSession
  PeerIsServed
CHECK_DEADLOCK FALSE
