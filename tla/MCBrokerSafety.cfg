SPECIFICATION Spec
CONSTANTS
  Streams = {s1, s2}
  MaxObs = 3
SYMMETRY Symmetry
INVARIANTS
  TypeOK
  Registered
  FreshStart
PROPERTIES
  LeakNeedsOvertaking
  ImplementsLossyFeed
CHECK_DEADLOCK FALSE
