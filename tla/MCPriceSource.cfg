SPECIFICATION FairSourceSpec
CONSTANTS
  BufSize = 2
  Times = {1}
  Prices = {5}
  MaxBatch = 1
  MaxSamples = 3
  MaxQueue = 2
  MaxMessages = 3
  Spot = btc
  Symbols = {btc, call, uncoded}
  Options = {call, uncoded}
  SpotOf <- MCSpotOf
  Coded = {btc, call}
  Rate = "nonneg"
INVARIANTS
  SourceTypeOK
  NoInsertWhileDelivering
  MessagesAccounted
PROPERTIES
  ImplementsEngine
  MissedOnlyAtStart
  ThreadsServed
CHECK_DEADLOCK FALSE
