SPECIFICATION EngineSpec
CONSTANTS
  BufSize = 2
  Times = {1, 2, 3}
  Prices = {5}
  MaxBatch = 2
  MaxSamples = 4
  Spot = btc
  Symbols = {btc, call, uncoded}
  Options = {call, uncoded}
  SpotOf <- MCSpotOf
  Coded = {btc, call}
  Rate = "nonneg"
INVARIANTS
  EngineTypeOK
  FreshParameters
  CausalPricing
  Tumbling
  DefaultIffTies
PROPERTY UndefinedOnlyFromGrid
CHECK_DEADLOCK FALSE
