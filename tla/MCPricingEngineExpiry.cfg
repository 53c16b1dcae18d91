SPECIFICATION EngineSpec
CONSTANTS
  BufSize = 2
  Times = {1, 2}
  Prices = {5}
  MaxBatch = 2
  MaxSamples = 4
  Spot = btc
  Symbols = {btc, call, uncoded}
  Options = {call, uncoded}
  SpotOf <- MCSpotOf
  Coded = {btc, call}
  Rate = "nonneg"
INVARIANT PaidOffAtExpiry
CHECK_DEADLOCK FALSE
