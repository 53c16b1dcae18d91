SPECIFICATION WireSpec
CONSTANTS
  Symbols = {"BTCUSDT", "BTC-19DEC25-88500-C-USDT", "ETHUSDT"}
  Code <- MCCode
  Instrument <- MCInstrument
  Unnamed = ""
  Nothing = Nothing
  Values = {0, 7, 10, 2567, 2147483630}
  Stamps <- MCStamps
INVARIANTS
  UnknownDiscarded
CHECK_DEADLOCK FALSE
