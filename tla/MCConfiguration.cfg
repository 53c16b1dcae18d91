SPECIFICATION ConfSpec
CONSTANTS
  Paths = 2
  Symbols = {"o1", "o2", "b1", "b2"}
  Documents <- MCDocuments
  NoSymbol = NoSymbol
INVARIANTS
  ConfTypeOK
  LoadedAsWritten
  EndsForAReason
  DeclaredPutIsNumber
PROPERTY ImplementsQuote
CHECK_DEADLOCK FALSE
