SPECIFICATION Spec
CONSTANTS
  Runners <- MCRunners
  Intraday <- MCIntraday
  Symbols <- MCSymbols
  Universe <- MCUniverse
  MaxQty = 2
  MaxTrades = 2
  MaxFaults = 0
  FaultKinds = {}
INVARIANT FlattenedClean
