SPECIFICATION Spec
CONSTANTS
  Runners <- MCRunners
  Intraday <- MCIntraday
  Symbols <- MCSymbols
  Universe <- MCUniverse
  MaxQty = 2
  MaxTrades = 2
  MaxFaults = 2
  FaultKinds = {"restart", "slow", "submit"}
INVARIANTS OneOpenTrade NothingForgotten
PROPERTIES OthersSpared
