SPECIFICATION FairSpec
CONSTANTS
  Runners <- MCRunners
  Intraday <- MCIntraday
  Symbols <- MCSymbols
  Universe <- MCUniverse
  MaxQty = 2
  MaxTrades = 2
  MaxFaults = 1
  FaultKinds = {"submit", "leg", "poll", "unsettled", "lost", "killed", "positions", "cancel_all", "slow", "restart"}
INVARIANTS TypeOK PositionsBacked Conserved NoOrderFlips
PROPERTIES ReconcileExplains FlattenEnds
