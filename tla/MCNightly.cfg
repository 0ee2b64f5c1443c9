CONSTANTS
  Steps <- MCSteps
  Labs = {l1}
  Candidates <- MCCandidates
  MinTrades = 1
  TradeCounts = {1}
  MaxLabRuns = 1
  MaxForms = 0
  Days = 1
  Waits = {"S0"}
  MaxTrades = 2
  MaxKills = 1
SPECIFICATION Spec
INVARIANTS TypeOK WindowsExact
PROPERTY ChainEnds
CHECK_DEADLOCK FALSE
