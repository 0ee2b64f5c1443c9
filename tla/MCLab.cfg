CONSTANTS
  Labs = {l1, l2}
  Candidates <- MCCandidates
  MinTrades = 1
  TradeCounts = {0, 1}
  MaxLabRuns = 2
  MaxForms = 2
SPECIFICATION LabSpec
INVARIANT OnePending
PROPERTY DecisionsStand
CHECK_DEADLOCK FALSE
