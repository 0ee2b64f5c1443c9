CONSTANTS
  Symbols = {"SPY", "SH", "AMD"}
  INVERSE <- MCInverse
  DaySignals <- MCDaySignals
  Dates = 5
  Sessions = {1, 3, 5}
  Weekend = {4}
  StartEquity = 100
  MinOrder = 1
  Sleeves <- MCSleeves
  Grid = 2
  KillAt = {"trade", "check", "write"}
  MaxRuns = 3
SPECIFICATION Spec
INVARIANTS TypeOK CashKept LedgerChains OneStepADate
CHECK_DEADLOCK FALSE
