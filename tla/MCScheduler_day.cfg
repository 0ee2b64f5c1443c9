SPECIFICATION Spec
CONSTANTS
  Runners <- MCRunners
  Marks <- MCMarks
  Brief = "brief"
  Intraday = {"S0", "S1"}
  Minute = 3  Offset = 1  Late = 2
  PreopenAt = 2  OpenAt = 12  FlattenAt = 24  CloseAt = 30  SweepAt = 32
  BriefAt = 1  LateBrief = 18
  Recheck = 4  Retry = 3  Horizon = 40  Busy = 2
  MaxCrashes = 0  MaxRaises = 0  MaxRequests = 0
  Reachable = {TRUE}
INVARIANTS TypeOK NeverOversleeps NoMinuteLost CyclesStart
