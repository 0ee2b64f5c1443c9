SPECIFICATION FairSpec
CONSTANTS
  Runners <- MCShortRunners
  Marks <- MCOneMark
  Brief = "brief"
  Intraday = {"S0", "S1"}
  Minute = 3  Offset = 1  Late = 2
  PreopenAt = 1  OpenAt = 3  FlattenAt = 6  CloseAt = 12  SweepAt = 13
  BriefAt = 0  LateBrief = 5
  Recheck = 2  Retry = 3  Horizon = 14  Busy = 1
  MaxCrashes = 1  MaxRaises = 1  MaxRequests = 1
  Reachable = {FALSE}
PROPERTIES RecordedOnce SweepAfterFlatten RequestServed FlattensDaily
