CONSTANTS
  Sleeves = {"S0", "S1"}
  Marks <- MCMarks
  RateLimit = 3
  Stale = 1
  Back = 4
  KillAt = {"off", "check", "send"}
  Outcomes = {"sent", "failed"}
  Horizon = 6
  MaxKills = 2
SPECIFICATION Spec
INVARIANTS OncePerLimit NeverSilent
CHECK_DEADLOCK FALSE
