CONSTANTS
  Order <- MCOrder
  Sorted <- MCSorted
  Readings <- MCReadings
  Bars = 5
  EntriesEnd = 4
  MaxHold = 2
  Cooldown = 2
  Slots = 1
  KillAt <- MCKillAt
  MaxFaults = 2
SPECIFICATION Spec
INVARIANTS TypeOK AsReplayed
PROPERTY FollowsRules
CHECK_DEADLOCK FALSE
