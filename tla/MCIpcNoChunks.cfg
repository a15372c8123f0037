SPECIFICATION Spec
CONSTANTS
  N = 0
  Setups <- RunTestSetups
  Killed = {}
  Failing = {}
  Room = 1
  MaxClock = 1
INVARIANTS
  StatisticsAsserts
CHECK_DEADLOCK FALSE
