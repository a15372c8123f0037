SPECIFICATION FairSpec
CONSTANTS
  N = 3
  Setups <- NominalSetups
  Killed = {}
  Failing = {}
  Room = 2
  MaxClock = 3
INVARIANTS
  TypeOK
  ReceivedInOrder
  AnalysisFaithful
  DelaysMakeSense
  StatisticsAsserts
  NothingLeftBehind
PROPERTIES
  RefinesMeasurement
  Completes
CHECK_DEADLOCK FALSE
