SPECIFICATION FairSpec
CONSTANTS
  N = 2
  Setups <- FailSetups
  Killed = {"analyzer", "consumer", "producer"}
  Failing = {"analyzer", "consumer", "producer"}
  Room = 2
  MaxClock = 2
INVARIANTS
  CausalTicks
  LocalAnalysisFaithful
  ReturnsWhenAllIsOver
PROPERTIES
  EndsOverSockets
CHECK_DEADLOCK FALSE
