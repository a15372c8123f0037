SPECIFICATION Spec
CONSTANTS
  N = 1
  Setups <- MeasurerTypesDiffer
  Killed = {}
  Failing = {}
  Room = 1
  MaxClock = 2
INVARIANTS
  AnalysisFaithful
CHECK_DEADLOCK FALSE
