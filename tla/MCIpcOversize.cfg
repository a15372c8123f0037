SPECIFICATION FairSpec
CONSTANTS
  N = 2
  Setups <- ChunkOverMessage
  Killed = {}
  Failing = {}
  Room = 2
  MaxClock = 1
PROPERTIES
  Transferred
CHECK_DEADLOCK FALSE
