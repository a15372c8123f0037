SPECIFICATION Spec
CONSTANTS
  Base = 3
  WordBytes = 2
  Capacity = 4
  BufferAddress = 1
  MaxSize = 3
  PacketBytes = 3
  Strings <- MCStrings
  Ticks <- MCTicks
  Setups <- MCSetups
  MaxSends = 2
INVARIANTS
  TypeOK
  ReadsInside
  RoundTrip
CHECK_DEADLOCK FALSE
