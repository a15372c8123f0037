SPECIFICATION FairSpec
CONSTANTS
  Capacity = 12
  VersionMod = 3
  MsgBufCapacity = 7
  Lengths = {0, 1, 5, 8, 9}
  Tags = 2
  Payloads <- MCPayloads
INVARIANTS
  TypeOK
  AssertsHold
  NoDataRace
  InFlightIntact
  PopReturnsOldest
PROPERTIES
  RefinesChannel
  PushCompletes
  Drains
CHECK_DEADLOCK FALSE
