SPECIFICATION FairSpec
CONSTANTS
  s1 = s1
  s2 = s2
  s3 = s3
  c1 = c1
  None = None
  Servers = {s1, s2, s3}
  Clients = {c1}
  BufferSizes = {0, 5, 8, 14}
  WordMod = 16
  Failing = {s1, s2}
  Killed = {s2, s3}
  NotifyCrosses = TRUE
INVARIANTS
  TypeOK
  ConnectedIsConstructed
  NameIsOwned
PROPERTIES
  NameChangesOnlyByOwner
  ConnectReturns
CHECK_DEADLOCK FALSE
