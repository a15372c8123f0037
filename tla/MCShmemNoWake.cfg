SPECIFICATION FairSpec
CONSTANTS
  s1 = s1
  s2 = s2
  s3 = s3
  c1 = c1
  None = None
  Servers = {s1, s2}
  Clients = {c1}
  BufferSizes = {5, 8}
  WordMod = 16
  Failing = {}
  Killed = {}
  NotifyCrosses = FALSE
PROPERTIES
  ConnectReturns
CHECK_DEADLOCK FALSE
