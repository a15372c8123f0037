SPECIFICATION FairSpec
CONSTANTS
  s1 = s1  s2 = s2  s3 = s3
  c1 = c1  c2 = c2
  Servers = {s1, s2, s3}
  Clients = {c1, c2}
  Runs <- OneId
  Failing = {s1}
  Killed = {s2}
  None = None
INVARIANTS
  TypeOK
  NamesGoWithServers
  FoundUnderItsName
PROPERTIES
  ConnectsWhenReachable
  KeptWhileServed
CHECK_DEADLOCK FALSE
