\* The first client passes an empty name.
SPECIFICATION LookupFairSpec
CONSTANTS
  c1 = c1  c2 = c2  r1 = r1  r2 = r2
  Clients = {c1, c2}
  MayDie = {}
  LongName = {}
  Requests = {r1, r2}
  EmptyName = {r1}
  SyncStatus = {"success", "failed"}
  MaxSocks = 1
  MayThrow = {r1, r2}
  argv <- OneAndOne
CHECK_DEADLOCK FALSE
PROPERTY
  AllClientsEnd
