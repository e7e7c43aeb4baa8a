\* Two clients.  The first passes an empty name, and hangs.  The second may be
\* killed, and its name may be too long for Resolve() or for OnResolve().  How
\* ares_gethostbyname() completes makes no difference to the clients.
SPECIFICATION LookupFairSpec
CONSTANTS
  c1 = c1  c2 = c2  r1 = r1  r2 = r2
  Clients = {c1, c2}
  MayDie = {c2}
  LongName = {r2}
  Requests = {r1, r2}
  EmptyName = {r1}
  SyncStatus = {"success"}
  MaxSocks = 1
  MayThrow = {r1, r2}
  argv <- OneAndOne
CHECK_DEADLOCK FALSE
INVARIANTS
  CallsMatchSteps FinishedMeansAllAnswered
PROPERTIES
  GoodClientsEnd CallbackReturns
