\* Callbacks may throw and names may fail at once; both threads and the library
\* are fair.  A leaked channel lock or an ended process stops everything.
SPECIFICATION FairSpec
CONSTANTS
  r1 = r1  r2 = r2  r3 = r3  r4 = r4
  Requests = {r1, r2, r3, r4}
  EmptyName = {r4}
  MayThrow = {r1, r2}
  SyncStatus = {"success", "failed"}
  MaxSocks = 2
CHECK_DEADLOCK FALSE
INVARIANTS
  NoLostAnswer NoLostWakeup TimeoutDefined NodeAlive
PROPERTIES
  ImplementsService ShutdownCompletes AnswersUnlessLeaked
