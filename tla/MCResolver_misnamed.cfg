\* A malformed name fails while ares_gethostbyname is still running.
SPECIFICATION Spec
CONSTANTS
  r1 = r1  r2 = r2  r3 = r3  r4 = r4
  Requests = {r1, r2, r3}
  EmptyName = {}
  MayThrow = {}
  SyncStatus = {"success", "failed"}
  MaxSocks = 2
INVARIANT
  AnswersNameTheirHost
