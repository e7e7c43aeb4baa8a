\* Two browsers and one thread: every blocking call keeps all others waiting.
SPECIFICATION FairSpec
CONSTANTS
  c1 = c1  c2 = c2
  Conns = {c1, c2}
  Threads = 1
  Traffic <- AnyBrowsing
  ServiceMayStop = TRUE
INVARIANTS
  OneRequestAtATime AtMostOneLateRequest SessionReleased DataOnlyWithToken
PROPERTIES
  ConnectionAccepted ClosedIsReleased
