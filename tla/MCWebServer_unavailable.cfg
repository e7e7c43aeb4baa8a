\* The token service may stop.
SPECIFICATION Spec
CONSTANTS
  c1 = c1  c2 = c2
  Conns = {c1, c2}
  Threads = 2
  Traffic <- Browsing
  ServiceMayStop = TRUE
INVARIANT
  SurvivesServiceLoss
