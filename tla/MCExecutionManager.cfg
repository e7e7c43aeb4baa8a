\* One application more than the code has, so that one is neither first nor last.
SPECIFICATION FairSpec
CONSTANT NumApps = 3
INVARIANTS
  NotifiedByTheOneStarted StoppedAfterWork SuccessMeansStopped
PROPERTIES
  ClientEnds AliveIsStopped
