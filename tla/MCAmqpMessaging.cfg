\* Three messages of the publisher and one of the host.
CHECK_DEADLOCK FALSE
SPECIFICATION FairSpec
CONSTANTS
  Count = 3
  messageBody <- Numbered
  HostBodies <- BodiesUsed
  MaxHost = 1
INVARIANT
  ShownAsRouted
PROPERTY
  PublishedArrive
