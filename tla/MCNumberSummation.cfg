\* Both clients, or one of them alone; the servers may fail.
SPECIFICATION FairSpec
CONSTANTS
  clientC = clientC  clientCXX = clientCXX
  Clients = {clientC, clientCXX}
  CClients = {clientC}
  Operands <- TwoPairs
  MayFail = {0, 1}
INVARIANTS
  DeniedOnlyAfterBothBusy AtMostOncePerServer ResultIsOwnSum
PROPERTIES
  RequestEnds AloneGetsSums
