\* The timeout of the code.
SPECIFICATION FairSpec
CONSTANT DefaultTimeout = 10
INVARIANTS
  OnlyConfiguredNetwork DisconnectConfirmed
PROPERTIES
  ProgramEnds NetworkLeft
