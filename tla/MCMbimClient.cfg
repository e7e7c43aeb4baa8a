\* The limits of the code, and three rounds of each wait.
SPECIFICATION FairSpec
CONSTANTS
  NumLenMax = 6
  TextLenMax = 160
  BufLen = 256
  Messages <- MessagesUsed
  TimeoutS = 3
  Attempts = 3
INVARIANTS
  SentAsWritten PassedMeansSynced
PROPERTY
  SessionEnds
