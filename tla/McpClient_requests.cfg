SPECIFICATION FairSpec
CONSTANTS
  Threads = {t1}
  Reader = reader
  Control = control
  MaxRequests = 3
  MaxMessages = 1
  MaxConnects = 2
INVARIANT
  OwnAnswer
PROPERTY
  DisconnectReturns
CHECK_DEADLOCK FALSE
