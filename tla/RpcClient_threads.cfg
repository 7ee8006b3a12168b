SPECIFICATION FairSpec
CONSTANTS
  MAX_RETRY_COUNT = 5
  MaxIds = 2
INVARIANTS NeverTerminated StubExists NoLateHeartbeat
PROPERTY StopHeartbeatReturns
CHECK_DEADLOCK FALSE
