CONSTANTS
  Free = Free
  Handlers = {t1, t2}
  ClientIds = {}
  MaxId = 3
  OfflineAge = 0
  MaxAge = 1
  Named = {1}
  Audiences = {}
  MaxCopies = 1
  Quotas = {1, 2}
  Waits = {1}
SPECIFICATION FairSpec
PROPERTIES ReceiveReturns CancelReleases ListenDrains
