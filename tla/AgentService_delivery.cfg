CONSTANTS
  Free = Free
  Handlers = {t1, t2}
  ClientIds = {c1}
  MaxId = 2
  OfflineAge = 2
  MaxAge = 3
  Named = {1, 2}
  Audiences <- Lists
  MaxCopies = 2
  Quotas = {2}
  Waits = {1}
SPECIFICATION Spec
SYMMETRY Symmetry
INVARIANTS TypeOK OneQueuePerAgent IteratorStaysValid Accounted
PROPERTY MailboxSpec
