SPECIFICATION Spec
CONSTANTS
  Threads = {t1, t2}
  Tools = {a, b}
  Query = query
  Nobody = nobody
  Versions = 1
  max_size = 2
  ttl_seconds = 2
SYMMETRY Symmetry
INVARIANTS
  InStep
  VectorsMatch
  ListedIsIndexed
PROPERTY
  LruSpec
CHECK_DEADLOCK FALSE
