SPECIFICATION EitherSpec
CONSTANTS
  x = x
  y = y
  t1 = t1
  t2 = t2
  a = a
  b = b
  Threads = {t1, t2}
  TaskIds = {a, b}
  Contexts = {x, y}
  MayChange <- Owned
  Redis = FALSE
  MaxMessages = 2
  MaxArtifacts = 1
  None = None
SYMMETRY Symmetry
INVARIANTS TypeOK IndexAgrees HistoryComplete ListenerKnowsMemory
PROPERTIES CreateIsFresh MachineSpec
CHECK_DEADLOCK FALSE
