SPECIFICATION MemorySpec
CONSTANTS
  t1 = t1
  t2 = t2
  a = a
  b = b
  x = x
  Threads = {t1, t2}
  TaskIds = {a}
  Contexts = {x}
  MayChange <- Shared
  Redis = FALSE
  MaxMessages = 0
  MaxArtifacts = 0
  None = None
PROPERTY TerminalStays
