SPECIFICATION FairSpec
CONSTANTS
  Agents = {a1, a2, a3}
  Skills = {math}
  AgentLists <- Lists
  MaxIndex = 6
  Weights = {0, 2, 3}
  IntMax = 9
  MaxEndpoints = 2
  MaxSelects = 6
  RegistryIds = {r1, r2}
  Tags = {x, y}
  Callers = {u1, u2}
  Services = {s1, s2}
  NoOne = nobody
  HealthCheck = health
  Loggers = {l1, l2}
  max_files_ = 2
  max_file_size_ = 2
  MaxEntries = 6
  MaxStarts = 3
  Recorders = {m1, m2, m3}
  BucketLimit = 2
  MaxRecords = 4
SYMMETRY Symmetry
INVARIANTS
  RotatesEvenly
  PairShares
  TagsFind
  ReportsOnlyRegistered
  FilesKeepTail
  Tallied
PROPERTY
  EntriesWritten
CHECK_DEADLOCK FALSE
