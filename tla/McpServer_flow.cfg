SPECIFICATION Spec
CONSTANTS
  s1 = s1
  s2 = s2
  Streams = {s1, s2}
  Kinds = {"call", "notification", "broken", "odd"}
  MaxRequests = 2
  MAX_PARSER_ERRORS = 1
  MaxNotes = 1
SYMMETRY Symmetry
INVARIANTS Accounted SentInOrder WholeUntilDeparture WriterAwake
CHECK_DEADLOCK FALSE
