SPECIFICATION Spec
CONSTANTS
  None = None
  sessions = sessions
  tree = tree
  hits = hits
  a = a
  b = b
  Key = {sessions, hits}
  Segment <- MCSegment
  Selections <- NoSelection
  Envelope <- Turns
  Task = {t1, t2}
  SpanCap = 1
  MaxGeneration = 4
  MaxVersion = 1
  MaxDisturbances = 3
SYMMETRY TaskSymmetry
INVARIANTS
  TypeOK
  Orderly
  RestsCaughtUp
PROPERTIES
  KeepsContract
CHECK_DEADLOCK FALSE
