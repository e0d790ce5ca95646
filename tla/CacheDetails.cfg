SPECIFICATION FairSpec
CONSTANTS
  None = None
  sessions = sessions
  tree = tree
  hits = hits
  a = a
  b = b
  Key = {a, b}
  Segment <- MCSegment
  Selections <- OneSelected
  Envelope <- NoEnvelope
  Task = {t1, t2}
  SpanCap = 1
  MaxGeneration = 2
  MaxVersion = 0
  MaxDisturbances = 1
INVARIANTS
  FlightsEnd
  LruExact
PROPERTIES
  ReadersReturn
CHECK_DEADLOCK FALSE
