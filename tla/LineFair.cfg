SPECIFICATION FairSpec
CONSTANTS
  None = None
  root = root
  turn = turn
  sub = sub
  inner = inner
  tool = tool
  ext = ext
  note = note
  leaf = leaf
  c1 = c1
  c2 = c2
  k1 = k1
  k2 = k2
  Span <- LineSpan
  Lineage <- LineLineage
  Kind <- LineKind
  ConvAttr <- LineConv
  CallAttr <- LineCall
  Conversation = {c1, c2}
  CallId = {k1, k2}
  Eventful = {}
  WalkDepth = 64
  ForwardDepth = 128
  Worker = {w1, w2}
  MaxSends <- LineSends
INVARIANTS
  TurnsRecounted
  PairedUp
  InsertMeansNew
PROPERTIES
  EventuallyLinked
CHECK_DEADLOCK FALSE
