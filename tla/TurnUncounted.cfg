SPECIFICATION SteadySpec
CONSTANTS
  None = None
  root = root
  turn = turn
  sub = sub
  inner = inner
  tool = tool
  ext = ext
  note = note
  leaf = leaf
  c1 = c1
  c2 = c2
  k1 = k1
  k2 = k2
  Span <- SpawnSpan
  Lineage <- SpawnLineage
  Kind <- SpawnKind
  ConvAttr <- SpawnConv
  CallAttr <- SpawnCall
  Conversation = {c1, c2}
  CallId = {k1, k2}
  Eventful = {}
  WalkDepth = 64
  ForwardDepth = 128
  Worker = {w1}
  MaxSends <- SpawnSends
INVARIANTS
  ToolCountsFresh
CHECK_DEADLOCK FALSE
