SPECIFICATION Spec
CONSTANTS
  None = None
  root = root
  turn = turn
  sub = sub
  inner = inner
  tool = tool
  ext = ext
  note = note
  leaf = leaf
  c1 = c1
  c2 = c2
  k1 = k1
  k2 = k2
  Span <- SpawnSpan
  Lineage <- SpawnLineage
  Kind <- SpawnKind
  ConvAttr <- SpawnConv
  CallAttr <- SpawnCall
  Conversation = {c1, c2}
  CallId = {k1, k2}
  Eventful = {tool}
  WalkDepth = 64
  ForwardDepth = 128
  Worker = {w1, w2}
  MaxSends <- SpawnSends
SYMMETRY WorkerSymmetry
INVARIANTS
  ConversationExact
  Accountable
  DerivedComplete
PROPERTIES
  KeepsLedger
CHECK_DEADLOCK FALSE
