SPECIFICATION SteadySpec
CONSTANTS
  None = None
  root = root
  turn = turn
  sub = sub
  inner = inner
  tool = tool
  ext = ext
  note = note
  leaf = leaf
  c1 = c1
  c2 = c2
  k1 = k1
  k2 = k2
  Span <- WholeSpan
  Lineage <- WholeLineage
  Kind <- WholeKind
  ConvAttr <- WholeConv
  CallAttr <- WholeCall
  Conversation = {c1, c2}
  CallId = {k1, k2}
  Eventful = {note}
  WalkDepth = 64
  ForwardDepth = 128
  Worker = {w1}
  MaxSends <- WholeSends
INVARIANTS
  TypeOK
  PointersExact
CHECK_DEADLOCK FALSE
