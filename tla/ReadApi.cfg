SPECIFICATION MCSpec
CONSTANTS
  None = None
  NoRow = NoRow
  run = run
  tool = tool
  stranger = stranger
  c1 = c1
  c2 = c2
  h1 = h1
  w1 = w1
  w2 = w2
  Span <- ApiSpan
  TraceOf <- ApiTrace
  Lineage <- ApiLineage
  ConvAttr <- ApiConv
  Events <- ApiEvents
  Conversation = {c1, c2}
  Trace = {1, 2}
  Hook = {h1}
  Worker = {w1, w2}
  Deleter = {1}
  MaxSends <- ApiSends
  MaxDeletes = 2
  Kind <- ApiKind
  Start <- ApiStart
  End <- ApiEnd
  Liked <- ApiLiked
  Text <- ApiText
  Limits = {0, 2}
  MaxLimit = 3
SYMMETRY WorkerSymmetry
INVARIANTS
  NoOrphans
  LeftComplete
  AnswersFit
  ListedIfFound
PROPERTIES
  DeletionExact
CHECK_DEADLOCK FALSE
