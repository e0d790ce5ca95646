SPECIFICATION Spec
CONSTANTS
  None = None
  s1 = s1
  s2 = s2
  tool = tool
  chat = chat
  sub = sub
  other = other
  k1 = k1
  Session = {s1, s2}
  Span = {tool, chat, sub, other}
  Call = {k1}
  Home <- MCHome
  Kind <- MCKind
  CallOf <- MCCallOf
  Query = {"", "q"}
  Blank = ""
  Seed <- MCSeed
  Layouts <- MCLayouts
  Types <- MCTypes
  Habits <- MCHabits
  MaxAdds = 2
  MaxFailures = 1
  MaxAdvances = 1
INVARIANTS
  KeyboardHeld
  ColumnsAgree
PROPERTIES
  DeletesWhatItNamed
