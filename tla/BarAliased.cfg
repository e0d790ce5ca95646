SPECIFICATION Spec
CONSTANTS
  NoChat = NoChat
  Nobody = Nobody
  Null = Null
PROPERTIES
  EnterNeverAliases
CHECK_DEADLOCK FALSE
