SPECIFICATION Spec
CONSTANTS
  NoChat = NoChat
  Nobody = Nobody
  Null = Null
INVARIANTS
  PaneSound
  BoardSound
  ChatsSound
  FilesSound
  ContextSound
  ToolSound
PROPERTIES
  PaneHovers
  BoardUnfolds
  ChatsKeep
  ContextKeeps
  ToolKeeps
  ColumnsCatchUp
CHECK_DEADLOCK FALSE
