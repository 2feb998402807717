\* Edits during a background save, and then undo: does the Buffer know that it is unsaved?
CONSTANTS
  a = a
  b = b
  c = c
  Texts <- TwoTexts
  Empty = a
  NoFile = NoFile
  NoSave = NoSave
  Settings <- OneSetting
  MaxUndos = 3
  AsyncSaves = TRUE
  Grouping = FALSE
  MaxRevision = 6
  MaxRequests = 1

SPECIFICATION Spec

INVARIANT
  LaterEditsRemainDirty

CHECK_DEADLOCK FALSE
