\* Histories with steps that merge and join, and synchronous saves, loads and reloads.
CONSTANTS
  a = a
  b = b
  c = c
  Texts <- TwoTexts
  Empty = a
  NoFile = NoFile
  NoSave = NoSave
  Settings <- TwoSettings
  MaxUndos = 3
  AsyncSaves = FALSE
  Grouping = TRUE
  MaxRevision = 5
  MaxRequests = 0

SPECIFICATION Spec

INVARIANTS
  StepsFit
  LaterEditsRemainDirty

VIEW WithoutDiskRevision

CHECK_DEADLOCK FALSE
