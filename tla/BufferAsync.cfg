\* Background saves with late results among edits, undo steps, newer saves, loads and other programs.
CONSTANTS
  a = a
  b = b
  c = c
  Texts <- TwoTexts
  Empty = a
  NoFile = NoFile
  NoSave = NoSave
  Settings <- OneSetting
  MaxUndos = 3
  AsyncSaves = TRUE
  Grouping = FALSE
  MaxRevision = 4
  MaxRequests = 2

SPECIFICATION FairSpec

INVARIANTS
  CleanIsSaved

PROPERTIES
  NeverOlder
  BackgroundKeepsOtherWork
  FinishIsHonest
  BackgroundSaveEnds

CHECK_DEADLOCK FALSE
