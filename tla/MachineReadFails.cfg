\* Do saves come to an end when the server can fail to read the file?
SPECIFICATION FairSpec
CONSTANTS
  Paths = {p}
  Texts = {t0, t1}
  Formats = {lf}
  Empty = t0
  Missing = Missing
  NoSave = NoSave
  NoConflict = NoConflict
  NoRecord = NoRecord
  NoPath = NoPath
  NoWrite = NoWrite
  SaveIds = {s1, s2, s3, s4}
  LateWrites = FALSE
  ReadErrors = TRUE
  MaxMoves = 2
VIEW WithoutForgottenSaves
PROPERTIES
  SaveResolves
CHECK_DEADLOCK FALSE
