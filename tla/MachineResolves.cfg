\* Saves come to an end under a fair connection, with late writes and two line endings.
SPECIFICATION FairSpec
CONSTANTS
  Paths = {p}
  Texts = {t0, t1}
  Formats = {lf, crlf}
  Empty = t0
  Missing = Missing
  NoSave = NoSave
  NoConflict = NoConflict
  NoRecord = NoRecord
  NoPath = NoPath
  NoWrite = NoWrite
  SaveIds = {s1, s2, s3, s4}
  LateWrites = TRUE
  ReadErrors = FALSE
  MaxMoves = 4
VIEW WithoutForgottenSaves
PROPERTIES
  SaveResolves
CHECK_DEADLOCK FALSE
