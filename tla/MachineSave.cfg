\* Saves of one file through disconnects, late writes, restarts, crashes and other programs.
SPECIFICATION Spec
CONSTANTS
  Paths = {p}
  Texts = {t0, t1}
  Formats = {lf}
  Empty = t0
  Missing = Missing
  NoSave = NoSave
  NoConflict = NoConflict
  NoRecord = NoRecord
  NoPath = NoPath
  NoWrite = NoWrite
  SaveIds = {s1, s2, s3, s4}
  LateWrites = TRUE
  ReadErrors = TRUE
  MaxMoves = 6
VIEW WithoutForgottenSaves
INVARIANTS
  TypeOK
  CleanIsOnMachine
PROPERTIES
  NothingUnseenOverwritten
  CrashKeepsWork
CHECK_DEADLOCK FALSE
