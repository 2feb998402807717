\* Two files and three texts: Save As while saves are open.
SPECIFICATION Spec
CONSTANTS
  Paths = {p, q}
  Texts = {t0, t1, t2}
  Formats = {lf}
  Empty = t0
  Missing = Missing
  NoSave = NoSave
  NoConflict = NoConflict
  NoRecord = NoRecord
  NoPath = NoPath
  NoWrite = NoWrite
  SaveIds = {s1, s2, s3, s4}
  LateWrites = TRUE
  ReadErrors = FALSE
  MaxMoves = 4
VIEW WithoutForgottenSaves
SYMMETRY Interchangeable
PROPERTIES
  ClosedLeavesNoRecord
  WaitingSaveAsGoesOut
CHECK_DEADLOCK FALSE
