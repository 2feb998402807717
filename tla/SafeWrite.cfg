\* One file, two texts, two backups, every crash, failure and other program.
SPECIFICATION Spec
CONSTANTS
  Texts = {t1, t2}
  Torn = Torn
  Missing = Missing
  Ids = {i1, i2, i3}
  Stamps = {s1, s2, s3, s4}
  None = None
  NoFile = NoFile
  NoSave = NoSave
  NoBase = NoBase
  MaxBackups = 2
SYMMETRY Interchangeable
VIEW Remembered
\* Nobody has to save or load, and a model with all its backups in use does not begin a save.
CHECK_DEADLOCK FALSE
PROPERTIES
  KeepsText
  OthersTextKept
  EndsWhole
  TornIsOffered
