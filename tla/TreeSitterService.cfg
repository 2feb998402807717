\* One Buffer, two document states at a time, two workers, three texts.
CONSTANTS
  Buffers = {b1}
  States = {s1, s2}
  Jobs = {j1, j2, j3}
  Workers = {w1, w2}
  NoState = NoState
  NoJob = NoJob
  NoTree = NoTree
  MaxRevision = 3
SPECIFICATION Spec
SYMMETRY Interchangeable
\* After a shutdown nothing happens.
CHECK_DEADLOCK FALSE
INVARIANTS
  TypeOK
  ReadyIsCurrent
  ReferencesCounted
  SettledIsCurrent
