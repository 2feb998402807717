\* Two jobs and a destruction that races their workers and cancellations, with fair threads.
SPECIFICATION FairSpec
CONSTANTS
  Jobs = {j1, j2}
  Workers = {w1, w2}
  NoJob = NoJob
  Kinds <- AllKinds
  DestroyModes = {TRUE}
INVARIANTS
  NoUseAfterFree
  LanesKept
  NoLostWakeup
PROPERTIES
  KeepsPromise
  JobsEnd
  DestroyEnds
CHECK_DEADLOCK FALSE
