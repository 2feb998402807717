\* Two jobs and two workers under fair threads: cancellations, failures and a shutdown in between.
SPECIFICATION FairSpec
CONSTANTS
  Jobs = {j1, j2}
  NoJob = NoJob
  Count = 2
  MaxSends = 1
INVARIANTS
  TypeOK
  Backpressure
PROPERTIES
  KeepsPromise
  JobsEnd
  ShutdownEnds
CHECK_DEADLOCK FALSE
