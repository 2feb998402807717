\* Two Clients, a queue that holds one record beyond the snapshot, local and remote.
SPECIFICATION Spec
CONSTANTS
  Slots = {1, 2}
  Reader = Reader
  Monitor = Monitor
  None = None
  QueueLimit = 1
  PromptWakeups = TRUE
  MaxChanges = 1
  MaxTyped = 1
  Arrivals <- LocalRemoteLocal
INVARIANTS
  TypeOK
  OneController
  NoOutputLost
  NoLateKeystroke
  OrderWithoutWaits
  RolesCurrent
PROPERTIES
  RecordedDetachIsSaved
CHECK_DEADLOCK FALSE
