SPECIFICATION Spec
CONSTANTS
  MaxStamp = 6
  QueueLength = 2
  MaxChecks = 2
  MaxPending = 2
INVARIANTS
  TFsMatchStamp
