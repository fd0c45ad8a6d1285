CONSTANTS
  Start = 5
  End = 14
  AggSize = 2
  HighWater = 2
  BlockSize = 2
  LengthsOf <- MCAligned
  Backlog = 0
  MaxDocs = 6
  MaxSyncs = 2
  MaxCrashes = 0
  MaxFails = 1
SPECIFICATION Spec
INVARIANTS
  FailedWriteForgotten
CHECK_DEADLOCK FALSE
