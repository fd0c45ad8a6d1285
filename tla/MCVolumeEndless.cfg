CONSTANTS
  Start = 5
  End = 14
  AggSize = 2
  HighWater = 2
  BlockSize = 2
  LengthsOf <- MCAligned
  Backlog = 0
  MaxDocs = 6
  MaxSyncs = 2
  MaxCrashes = 1
  MaxFails = 0
SPECIFICATION Spec
INVARIANTS
  RecoveryEnds
CHECK_DEADLOCK FALSE
