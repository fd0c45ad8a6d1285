CONSTANTS
  Start = 5
  End = 15
  AggSize = 2
  HighWater = 2
  BlockSize = 2
  LengthsOf <- MCLengthsOf
  Backlog = 0
  MaxDocs = 7
  MaxSyncs = 2
  MaxCrashes = 1
  MaxFails = 1
SPECIFICATION Spec
CONSTRAINTS
  Followed
  FewPending
INVARIANTS
  TypeOK
  EntriesExact
  RecoveredExact
  NothingForgotten
  CopyAlwaysGood
  EndsWhenSynced
CHECK_DEADLOCK FALSE
