CONSTANTS
  Start = 7
  End = 22
  AggSize = 3
  HighWater = 1
  BlockSize = 2
  LengthsOf <- MCTwice
  Backlog = 0
  MaxDocs = 8
  MaxSyncs = 1
  MaxCrashes = 2
  MaxFails = 0
SPECIFICATION Spec
CONSTRAINTS
  Followed
  FewPending
INVARIANTS
  InconsistentForgotten
CHECK_DEADLOCK FALSE
