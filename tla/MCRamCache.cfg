CONSTANTS
  k1 = k1
  k2 = k2
  k3 = k3
  small = small
  large = large
  Keys = {k1, k2, k3}
  Auxs = {1, 2}
  Data = {small, large}
  None = None
  Slots = {1, 2, 3}
  SizeOf <- MCSize
  Overhead = 1
  Slice <- MCSlice
  TagUnit = 4
  BucketSizes <- MCBuckets
  Budgets <- MCBudgets
SPECIFICATION Spec
INVARIANTS
  TypeOK
  OneEntryPerKey
  AccountsExact
PROPERTIES
  ImplementsRamCache
