CONSTANTS
  k1 = k1
  k2 = k2
  k3 = k3
  Keys = {k1, k2, k3}
  BucketOf <- MCBucketOf
  TagOf <- MCTagOf
  HeadOf <- MCHeadOf
  NBuckets = 2
  Depth = 2
  PurgeEvery = 2
  Blocks = 4
  MaxWrites = 7
SPECIFICATION Spec
INVARIANTS
  TypeOK
  
  

  
  
CHECK_DEADLOCK FALSE
