CONSTANTS
  k1 = k1
  k2 = k2
  Keys = {k1, k2}
  Readers = {r1}
  Writers = {w1, w2}
  NoKey = NoKey
  NoWriter = NoWriter
  SizesOf <- MCSizes
  Cutoff = 2
  MaxAlts = 2
  MaxOpens = 3
SPECIFICATION FairSpec
INVARIANTS
  TypeOK
  OpenDirExact
  VectorExclusive
  ServedComplete
PROPERTIES
  ReadersAnswered
  WritersLeave
