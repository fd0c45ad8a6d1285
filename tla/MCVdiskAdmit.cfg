CONSTANTS
  k1 = k1
  k2 = k2
  Keys = {k1}
  Readers = {r1}
  Writers = {w1}
  NoKey = NoKey
  NoWriter = NoWriter
  SizesOf <- MCOneSize
  Cutoff = 2
  MaxAlts = 2
  MaxOpens = 2
SPECIFICATION FairSpec
PROPERTIES
  AdmittedWhenFinished
