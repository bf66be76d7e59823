SPECIFICATION FairSpec
CONSTANTS
  Worker = {w1}
  Batch = {b1, b2}
  NoBatch = NoBatch
  Item = {i1, i2}
  Fault = {"manifest"}
  MaxLog = 8
INVARIANTS LatestRestorable AckedIsLogged
PROPERTIES PurgeAllEmptiesListed
