SPECIFICATION Spec
CONSTANTS
  Worker = {w1}
  Batch = {b1}
  NoBatch = NoBatch
  Item = {i1}
  Fault = {"crash"}
  MaxLog = 4
INVARIANTS LatestRestorable
