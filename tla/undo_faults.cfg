SPECIFICATION Spec
CONSTANTS
  Worker = {w1, w2}
  Batch = {b1}
  NoBatch = NoBatch
  Item = {i1, i2}
  Fault = {"crash", "append", "manifest", "remove"}
  MaxLog = 4
SYMMETRY Symmetry
INVARIANTS OnlyPurgeBurns PurgeRecordMeansGone ScanAgrees
PROPERTIES ImplementsSafeTrash
