CONSTANTS
  File <- MCFile
  Depth = 2
  MaxCall = 3
  MaxLate = 1
  None = None
SPECIFICATION Spec
INVARIANTS ServedIsWhole RestsOnWhole
PROPERTIES SpinnerStops
CHECK_DEADLOCK FALSE
