CONSTANTS
  r1 = r1
  r2 = r2
  d1 = d1
  d2 = d2
  d3 = d3
  f1 = f1
  f2 = f2
  f3 = f3
  f4 = f4
  Root = {r1, r2}
  Dir = {d1, d2, d3}
  File = {f1, f2, f3, f4}
  rootOf <- MCRootOf
  dirOf <- MCDirOf
SPECIFICATION ScanSpec
INVARIANTS DoneIsComplete CancelIsReported
PROPERTIES ScanEnds
CHECK_DEADLOCK FALSE
