CONSTANTS
  a1 = a1
  a2 = a2
  b = b
  f1 = f1
  f2 = f2
  f3 = f3
  Gone = Gone
  Handle = {h1}
  File = {f1, f2, f3}
  Content = {a1, a2, b}
  Wanted = {a1, a2}
  Naps = {1, 2}
  MaxEdits = 1
  Size <- MCSize
  HeadHash <- MCHead
  FullHash <- MCFull
  Sweep <- MCSweep
  h1 = h1
SPECIFICATION Spec
INVARIANTS GroupsAreEqual ReportIsComplete CancelLeavesNoHalf OneStaleNap
PROPERTIES StreamsEnd
CHECK_DEADLOCK FALSE
