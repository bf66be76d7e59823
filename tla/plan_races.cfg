CONSTANTS
  Thread = {t1, t2}
  Token = {k1, k2}
  Path <- MCPath
  Below <- MCBelow
  PLAN_TTL_SECS = 1
  MaxClock = 2
SYMMETRY Symmetry
SPECIFICATION Spec
INVARIANTS CommitsOnce NoPlanIsLost BytesAreMoved
CHECK_DEADLOCK FALSE
