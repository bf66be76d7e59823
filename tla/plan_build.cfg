CONSTANTS
  Node <- MCNode
  Kind <- MCKind
  Size <- MCSize
  Start <- MCStart
  Raw <- MCRaw
  MaxRaw = 3
  home <- MCHome
  SYSTEM_BLOCKLIST <- MCBlocklist
  PRIMARY_USER_FOLDERS = {"docs"}
SPECIFICATION Spec
INVARIANTS MovableIsSafe MovesWhatWasAsked
CHECK_DEADLOCK FALSE
