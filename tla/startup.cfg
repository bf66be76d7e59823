CONSTANTS
  Entries <- MCEntries
  Source <- MCSource
  Id <- MCId
  Versions <- MCVersions
  None = None
  MaxClicks = 3
  MaxWrites = 2
  MaxTime = 1
  MaxCrashes = 1
  MaxVisits = 1
SPECIFICATION Spec
INVARIANTS ToggleTakesEffect NoEntryIsLost SwitchesAreTrue
CHECK_DEADLOCK FALSE
