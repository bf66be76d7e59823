CONSTANTS
  Daily = 1
  Weekly = 3
  Fault = {"crash", "save", "load", "back"}
  MaxClock = 3
SPECIFICATION Spec
VIEW HistoryView
INVARIANTS NeverVeryLate SettingsSurvive
PROPERTIES FiresAreSpaced
CHECK_DEADLOCK FALSE
