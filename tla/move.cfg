CONSTANTS
  Part = {p1, p2}
  Shapes = {"tree", "file", "link"}
  Devices = {TRUE, FALSE}
  Fault = {"slot", "rename", "copy", "remove", "crash", "edit", "take", "put"}
SPECIFICATION Spec
INVARIANTS MovesKeepAll RenamesKeepAll ReportsAreTrue
PROPERTIES RestoreLosesNothing
CHECK_DEADLOCK FALSE
