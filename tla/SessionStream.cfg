CONSTANTS
  Closable = {"control", "session", "root", "rst_timer"}
  MaxWaits = 2
  MaxPackets = 1
SPECIFICATION Spec
INVARIANTS
  WaitsKept
  PipesFreedOnce
PROPERTIES
  WaitsEnd
  ClosesEnd
CHECK_DEADLOCK FALSE
