SPECIFICATION Spec
CONSTANTS
  Requests = {r1, r2}
  PipeCap = 2
INVARIANTS NoSleepOnWork
PROPERTIES WorkTakenUp ShutdownCompletes
CHECK_DEADLOCK FALSE
