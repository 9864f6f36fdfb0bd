SPECIFICATION Spec
CONSTANTS
  Ops = {a, b}
  NoOp = NoOp
  MaxObject = 1
  CallTimeout = FALSE
  WorkerMayCrash = FALSE
  ArgsMayFail = FALSE
PROPERTIES
  DisposeClosesActors
CHECK_DEADLOCK FALSE
