SPECIFICATION Spec
CONSTANTS
  Ops = {a, b, c, d}
  NoOp = NoOp
  MaxObject = 2
  CallTimeout = FALSE
  WorkerMayCrash = TRUE
  ArgsMayFail = TRUE
SYMMETRY OpSymmetry
PROPERTIES
  ServesSerially
CHECK_DEADLOCK FALSE
