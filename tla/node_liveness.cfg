SPECIFICATION FairSpec
CONSTANTS
  Ops = {a, b, c}
  NoOp = NoOp
  MaxObject = 1
  CallTimeout = TRUE
  WorkerMayCrash = TRUE
  ArgsMayFail = TRUE
PROPERTIES
  EveryCallSettles
  AnsweredWhileOpen
  DisposeEndsThread
CHECK_DEADLOCK FALSE
