SPECIFICATION Spec
CONSTANTS
  Ops = {a, b, c, d}
  NoOp = NoOp
  MaxObject = 2
  CallTimeout = TRUE
  WorkerMayCrash = TRUE
  ArgsMayFail = TRUE
SYMMETRY OpSymmetry
INVARIANTS
  TypeOK
  MailboxExclusion
  BegunInOrder
  DestroyIsFinal
  OverlapOnlyAfterTimeout
  ResolvedMeansDone
PROPERTIES
  DisposeWaits
CHECK_DEADLOCK FALSE
