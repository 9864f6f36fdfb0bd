SPECIFICATION Spec
CONSTANTS
  Procs = {1, 2}
  Classes = {C}
  k1 = k1
  k2 = k2
  Keys = {k1}
  NumWorkers = 2
  Place <- PlaceOne
  None = None
  MaxRegisters = 2
  ArgsMayFail = FALSE
  ImportMayFail = FALSE
  CtorMayFail = FALSE
INVARIANTS
  OneActorPerKey
CHECK_DEADLOCK FALSE
