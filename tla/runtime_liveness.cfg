SPECIFICATION FairSpec
CONSTANTS
  Procs = {1, 2, 3}
  Classes = {C}
  k1 = k1
  k2 = k2
  Keys = {k1}
  NumWorkers = 2
  Place <- PlaceOne
  None = None
  MaxRegisters = 0
  ArgsMayFail = TRUE
  ImportMayFail = TRUE
  CtorMayFail = TRUE
PROPERTIES
  EveryOperationSettles
  DisposeCompletes
CHECK_DEADLOCK FALSE
