SPECIFICATION Spec
CONSTANTS
  Procs = {1, 2, 3}
  Classes = {C}
  k1 = k1
  k2 = k2
  Keys = {k1, k2}
  NumWorkers = 2
  Place <- PlaceBoth
  None = None
  MaxRegisters = 3
  ArgsMayFail = TRUE
  ImportMayFail = TRUE
  CtorMayFail = TRUE
INVARIANTS
  TypeOK
  KeyedIsLive
  RegisteredEverywhere
  OwnRegisterSuffices
  LoadIsAccurate
  NothingKeyedAfterDispose
CHECK_DEADLOCK FALSE
