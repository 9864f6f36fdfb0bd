SPECIFICATION Spec
CONSTANTS
  Undefined = Undefined
  Prims = {Undefined, x}
  Keys = {k, l}
  MaxNode = 3
  MaxLength = 1
INVARIANTS
  TypeOK
  RefusesCyclesOnly
  RoundTrip
  ComparesWholeArgs
CHECK_DEADLOCK FALSE
