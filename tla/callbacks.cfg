SPECIFICATION Spec
CONSTANTS
  Host = Host
  NoActor = NoActor
  w1 = w1
  w2 = w2
  a1 = a1
  a2 = a2
  Workers = {w1, w2}
  Actors = {a1, a2}
  Home <- HomeOf
  MaxCalls = 2
  MaxDestroys = 1
  MaxEntries = 4
  MaxInvokes = 1
INVARIANTS
  TypeOK
  InvokesServed
  KeptOnlyWhileNeeded
CHECK_DEADLOCK FALSE
