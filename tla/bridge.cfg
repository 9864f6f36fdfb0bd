SPECIFICATION FairSpec
CONSTANTS
  Host = Host
  w1 = w1
  w2 = w2
  a1 = a1
  a2 = a2
  f0 = f0
  f1 = f1
  Workers <- TwoWorkers
  Actors = {a1, a2}
  Functions = {f0, f1}
  Home <- HomeOf
  Timeouts = {TRUE, FALSE}
  MaxCalls = 3
  MaxCrashes = 1
INVARIANTS
  TypeOK
  NoCallLost
  OverlapExplained
PROPERTIES
  CallsSettle
  DisposeEnds
CHECK_DEADLOCK FALSE
