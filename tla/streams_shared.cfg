SPECIFICATION Spec
CONSTANTS
  Host = Host
  w1 = w1
  w2 = w2
  Workers <- TwoWorkers
  Owners <- OnlyHost
  Chunks = 2
  Writes = 1
  HighWater = 1
  MaxPasses = 2
  MaxUpsets = 1
INVARIANTS
  InOrder EndMeansAll HostSurvivesUnshared
CHECK_DEADLOCK FALSE
