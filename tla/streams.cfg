SPECIFICATION FairSpec
CONSTANTS
  Host = Host
  w1 = w1
  w2 = w2
  Workers <- TwoWorkers
  Owners <- HostOrWorker
  Chunks = 2
  Writes = 1
  HighWater = 1
  MaxPasses = 1
  MaxUpsets = 1
INVARIANTS
  TypeOK FirstMissesNothing AckedMeansWritten
PROPERTIES
  ReaderSeesEnd WriteSettles CloseReachesOwner
CHECK_DEADLOCK FALSE
