CONSTANTS
  Games = {g1, g2}
  Clients = {c1}
  Workers = {w1}
  MaxQueued = 2
  RetryLimit = 1
  MaxJobs = 2
  Asked = {0}
  Ops = {"start", "batch", "close", "pause"}
  Faults = {"engine"}
  Restarts = FALSE
SPECIFICATION FairSpec
INVARIANTS
  SingleWorkerPreempts
PROPERTIES
  
  ShutdownEnds
CHECK_DEADLOCK FALSE
