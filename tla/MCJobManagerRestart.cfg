CONSTANTS
  Games = {g1, g2}
  Clients = {c1}
  Workers = {w1, w2}
  MaxQueued = 1
  RetryLimit = 0
  MaxJobs = 2
  Asked = {0}
  Ops = {"start", "cancel"}
  Faults = {}
  Restarts = TRUE
SPECIFICATION Spec
INVARIANTS
  RestartPossible
