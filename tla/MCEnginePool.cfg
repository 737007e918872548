CONSTANTS
  Workers = {w1, w2}
  Callers = {c1, c2, c3}
  MaxPending = 2
  RetryLimit = 1
  Nobody = Nobody
SPECIFICATION Spec
SYMMETRY Symmetric
INVARIANTS
  TypeOK
  PendingBounded
  SlotsAccounted
  HistoricalCapped
  RequestInOnePlace
  StoppedStaysEmpty
  NoLostWakeup

PROPERTIES
  ImplementsService
CHECK_DEADLOCK FALSE
