SPECIFICATION Spec
CONSTANTS
  Threads = {t1, t2}
  Levels <- TwoLevels
  MaxRequests = 2
INVARIANTS DisconnectReturns
CHECK_DEADLOCK FALSE
