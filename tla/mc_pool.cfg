SPECIFICATION PoolSpec
CONSTANTS
  None = None
  Callers = {c1, c2, c3}
  Ids = {1, 2, 3, 4}
  minConnections = 2
  maxConnections = 2
  MAX_WAIT = 1
  MaxDeaths = 1
  MaxRefusals = 1
INVARIANTS PoolTypeOK PoolBounded ExclusiveUse NoNeedlessWait CloseLeavesInflightOnly
PROPERTY EveryAcquireSettles
CHECK_DEADLOCK FALSE
