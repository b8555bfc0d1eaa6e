SPECIFICATION JobsLiveSpec
CONSTANTS
  None = None
  w1 = w1
  w2 = w2
  s1 = s1
  s2 = s2
  Workers = {w1, w2}
  Slots = {s1, s2}
  WorkerOf <- OnePerWorker
  Jobs = {j1}
  maxAttempts = 2
  BackoffMax = 1
  heartbeatInterval = 1
  staleJobThreshold = 2
  MaxCrashes = 1
  MaxFaults = 1
  MaxSkips = 1
  MaxStops = 1
  MaxPrunes = 1
INVARIANTS JobsTypeOK NoJobLost PolicyKept
PROPERTIES ReapsOnlyOrphans JobsSettle
CHECK_DEADLOCK FALSE
