SPECIFICATION JobsSpec
CONSTANTS
  None = None
  w1 = w1
  w2 = w2
  s1 = s1
  s2 = s2
  Workers = {w1, w2}
  Slots = {s1, s2}
  WorkerOf <- OnePerWorker
  Jobs = {j1}
  maxAttempts = 2
  BackoffMax = 1
  heartbeatInterval = 1
  staleJobThreshold = 2
  MaxCrashes = 0
  MaxFaults = 0
  MaxSkips = 0
  MaxStops = 0
  MaxPrunes = 0
INVARIANT OneWorkerAtATime
CHECK_DEADLOCK FALSE
