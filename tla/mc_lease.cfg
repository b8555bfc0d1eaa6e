SPECIFICATION Spec
CONSTANTS
  None = None
  q1 = q1
  q2 = q2
  k1 = k1
  Queues = {q1, q2}
  DedupeKeys = {k1}
  Workers = {w1, w2}
  Admins = {a1}
  JobOptions <- LeaseJobs
  WorkerQueues <- BothQueues
  Concurrency <- One
  StopWhenEmpty <- Never
  RateLimits <- Unlimited
  BackoffPolicy <- Fixed
  MaxBackoff = 4
  MaxRequestsPerKey = 3
  VisibilityMs = 2
  MaxSeq = 2
  MaxToken = 4
  MaxTime = 3
  SlowHandlers = TRUE
  ApiCalls = {"retry", "flush", "purge"}
INVARIANTS TypeOK OneHome NoJobLost
PROPERTIES NoResurrection DriverContract
SYMMETRY Symmetric
CHECK_DEADLOCK FALSE
