SPECIFICATION LiveSpec
CONSTANTS
  None = None
  q1 = q1
  q2 = q2
  k1 = k1
  Queues = {q1, q2}
  DedupeKeys = {k1}
  Workers = {w1, w2}
  Admins = {}
  JobOptions <- LiveJobs
  WorkerQueues <- BothQueues
  Concurrency <- One
  StopWhenEmpty <- Never
  RateLimits <- Unlimited
  BackoffPolicy <- Fixed
  MaxBackoff = 4
  MaxRequestsPerKey = 3
  VisibilityMs = 3
  MaxSeq = 2
  MaxToken = 5
  MaxTime = 1
  SlowHandlers = FALSE
  ApiCalls = {"close"}
PROPERTIES EveryJobSettles CloseCompletes
CHECK_DEADLOCK FALSE
