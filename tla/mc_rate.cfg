SPECIFICATION Spec
CONSTANTS
  None = None
  q1 = q1
  q2 = q2
  k1 = k1
  Queues = {q1, q2}
  DedupeKeys = {k1}
  Workers = {w1}
  Admins = {}
  JobOptions <- RateJobs
  WorkerQueues <- BothQueues
  Concurrency <- Two
  StopWhenEmpty <- Always
  RateLimits <- OnePerWindow
  BackoffPolicy <- Jittered
  MaxBackoff = 4
  MaxRequestsPerKey = 3
  VisibilityMs = 2
  MaxSeq = 2
  MaxToken = 4
  MaxTime = 2
  SlowHandlers = TRUE
  ApiCalls = {"stop", "start"}
INVARIANTS QuotaRespected RetryBudget ConcurrencyBound AtMostOneStraggler
CHECK_DEADLOCK FALSE
