SPECIFICATION Spec
CONSTANTS
  None = None
  q1 = q1
  q2 = q2
  k1 = k1
  Queues = {q1, q2}
  DedupeKeys = {k1}
  Workers = {w1, w2}
  Admins = {a1, a2}
  JobOptions <- PromptJobs
  WorkerQueues <- BothQueues
  Concurrency <- One
  StopWhenEmpty <- Never
  RateLimits <- Unlimited
  BackoffPolicy <- Fixed
  MaxBackoff = 4
  MaxRequestsPerKey = 3
  VisibilityMs = 3
  MaxSeq = 3
  MaxToken = 4
  MaxTime = 2
  SlowHandlers = FALSE
  ApiCalls = {"retry", "retryAll"}
INVARIANTS ExclusiveExecution AttemptsBounded OneIncarnation DedupeExact
SYMMETRY Symmetric
CHECK_DEADLOCK FALSE
