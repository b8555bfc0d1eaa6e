SPECIFICATION RedisSpec
CONSTANTS
  None = None
  p1 = p1
  p2 = p2
  j1 = j1
  q1 = q1
  q2 = q2
  Procs = {p1, p2}
  Producers = {p1}
  Workers = {p1, p2}
  Schedulers = {}
  Operators = {}
  Jobs = {j1}
  JobInfo <- OneJob
  ReserveOrder <- Q1Q2
  PriorityMult = 8
  ReserveTries = 2
  VisibilityMs = 1
  MaxAttempts = 3
  SlowHandlers = TRUE
  MaxTime = 2
  MaxToken = 3
  MaxCrashes = 0
  MaxCalls = 1
INVARIANT NoAcceptedJobLost
