SPECIFICATION RedisLiveSpec
CONSTANTS
  None = None
  p1 = p1
  p2 = p2
  j1 = j1
  q1 = q1
  q2 = q2
  Procs = {p1, p2}
  Producers = {p1}
  Workers = {p1, p2}
  Schedulers = {p2}
  Operators = {p1}
  Jobs = {j1}
  JobInfo <- OneJob
  ReserveOrder <- Q1Q2
  PriorityMult = 8
  ReserveTries = 2
  VisibilityMs = 2
  MaxAttempts = 2
  SlowHandlers = FALSE
  MaxTime = 0
  MaxToken = 5
  MaxCrashes = 1
  MaxCalls = 1
INVARIANTS LossesAreExplained ReservedByOne
PROPERTY AcceptedJobSettles
