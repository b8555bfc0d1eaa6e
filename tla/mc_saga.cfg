SPECIFICATION SagaSpec
CONSTANTS
  None = None
  p1 = p1
  p2 = p2
  s1 = s1
  s2 = s2
  s3 = s3
  c1 = c1
  c2 = c2
  c3 = c3
  Procs = {p1, p2}
  Sessions = {s1, s2, s3}
  SessionsOf <- TwoAndOne
  Clients = {c1, c2, c3}
  ProcOf <- CallsOf
  LockRetries = 1
  ParsesBooleans = TRUE
  NumSteps = 2
  Conditional = {1}
  Timed = {2}
  MaxCrashes = 1
  MaxFaults = 1
  MaxExpiries = 1
INVARIANTS OneProcessHolds StepsInOrder RecordedRunsOnce RollbackComplete
PROPERTY TerminalIsFinal
SYMMETRY Symmetric
CHECK_DEADLOCK FALSE
