SPECIFICATION WSpec
CONSTANTS
  None = None
  n1 = n1
  Program <- Short
  Drives = {d1, d2}
  Callers = {c1}
  ApiCalls = {"signal"}
  Names = {n1}
  MaxAttempts = 2
  MaxSignals = 1
  MaxTime = 0
  MaxCrashes = 0
  MaxFaults = 0
INVARIANT SagaComplete
CHECK_DEADLOCK FALSE
