SPECIFICATION WLiveSpec
CONSTANTS
  None = None
  n1 = n1
  Program <- Trip
  Drives = {d1, d2}
  Callers = {c1}
  ApiCalls = {"cancel", "pause", "signal", "resume"}
  Names = {n1}
  MaxAttempts = 2
  MaxSignals = 1
  MaxTime = 1
  MaxCrashes = 1
  MaxFaults = 1
CONSTRAINT UntilRaced
INVARIANTS RollbackReverseOnce
PROPERTIES NoReexecution JournalGrows TerminalIsFinal RunSettles SignalWakes
CHECK_DEADLOCK FALSE
