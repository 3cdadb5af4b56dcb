SPECIFICATION Spec
CONSTANTS
  c1 = c1
  c2 = c2
  Callers <- MCCallers
  MaxPid = 2
  Threads = {1}
  Requests = {"start", "stop", "restart", "setThreads", "close"}
  Faults = {}
CHECK_DEADLOCK FALSE
SYMMETRY MCSymmetry
INVARIANTS LiveIsOwned
