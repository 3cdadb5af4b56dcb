SPECIFICATION Spec
CONSTANTS
  c1 = c1
  c2 = c2
  Callers <- MCCallers
  MaxPid = 3
  Threads = {1, 2}
  Requests = {"start", "stop", "setThreads"}
  Faults = {}
SYMMETRY MCSymmetry
PROPERTIES ThreadUpdateIsUsed
