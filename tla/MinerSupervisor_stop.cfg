SPECIFICATION FairSpec
CONSTANTS
  c1 = c1
  c2 = c2
  Callers <- MCCallers
  MaxPid = 3
  Threads = {1}
  Requests = {"start", "stop"}
  Faults = {"slowExit", "leftover"}
CHECK_DEADLOCK FALSE
PROPERTIES StopIsHonoured
