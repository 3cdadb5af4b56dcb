SPECIFICATION Spec
CONSTANTS
  c1 = c1
  c2 = c2
  Clients <- MCClients
  MaxPid = 2
  Requests = {"guiStart", "guiStop"}
  Faults = {}
PROPERTY LatchClearedByRequestOnly
CHECK_DEADLOCK FALSE
