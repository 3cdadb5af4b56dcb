SPECIFICATION MonSpec
CONSTANTS
  gui = gui
  mon1 = mon1
  ip1 = ip1
  ip2 = ip2
  NoIp = NoIp
  Clients <- MCClients
  Mons <- MCMons
  Ips <- MCIps
  MaxPid = 2
  Requests = {"guiStop", "status", "ipRestart"}
  Faults = {}
  Confirmations = 2
  MaxChanges = 1
INVARIANT NothingStartsUnasked
CHECK_DEADLOCK FALSE
