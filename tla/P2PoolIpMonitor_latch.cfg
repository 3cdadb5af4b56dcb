SPECIFICATION MonSpec
CONSTANTS
  gui = gui
  mon1 = mon1
  ip1 = ip1
  ip2 = ip2
  NoIp = NoIp
  Clients <- MCClients
  Mons <- MCMons
  Ips <- MCIps
  MaxPid = 3
  Requests = {"guiStart", "guiStop", "ipRestart"}
  Faults = {}
  Confirmations = 2
  MaxChanges = 1
PROPERTY IpRestartRespectsLatch
CHECK_DEADLOCK FALSE
