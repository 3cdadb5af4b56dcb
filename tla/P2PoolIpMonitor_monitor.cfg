SPECIFICATION MonFairSpec
CONSTANTS
  gui = gui
  mon1 = mon1
  ip1 = ip1
  ip2 = ip2
  NoIp = NoIp
  Clients <- MCClients
  Mons <- MCMons
  Ips <- MCIps
  MaxPid = 2
  Requests = {"guiStart", "guiStop", "ipRestart"}
  Faults = {}
  Confirmations = 2
  MaxChanges = 2
INVARIANTS MonTypeOK RestartIsConfirmed
PROPERTIES Spec AdoptedMeansRestarted AddressIsAdopted CrashIsRepaired
CHECK_DEADLOCK FALSE
