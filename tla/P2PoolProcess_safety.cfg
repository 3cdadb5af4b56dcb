SPECIFICATION FairSpec
CONSTANTS
  c1 = c1
  c2 = c2
  Clients <- MCClients
  MaxPid = 3
  Requests = {"guiStart", "guiStop", "webRestart", "ipRestart", "status"}
  Faults = {"noExe", "popen", "pipes"}
INVARIANTS TypeOK AtMostOneProcess LiveIsReferenced LiveIsWatched
PROPERTIES StoppedIsNotRestarted RequestsEnd
CHECK_DEADLOCK FALSE
