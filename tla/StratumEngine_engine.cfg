SPECIFICATION FairSpec
CONSTANTS
  s1 = s1
  s2 = s2
  NoSeed = NoSeed
  BadSeed = BadSeed
  Feeder = Feeder
  Stopper = Stopper
  Others = Others
  Seeds = {s1, BadSeed}
  OtherSeeds = {s2}
  QueueSize = 1
  MaxSessions = 2
  MaxJobs = 2
  MaxBuilds = 2
CHECK_DEADLOCK FALSE
INVARIANTS TypeOK AtMostOneLateShare
PROPERTY EngineSettles
