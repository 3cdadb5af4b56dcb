SPECIFICATION FairSpec
CONSTANTS
  MaxPrinted = 3
  MaxDirect = 1
  QueueSize = 1
  Bootstrap = 1
CHECK_DEADLOCK FALSE
INVARIANTS TypeOK EveryEventAccounted
PROPERTIES CountedOnceInOrder EventSettles
