SPECIFICATION FairSpec
CONSTANTS
  p1 = p1
  p2 = p2
  s1 = s1
  s2 = s2
  Producers <- MCProducers
  Slots <- MCSlots
  MaxCommands = 3
  MaxLost = 1
CHECK_DEADLOCK FALSE
INVARIANTS TypeOK Conserved
PROPERTIES AtMostOnceInOrder CommandSettles
