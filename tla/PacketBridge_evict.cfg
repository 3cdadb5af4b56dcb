SPECIFICATION Spec
CONSTANTS
  p1 = p1
  p2 = p2
  Producers <- MCProducers
  QueueSize = 2
  NativeSources = 1
  MaxPackets = 4
  MaxPauses = 1
SYMMETRY MCSymmetry
CHECK_DEADLOCK FALSE
PROPERTY OldestIsEvicted
