SPECIFICATION Spec
CONSTANTS
  p1 = p1
  p2 = p2
  Producers <- MCProducers
  QueueSize = 2
  NativeSources = 1
  MaxPackets = 5
  MaxPauses = 2
SYMMETRY MCSymmetry
CHECK_DEADLOCK FALSE
INVARIANTS TypeOK StatsBalance AtMostOneLate
PROPERTY RoutedOnceInOrder
