SPECIFICATION Spec
CONSTANTS
  p1 = p1
  p2 = p2
  Producers <- MCProducers
  Frames <- MCFrames
  MaxFrames = 2
  MaxBytes = 3
  ReserveFrames = 1
  ReserveBytes = 1
  BatchSize = 2
  MaxCalls = 3
  MaxStates = 2
CHECK_DEADLOCK FALSE
SYMMETRY MCSymmetry
INVARIANTS TypeOK IngressAccounts NoPriorityInversion
