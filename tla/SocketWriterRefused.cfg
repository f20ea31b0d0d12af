SPECIFICATION Spec
CONSTANTS
  FrameSizes = {2, 3}
  Capacity = 2
  PartialSends = FALSE
  MaxSubmitted = 6
INVARIANTS FramesArriveIntact
CHECK_DEADLOCK FALSE
