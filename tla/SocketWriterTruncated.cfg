\* Winsock never refuses here, but it may take only a part of a request.
SPECIFICATION Spec
CONSTANTS
  FrameSizes = {2, 3}
  Capacity = 100
  PartialSends = TRUE
  MaxSubmitted = 6
INVARIANTS FramesArriveIntact
CHECK_DEADLOCK FALSE
