SPECIFICATION FairSpec
CONSTANTS
  FrameSizes = {2, 3}
  Capacity = 2
  PartialSends = FALSE
  MaxSubmitted = 9
PROPERTIES EventuallyReady
CHECK_DEADLOCK FALSE
