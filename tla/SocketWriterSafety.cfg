\* Requests of which any part may be taken, refusals, and three frames or more.
SPECIFICATION Spec
CONSTANTS
  FrameSizes = {2, 3}
  Capacity = 4
  PartialSends = TRUE
  MaxSubmitted = 9
INVARIANTS TypeOK ReadyIffDrained IntactUntilDisturbed NothingOvertaken
CHECK_DEADLOCK FALSE
