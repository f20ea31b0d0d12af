SPECIFICATION Spec
CONSTANTS
  Values = {v1, v2}
  MaxRows = 3
  MaxOpen = 2
  MaxHandles = 2
INVARIANTS CarefulUseIsDefined GivesTheAnswer ValueIsOfTheRow ClosingCloses
CHECK_DEADLOCK FALSE
