SPECIFICATION FairSpec
CONSTANTS
  Players = {p1, p2, p3}
  MaxRounds = 2
  MayLeave = TRUE
INVARIANTS TypeOK PhasesNeverOverlap FinalsAreComplete
PROPERTIES KeepsPlayersTogether GameGoesOn
CHECK_DEADLOCK FALSE
