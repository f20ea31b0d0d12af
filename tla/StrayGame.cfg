SPECIFICATION StraySpec
CONSTANTS
  Players = {p1, p2, p3}
  Strays = {p3}
  MaxRounds = 3
  MayLeave = TRUE
  MaxStrayed = 4
INVARIANTS HonestInStep FinalsAreTrue LeaversEndTheGame
CHECK_DEADLOCK FALSE
