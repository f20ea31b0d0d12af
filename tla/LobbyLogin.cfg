SPECIFICATION Spec
CONSTANTS
  Sockets = {1, 2}
  Names = {"ann"}
  Managers = {}
  MaxGames = 2
INVARIANTS LoginIsAnswered
CHECK_DEADLOCK FALSE
