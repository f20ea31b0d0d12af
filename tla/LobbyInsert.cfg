SPECIFICATION Spec
CONSTANTS
  Sockets = {1, 2}
  Names = {"ann"}
  Managers = {"PlayerManager", "GameManager"}
  MaxGames = 2
INVARIANTS PromisesKept
CHECK_DEADLOCK FALSE
