SPECIFICATION Spec
CONSTANTS
  Sockets = {1, 2}
  Names = {"ann", "bob"}
  Managers = {"PlayerManager", "GameManager"}
  MaxGames = 2
PROPERTIES AgreeingStartsGame
CHECK_DEADLOCK FALSE
