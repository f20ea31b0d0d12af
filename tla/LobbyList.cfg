SPECIFICATION Spec
CONSTANTS
  Sockets = {1, 2}
  Names = {"ann", "bob"}
  Managers = {"PlayerManager", "GameManager"}
  MaxGames = 2
PROPERTIES PlayerListIsAnswered
CHECK_DEADLOCK FALSE
