SPECIFICATION Spec
CONSTANTS
  Sockets = {1, 2, 3}
  Names = {"ann", "bob"}
  Managers = {"PlayerManager", "GameManager"}
  MaxGames = 2
INVARIANTS TypeOK PlayersHaveSessions PlayersAreRegistered GameMeansCommunicating AtMostTwoPerGame
CHECK_DEADLOCK FALSE
