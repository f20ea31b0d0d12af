SPECIFICATION Spec
CONSTANTS
  Sockets = {1, 2}
  Names = {"ann", "bob"}
  Managers = {"PlayerManager", "GameManager"}
  MaxGames = 2
INVARIANTS ChallengeReachesFriend
CHECK_DEADLOCK FALSE
