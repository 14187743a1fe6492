SPECIFICATION NightsSpec
CONSTANTS
  Player = {1, 2, 3, 4, 5, 6, 7}
  NoPlayer = 0
  MinPlayers = 4
  MaxPlayers = 7
  Boards <- SevenBoard
  Silent = {"detective"}
  MaxDead = 2
CHECK_DEADLOCK FALSE
INVARIANTS
  NeverHeadless
  NeutralizedNeverActs
  FactionActsOnce
  NoStaleDeeds
PROPERTIES
  SameCadenceEveryNight
  DeathsExplained
  RoleChangesExplained
  ConvertToldOnce
