SPECIFICATION NightsSpec
CONSTANTS
  Player = {1, 2, 3, 4, 5, 6, 7}
  NoPlayer = 0
  MinPlayers = 4
  MaxPlayers = 7
  Boards <- PackedBoard
  Silent = {"doctor"}
  MaxDead = 0
CHECK_DEADLOCK FALSE
PROPERTIES
  DetectiveHoldsAtDawn
  TrackerFindsTheVictim
