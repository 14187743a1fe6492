SPECIFICATION ProjectionSpec
CONSTANTS
  Player = {1, 2, 3, 4, 5, 6, 7}
  NoPlayer = 0
  MinPlayers = 4
  MaxPlayers = 7
  Boards <- LeanAndFive
  Silent = {"consort", "detective", "doctor"}
  MaxDead = 2
  MaxNights = 2
  Suspects = {"mafia", "consort"}
CHECK_DEADLOCK FALSE
INVARIANTS
  LivingLearnNoRole
  CabalIsKnown
  DeadSeeTheBoard
  ResumesAgree
PROPERTY NightEnds
