SPECIFICATION BlocSpec
CONSTANTS
  Player = {p1, p2, p3, p4, p5}
  NoPlayer = NoPlayer
  MinPlayers = 4
  MaxPlayers = 5
SYMMETRY Symmetry
INVARIANTS
  EndsExactlyWhenDecided
PROPERTIES
  ImplementsHiddenRoleGame
