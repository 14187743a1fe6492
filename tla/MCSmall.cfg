SPECIFICATION Spec
CONSTANTS
  Player = {p1, p2, p3, p4}
  NoPlayer = NoPlayer
  MinPlayers = 4
  MaxPlayers = 4
SYMMETRY Symmetry
INVARIANTS
  TypeOK
  BallotsSound
  RevealedTallyComplete
  LobbyIsFresh
PROPERTIES
  LynchedByLivingMajority
  MajorityIsLynched
  OneBullet
