SPECIFICATION Spec
CONSTANTS
  WinLength = 2
  Users = {u1, u2, u3}
  NoUser = NoUser
  MaxPlayers = 2
  DefaultSize = 2
  BoardSizes = {0, 1, 2}
INVARIANTS
  TypeOK
  SeatsOK
  NoLineWhilePlaying
PROPERTIES
  GameIsStable
  EndAnnounced
  ImplementsMatch
