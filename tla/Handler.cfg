SPECIFICATION Spec
SYMMETRY Symmetry
CONSTANTS
  WinLength = 1
  Users = {u1, u2}
  NoUser = NoUser
  MaxPlayers = 2
  Sessions = {s1}
  NoSession = NoSession
  MaxRooms = 2
  DefaultSize = 1
  BoardSizes = {0, 1}
INVARIANTS
  TypeOK
  RoomsHoldUsers
  MappedRoomHasUser
  PlayingHasTwoPlayers
PROPERTIES
  RoomsImplementMatch
  StonesAreAuthorised
CHECK_DEADLOCK FALSE
