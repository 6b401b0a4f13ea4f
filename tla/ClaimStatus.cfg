SPECIFICATION NotifierSpec
CONSTANTS
  WinLength = 2
  Users = {u1, u2}
  NoUser = NoUser
  MaxPlayers = 2
  Sessions = {s1, s2}
  NoSession = NoSession
  Watched = {s1}
  MaxStays = 1
  ListLimit = 1
  BroadcastLimit = 2
  MaxRooms = 1
  DefaultSize = 1
  BoardSizes = {1}
INVARIANT StatusIsSynced
CHECK_DEADLOCK FALSE
