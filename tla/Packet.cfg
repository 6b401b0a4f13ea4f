SPECIFICATION PacketSpec
CONSTANTS
  Base = 7
  Width32 = 2
  Width64 = 3
  Keys <- SmallKeys
  MsgTypeKey <- SmallMsgTypeKey
  Values <- SmallValues
  MsgTypes = {0, 8, 48}
  Memories <- SmallMemories
INVARIANTS
  RoundTrip
  CutIsNoticed
CHECK_DEADLOCK FALSE
