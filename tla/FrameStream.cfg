SPECIFICATION Spec
CONSTANTS
  MagicSize = 2
  HeaderSize = 4
  MaxFrameSize = 10
  MaxReceive = 14
  FrameSizes = {4, 6, 10, 12}
  Lies = {2, 8}
  MaxFrames = 3
INVARIANTS
  OnceAndInOrder
  PayloadOfFrame
  KindLosesNothing
  FindsNextFrame
CHECK_DEADLOCK FALSE
