SPECIFICATION Spec
CONSTANTS
  RingData = 4
  CounterMod = 8
  Frames <- OneFrame
  FrameLen <- OneFrameLen
  Hdr = 2
  StrayLen <- OneStrayLen
  RxBuf = 4
  SocketCap = 3
  ZeroOp <- NoOpZero
  TaskBlocks = TRUE
  MaxResets = 1
  MaxCrashes = 1
  NoCell = NoCell
INVARIANT FramesAreFrames
