SPECIFICATION Spec
CONSTANTS
  RingData = 4
  CounterMod = 8
  Frames <- MCFrames
  FrameLen <- MCFrameLen
  Hdr = 2
  StrayLen <- MCStrayLen
  RxBuf = 4
  SocketCap = 3
  ZeroOp <- ShortIsOpZero
  TaskBlocks = FALSE
  MaxResets = 0
  MaxCrashes = 0
  NoCell = NoCell
INVARIANTS TypeOK NoOverrun
PROPERTY ImplementsStream
