SPECIFICATION FairSpec
CONSTANTS
  RingData = 3
  CounterMod = 6
  Frames <- OneFrame
  FrameLen <- OneFrameLen
  Hdr = 2
  StrayLen <- OneStrayLen
  RxBuf = 3
  SocketCap = 3
  ZeroOp <- NoOpZero
  TaskBlocks = TRUE
  MaxResets = 1
  MaxCrashes = 1
  NoCell = NoCell
INVARIANTS NoLostWakeup ParkedIsPolled RingHoldsWholeFrames
PROPERTIES ImplementsStream EverythingConsumed ParkingEnds
