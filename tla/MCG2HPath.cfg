SPECIFICATION FairSpec
CONSTANTS
  RingData = 4
  CounterMod = 8
  Frames <- MCFrames
  FrameLen <- MCFrameLen
  Hdr = 2
  StrayLen <- MCStrayLen
  Threads = {t1, t2}
  Jobs <- MCJobs
  MaxSpins = 1
  Chunk = 2
  SocketCap = 2
  MaxResets = 1
  NoThread = NoThread
  NoCell = NoCell
INVARIANTS TypeOK NoStrandedEvent RetriesArePaidFor FramesUnbroken
PROPERTIES ImplementsEvents CallsReturn
