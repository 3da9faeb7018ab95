SPECIFICATION Spec
CONSTANTS
  Parts = {"power", "bus", "pins", "speaker", "microphone", "camera", "display",
           "rtc", "analog", "phone", "page"}
  Services = {"heartbeat", "reset_soc"}
  ResetServices = {"reset_soc"}
  RtcMod = 8
  Waits = {17000, 30517}
  MaxNanos = 100000
  Pins = {"button", "int1"}
  InDefault <- MCInDefault
  HostPins = {"button"}
  FwRegs <- MCFwRegs
  Buses <- MCBuses
  Absent = "absent"
  FifoSize = 2
  RxTls = {0, 2}
  FwWrites <- MCFwWrites
  FwReads = {1, 3}
  Nobody = "nobody"
  TxDepth = 4
  TxTrigger = 2
  WavRate = 4
  UpRatio = 2
  PlayRates = {2, 3}
  WavFlush = 3
  MaxSamples = 5
  PdmDepth = 3
  Threshold = 2
  MicRate = 3
  TickHz = 2
  FileRates = {2, 7}
  FileLen = 3
  MaxCaptured = 6
  Buffers = {1, 2}
  CamFiles <- MCCamFiles
  PanelLines = 3
  MaxDrawn = 3
  Batteries = {1, 4098}
  Channels = {0, 1}
  Duties = {1}
  Phones = {p1, p2}
  Viewers = {v1, v2}
  None = None
  BufChunks = 2
  MaxPanel = 2
INVARIANTS TypeOK NeverUnserved DriversAreAnswered AlarmOnTime InputsAreSeen TransfersIntact PlaybackIntact CaptureIntact ScanIntact BridgeIsCurrent
