SPECIFICATION Spec
CONSTANTS
  Ases = {0}
  StreamLids = {0, 1}
  InvalidLid = 255
  Outputs = {spk, aux}
  Inputs = {mic}
  NbSlots = 3
  Bufs = {b1, b2, b3}
  MaxTicks = 2
  None = None
SYMMETRY Symmetries
INVARIANTS TypeOK Granted ReleasedIsClean BufferHasOneOwner PostedIsReachable
