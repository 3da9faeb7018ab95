SPECIFICATION Spec
CONSTANTS
  Ases = {0}
  StreamLids = {0}
  InvalidLid = 255
  Outputs = {spk}
  Inputs = {mic}
  NbSlots = 2
  Bufs = {b1, b2, b3}
  MaxTicks = 2
  None = None
PROPERTY ClockNeverGoesBack
