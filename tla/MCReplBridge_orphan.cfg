SPECIFICATION Spec
CONSTANTS
  Sessions = {c1, c2}
  Nobody = Nobody
  SlowGuest = FALSE
  Rejects = FALSE
  MaxReboots = 0
  MaxNotify = 0
  Cap = 2
INVARIANT GuestToldOfLeave
CHECK_DEADLOCK FALSE
