SPECIFICATION FairSpec
CONSTANTS
  Sessions = {c1, c2}
  Nobody = Nobody
  SlowGuest = TRUE
  Rejects = TRUE
  MaxReboots = 0
  MaxNotify = 0
  Cap = 2
PROPERTY SessionsEnd
CHECK_DEADLOCK FALSE
