SPECIFICATION Spec
CONSTANTS
  Sessions = {c1, c2}
  Nobody = Nobody
  SlowGuest = FALSE
  Rejects = TRUE
  MaxReboots = 1
  MaxNotify = 2
  Cap = 2
SYMMETRY SessionSymmetry
INVARIANTS TypeOK ServedOrTold SocketsOwned OneClientAtATime NoGaps
CHECK_DEADLOCK FALSE
