SPECIFICATION Spec
CONSTANTS
  Threads = {ble, lua}
  BleTask = ble
  Buffers = {b1, b2}
  Values = {v1, v2}
  Statuses = {ok, refused}
  NoError = ok
  Unlikely = Unlikely
  TokenMod = 4
  MaxLate = 0
  Nothing = Nothing
SYMMETRY Symmetries
INVARIANT ReadIsItsAnswer
