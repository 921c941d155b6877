SPECIFICATION ContactSpec
CONSTANTS
  b = b
  s = s
  i = i
  None = None
  Users = {b, s}
  Callers = {s}
  Requests = {r1, r2}
  Items = {i}
  Seller <- MCSeller
  Prices = {p1, p2}
  Calls = {c1, c2}
  MaxRunning = 2
SYMMETRY Symmetry
INVARIANTS ReadersAgree OneThreadPerPair
PROPERTIES SoloChangeSettles StartsEntitled SnapshotKept
