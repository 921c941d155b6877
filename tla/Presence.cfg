SPECIFICATION Spec
CONSTANTS
  a = a
  b = b
  a1 = a1
  a2 = a2
  b1 = b1
  c = c
  d = d
  Users = {a, b}
  Sockets = {a1, a2, b1}
  Owner <- MCOwner
  Convs = {c, d}
  Pair <- MCPair
  MaxLastSeen = 1
INVARIANTS TypeOK PresenceCounted ViewTrue
PROPERTIES DepartureHasTime
CHECK_DEADLOCK FALSE
