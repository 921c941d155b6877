SPECIFICATION FairSpec
CONSTANTS
  a = a
  b = b
  b1 = b1
  B = B
  c = c
  None = None
  Users = {a, b}
  Sockets = {b1}
  Devices = {B}
  Owner <- MCOwner
  Device <- MCDevice
  Convs = {c}
  Pair <- MCPair
  MaxMsg = 3
  PageSize = 1
INVARIANTS SyncLeavesNoGap OncePerSocket
PROPERTIES PendingArrives
