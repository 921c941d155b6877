SPECIFICATION FairSpec
CONSTANTS
  None = None
  Requests = {}
  Clients = {s1}
  TTL = 2
  Legacy = 1
  Now = 1
  MaxTime = 1
  MaxMsg = 2
  MaxConv = 2
PROPERTIES ShutdownEnds
