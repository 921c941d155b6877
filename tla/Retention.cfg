SPECIFICATION Spec
CONSTANTS
  None = None
  Requests = {r1, r2}
  Clients = {s1}
  TTL = 2
  Legacy = 2
  Now = 1
  MaxTime = 3
  MaxMsg = 4
  MaxConv = 2
INVARIANTS TypeOK DeadlineCovers NewerExpiresLater LiveHasConversation 
