SPECIFICATION Spec
CONSTANTS
  Participants = {buyer, seller}
  Requests = {r1, r2}
  Cids = {c1, c2}
  Kinds <- PreviewKinds
  MaxMsg = 2
  MaxConv = 1
  None = None
SYMMETRY Symmetry
INVARIANTS PreviewHonoursUnsend
CHECK_DEADLOCK FALSE
