SPECIFICATION Spec
CONSTANTS
  Participants = {buyer, seller}
  Requests = {r1, r2}
  Cids = {c1, c2}
  Kinds <- CoreKinds
  MaxMsg = 2
  MaxConv = 2
  None = None
SYMMETRY Symmetry
INVARIANTS NoOrphans PreviewNewest PreviewBacked UnreadExact ClearedStaysHidden RetractedIsUnsent
PROPERTIES ImplementsMailbox
CHECK_DEADLOCK FALSE
