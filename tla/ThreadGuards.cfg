SPECIFICATION Spec
CONSTANTS
  Participants = {buyer, seller}
  Requests = {r1, r2}
  Cids = {c1}
  Kinds <- GuardKinds
  MaxMsg = 3
  MaxConv = 1
  None = None
SYMMETRY Symmetry
INVARIANTS UniqueCid AnnouncedOnce BlockedNeverLands MuteHonoured IInv
