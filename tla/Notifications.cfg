SPECIFICATION Spec
CONSTANTS
  None = None
  t1 = t1
  t2 = t2
  Users = {a, b}
  Tokens = {t1, t2, old}
  ExpoTokens = {t1, t2}
  Jobs = {j1}
SYMMETRY Symmetry
INVARIANTS PushFollowsLogin DeadArePruned
PROPERTIES NothingLostQuietly
