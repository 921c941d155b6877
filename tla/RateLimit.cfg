SPECIFICATION Spec
CONSTANTS
  k1 = k1
  k2 = k2
  k3 = k3
  Keys = {k1, k2, k3}
  WindowMs <- MCWindowMs
  Limit <- MCLimit
  MaxBuckets = 2
  MaxTime = 4
  MaxHits = 3
INVARIANTS TypeOK LessThanTwice RefusalEarned
PROPERTIES EvictsOnlyWhenFull
