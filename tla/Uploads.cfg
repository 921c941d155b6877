SPECIFICATION Spec
CONSTANTS
  None = None
  Unknown = Unknown
  Images = {i1, i2}
  Msgs = {m0, m1}
  Legacy = {m0}
  Asks = {r1}
  Unsends = {u1, u2}
  MaxFiles = 2
SYMMETRY Symmetry
INVARIANTS UnsentImagesGo LiveImagesStay
