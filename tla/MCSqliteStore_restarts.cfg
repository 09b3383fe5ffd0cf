CONSTANTS
  Keys = {k1, k2}
  Values = {v1, v2}
  Processes = {p1, p2}
  None = None
  Failed = Failed
  NoKey = NoKey
  Second = 2
  Ttl = 4
  MaxTime = 8
SPECIFICATION Spec
INVARIANT LivesItsTime
PROPERTY ImplementsLossyStore
SYMMETRY Symmetry
