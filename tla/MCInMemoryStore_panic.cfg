CONSTANTS
  Keys = {k1, k2, k3}
  Values = {v1}
  Threads = {t1}
  None = None
  Failed = Failed
  NoKey = NoKey
  Capacity = 2
  MinRing = 16
  Ttl = 0
  MaxTime = 6
SPECIFICATION Spec
INVARIANT NoPanic
