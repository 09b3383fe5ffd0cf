CONSTANTS
  Keys = {k1, k2, k3}
  Values = {v1, v2}
  Threads = {t1, t2}
  None = None
  Failed = Failed
  NoKey = NoKey
  Capacity = 2
  MinRing = 1
  Ttl = 0
  MaxTime = 1
SPECIFICATION Spec
INVARIANT CapacityBound
INVARIANT RingMirrorsData
INVARIANT PanicNeedsPurge
PROPERTY FifoUntilPurged
PROPERTY PurgeOnlyExpired
PROPERTY ImplementsCcrStore
SYMMETRY Symmetry
