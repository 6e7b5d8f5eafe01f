SPECIFICATION Spec
CONSTANTS
  w1 = w1
  w2 = w2
  w3 = w3
  w4 = w4
  k1 = k1
  k2 = k2
  k3 = k3
  WakeLocks = {w1, w2}
  KeyOf <- DistinctKeys
  Capacity = 2
  MaxClock = 2
  MaxActive = 2
INVARIANTS
  MaxTimeWithinTotal
