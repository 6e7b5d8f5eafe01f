SPECIFICATION Spec
CONSTANTS
  w1 = w1
  w2 = w2
  w3 = w3
  w4 = w4
  k1 = k1
  k2 = k2
  k3 = k3
  WakeLocks = {w1, w2, w3, w4}
  KeyOf <- SharedKeys
  Capacity = 2
  MaxClock = 1
  MaxActive = 2
SYMMETRY Symmetry
INVARIANTS
  LookupMatchesList
  ActiveMatchesHeld
  TimesAddUp
PROPERTIES
  ImplementsLruCache
