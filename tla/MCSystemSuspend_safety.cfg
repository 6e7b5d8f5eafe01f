SPECIFICATION Spec
CONSTANTS
  t1 = t1
  t2 = t2
  c1 = c1
  c2 = c2
  k1 = k1
  w1 = w1
  w2 = w2
  zygote = zygote
  event = event
  name1 = name1
  name2 = name2
  Threads = {t1, t2}
  Callers = {c1, c2}
  Tokens = {k1}
  WakeLocks = {w1, w2}
  Free = Free
  UseSuspendCounter = TRUE
  WakeLockName <- DistinctNames
  ZygoteWakelock = zygote
  EventSource = event
  MaxWakeups = 1
SYMMETRY Symmetry
INVARIANTS
  TypeOK
  SingleAutosuspendThread
  TokensMatchEnabled
  CounterMatchesLocks
  NoLostWakeup
  IndInv
PROPERTIES
  NoAutosuspendWhileHeld
  SuspendUsesFreshCount
  SuspendOnlyWhileEnabled
