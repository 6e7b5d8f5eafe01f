SPECIFICATION TeardownSpec
CONSTANTS
  w1 = w1
  name1 = name1
  Threads = {t1}
  Callers = {c1}
  Tokens = {k1}
  WakeLocks = {w1}
  Free = Free
  UseSuspendCounter = TRUE
  WakeLockName <- OneName
  ZygoteWakelock = zygote
  EventSource = event
  MaxWakeups = 0
  Destructor = Destructor
CHECK_DEADLOCK FALSE
INVARIANTS
  NoThreadOutlivesObject
