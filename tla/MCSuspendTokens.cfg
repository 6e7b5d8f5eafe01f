SPECIFICATION TokenFairSpec
CONSTANTS
  Threads = {t1}
  Callers = {c1}
  Tokens = {k1}
  WakeLocks = {}
  Free = Free
  UseSuspendCounter = TRUE
  WakeLockName <- NoNames
  ZygoteWakelock = zygote
  EventSource = event
  MaxWakeups = 0
PROPERTIES
  DeadClientsDisableAutosuspend
