SPECIFICATION Spec
CONSTANTS
  cb1 = cb1
  cb2 = cb2
  wcb1 = wcb1
  name1 = name1
  name2 = name2
  n1 = n1
  Callbacks = {cb1, cb2}
  WakelockCallbacks = {wcb1}
  Remote = {cb1, wcb1}
  Names = {name1, name2}
  Notifiers = {n1}
  Wakeup = Wakeup
  MaxRegistered = 3
INVARIANTS
  RegisteredIsWatched
PROPERTIES
  DeadCallbacksForgotten
  NotificationsReachAll
