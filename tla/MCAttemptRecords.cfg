SPECIFICATION Spec
CONSTANTS
  BaseSleepTime = 10
  MaxSleepTime = 50
  Scales <- MCScales
  BackoffThreshold = 1
  ShortSuspendThreshold = 3
  TicksPerMilli = 2
  Capacities = {0, 1, 2, 3}
  ReasonFiles <- MCReasonFiles
  Attempts <- MCAttempts
  Done = Done
  MaxAttempts = 4
CHECK_DEADLOCK FALSE
INVARIANTS
  SleepTimeFollowsFormula
  BackoffsCounted
  ShortSuspendsArePartOfSuspends
  LookupMatchesList
  CountsAreExact
  AttemptsInBoth
PROPERTIES
  ImplementsLruCache
