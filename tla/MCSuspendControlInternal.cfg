SPECIFICATION Spec
CONSTANTS
  a = a
  b = b
  Calls = {a, b}
  Main = Main
  Options <- MCOptions
  WakeupIds = {1, 2}
  StatFiles = {1, 2}
  SourceFiles = {"active_count", "device", "total_time_ms"}
  Chunk = 1
  MaxCalls = 2
  MaxChanges = 2
  MaxSuspends = 1
SYMMETRY Symmetry
CHECK_DEADLOCK FALSE
INVARIANTS
  ObjectOutlivesUse
  ListingComplete
  EntryFromOneSource
  SnapshotConsistent
  StatsLockOnlyWhileReading
