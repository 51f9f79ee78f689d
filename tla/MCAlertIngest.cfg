\* Three alerts, one of them garbled, and a stream that overflows at two.
SPECIFICATION BoundedSpec
CONSTANTS
  FirstEngine = e1
  Engines = {e1, e2}
  MaxAlerts = 3
  Garbled = {2}
  MaxEntries = 3
  StreamMax = 2
  MaxBatch = 2
  MaxFaults = 2
INVARIANTS
  LostOnlyUnderLaterCommit
  IngestInv
PROPERTIES
  IdleIsTakenOver
CHECK_DEADLOCK FALSE
