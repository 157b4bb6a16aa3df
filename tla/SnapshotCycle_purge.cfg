SPECIFICATION Spec
CONSTANTS
  Interval = 1
  RawRetention = 1
  PayloadRetention = 2
  PurgeInterval = 1
  BatchRows = 1
  MaxBatches = 2
  Session = {s1}
  NoSession = NoSession
  Operations = {"PERFORMANCE_COUNTERS", "WAIT_STATS", "FILE_IO", "PURGE"}
  Counter = {c1}
  MaxTime = 3
  MaxRuns = 2
  MaxPurges = 2
  MaxFaults = 1
CONSTRAINT Apart
INVARIANT ReportsAreTrue
INVARIANT References
PROPERTY FreshEvidenceKept
PROPERTY NewestKept
