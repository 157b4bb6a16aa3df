SPECIFICATION Spec
CONSTANTS
  Interval = 1
  RawRetention = 1
  PayloadRetention = 1
  PurgeInterval = 1
  BatchRows = 3
  MaxBatches = 1
  Session = {s1}
  NoSession = NoSession
  Operations = {"PERFORMANCE_COUNTERS"}
  Counter = {c1}
  MaxTime = 2
  MaxRuns = 2
  MaxPurges = 2
  MaxFaults = 1
INVARIANT EvidenceIsExact
INVARIANT EpochAgrees
INVARIANT NeverEarly
INVARIANT ReportsAreTrue
