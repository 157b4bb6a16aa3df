SPECIFICATION FairSpec
CONSTANTS
  Interval = 1
  RawRetention = 1
  PayloadRetention = 1
  PurgeInterval = 1
  BatchRows = 2
  MaxBatches = 1
  Session = {s1, s2}
  NoSession = NoSession
  Operations = {"PERFORMANCE_COUNTERS", "WAIT_STATS", "PURGE"}
  Counter = {c1}
  MaxTime = 1
  MaxRuns = 1
  MaxPurges = 2
  MaxFaults = 1

INVARIANT CycleTypeOK
INVARIANT OneWriter
INVARIANT LockBalanced
PROPERTY CallReturns
