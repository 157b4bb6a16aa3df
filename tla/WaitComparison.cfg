SPECIFICATION Spec
CONSTANTS
  Types <- MCTypes
  MaxRows = {1, 2}
  Retention = {1}
  MaxRuns = 3
  MaxClock = 2
  MaxBack = 1
  MaxCount = 1
  MaxEngine = 2
CONSTRAINT Bounded
INVARIANT CandidatesAreIncrements
INVARIANT EpochIsOneHistory
INVARIANT ComparableIsCompared
