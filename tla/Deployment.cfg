SPECIFICATION Spec
CONSTANTS
  Deployments = {d1, d2}
  a = a
  b = b
  Databases = {a, b}
  NameOrder <- MCOrder
  Selections <- MCSelections
  Cells = {1, 2}
  Edits = {e1}
  Intrusions = {"foreign"}
  Contents <- MCContents
  MaxRuns = 1
  MaxOutside = 1
  Nobody = Nobody
  Operator = Operator
  d1 = d1
  d2 = d2
  e1 = e1
CONSTRAINT Overlaps
CHECK_DEADLOCK FALSE
INVARIANT NoEditLost
INVARIANT NoWaitCycle
INVARIANT ReceiptsDecide
PROPERTY DeploymentsAreAtomic
PROPERTY EveryRunEnds
