SPECIFICATION Spec
CONSTANTS
  Paths <- PairPaths
  GlobalPaths = {}
  Outside = {}
  Refs <- MCRefs
  Tries <- PairTries
  Namesakes <- PairNamesakes
  Root = "AG"
  Extra <- PairExtra
  Settings <- MCSettings
  Nowhere = Nowhere
  Opaque = {"b0"}
  Blank = {}
  Size <- MCSize
  MaxBytes = 10
  Kind <- MCKind
  Candidates <- MCCandidates
  Absent = Absent
  Proc = {p1, p2}
  Configs = {"k0"}
  InitTree <- PairInitTree
  EditSet <- PairEditSet
  MaxEdits = 1
  Restore = FALSE
  MaxRuns = 2
  NoProc = NoProc
  NoRecord = NoRecord
CHECK_DEADLOCK FALSE
PROPERTY OperationEnds
