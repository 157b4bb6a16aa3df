SPECIFICATION Spec
CONSTANTS
  Paths <- NamesPaths
  GlobalPaths = {}
  Outside = {}
  Refs <- MCRefs
  Tries <- NamesTries
  Namesakes <- NamesNamesakes
  Root = "AG"
  Extra <- NamesExtra
  Settings <- MCSettings
  Nowhere = Nowhere
  Opaque = {"b0"}
  Blank = {}
  Size <- MCSize
  MaxBytes = 10
  Kind <- MCKind
  Candidates <- MCCandidates
  Absent = Absent
  Proc = {p1}
  Configs = {"k1"}
  InitTree <- NamesInitTree
  EditSet <- NamesEditSet
  MaxEdits = 4
  Restore = FALSE
  MaxRuns = 1
  NoProc = NoProc
  NoRecord = NoRecord
CHECK_DEADLOCK FALSE
INVARIANT StoredIsSnapshot
INVARIANT CheckIsSnapshot
