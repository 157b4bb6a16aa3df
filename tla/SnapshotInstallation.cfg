SPECIFICATION FairSpec
CONSTANTS
  Installers = {i1, i2}
  Releases <- AllReleases
  Quiet = TRUE
  MaxFailures = 2
INVARIANT MarkedIsComplete
INVARIANT AdmittedIsCoherent
INVARIANT Resumable
PROPERTY ForeignKept
PROPERTY CompletedAgain
