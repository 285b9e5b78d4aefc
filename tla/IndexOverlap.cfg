SPECIFICATION FairSpec
CONSTANTS
  memory = memory
  sessions = sessions
  notes = notes
  a = a
  b = b
  Roots <- MCRoots
  Missing = {}
  Files = {a, b}
  RootOf <- MCRootOf
  Contents = {old, new}
  None = None
  Worker = Worker
  Requests = {r1}
  MaxEdits = 1
  MaxTroubles = 1
INVARIANTS
  CleanScanSyncs
PROPERTIES
  PresentFilesKeepRows
  Converges
