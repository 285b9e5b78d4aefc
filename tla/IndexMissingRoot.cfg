SPECIFICATION FairSpec
CONSTANTS
  memory = memory
  sessions = sessions
  notes = notes
  a = a
  b = b
  Roots <- MCRootsOfYaml
  Missing = {notes}
  Files = {a, b}
  RootOf <- MCRootOf
  Contents = {old, new}
  None = None
  Worker = Worker
  Requests = {}
  MaxEdits = 1
  MaxTroubles = 0
PROPERTY Converges
