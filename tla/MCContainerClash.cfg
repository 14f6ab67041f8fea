SPECIFICATION Spec
CONSTANTS
  Process = {p1}
  Path = {"p", "q"}
  Saves <- MCSavesClash
  Keeps = {"keep"}
  MaxOps = 2
  MaxCrashes = 0
CHECK_DEADLOCK FALSE
INVARIANTS
  BlobsMatchEntries
