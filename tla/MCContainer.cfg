SPECIFICATION Spec
CONSTANTS
  Process = {p1, p2}
  Path = {"p", "q"}
  Saves <- MCSaves
  Keeps = {"keep"}
  MaxOps = 3
  MaxCrashes = 1
SYMMETRY ProcessSymmetry
CHECK_DEADLOCK FALSE
INVARIANTS
  TypeOK
  NeverCorrupt
  BlobsMatchEntries
  LastWriterWins
PROPERTIES
  AtomicSaves
