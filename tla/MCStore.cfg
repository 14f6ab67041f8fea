SPECIFICATION Spec
CONSTANTS
  Align = 2
  SealAlign = 2
  SealLen = 3
  PrefixLen = 1
  Schemas <- MCSchemas
  Values = {1, 2}
  PageSize = 4
  MaxCreates = 2
  MaxWrites = 2
  MaxFailures = 1
CHECK_DEADLOCK FALSE
INVARIANTS
  TypeOK
  FinalizedReadsBack
  UnsealedNeverOpens
  KilledFinalizeIsWhole
