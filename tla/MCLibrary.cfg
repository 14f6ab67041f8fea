SPECIFICATION Spec
CONSTANTS
  Names = {"a", "b", "c"}
  MaxLines = 3
  Inputs <- InputsVal
  NodeCount = 4
  MaxNeighbours = 2
  Radius = 2
  MaxData = 3
  MaxLayers = 2
  GridNodes = {n1, n2}
  OffNodes = {off}
  Values = {1, 3}
  MaxScatter = 2
  MaxBatches = 2
  MaxBatch = 2
  Fields <- FieldsVal
  MaxFields = 3
  None = None
  Undefined = Undefined
INVARIANTS
  ReadsTheAssignedValue
  CyclesAreFound
  LayersAreIndependent
  InformedOnce
  DataAreHonoured
  HoldsTheLatest
  OneSamplePerControl
  ReadsBack
PROPERTY
  EvaluatesOnDemand
CHECK_DEADLOCK FALSE
