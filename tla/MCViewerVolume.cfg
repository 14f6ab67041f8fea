SPECIFICATION Spec
CONSTANTS
  MaxCuts = 2
  MaxClicks = 3
  Colormaps = {"viridis", "magma"}
  InitialMap = "viridis"
  Stride <- MCStride
  Sidecar = {0}
  TooLarge = {2}
  Fates = {"ok", "empty", "throws"}
  MapFates = {"ok", "throws"}
  HasWorker = {TRUE, FALSE}
  NoEnv = NoEnv
  NoMap = NoMap
CHECK_DEADLOCK FALSE
INVARIANTS
  TypeOK
  DecodeIsWatched
  SpinnerMeansDecoding
  BlankOnlyWhileDecoding
  RecolourHasMesh
  ColoursBelongToMesh
