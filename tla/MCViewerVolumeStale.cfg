SPECIFICATION Spec
CONSTANTS
  MaxCuts = 2
  MaxClicks = 3
  Colormaps = {"viridis", "magma"}
  InitialMap = "viridis"
  Stride <- MCStride
  Sidecar = {}
  TooLarge = {}
  Fates = {"ok"}
  MapFates = {"ok"}
  HasWorker = {TRUE}
  NoEnv = NoEnv
  NoMap = NoMap
CHECK_DEADLOCK FALSE
INVARIANTS
  DecodedForThisPayload
