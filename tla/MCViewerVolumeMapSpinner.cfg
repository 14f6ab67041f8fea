SPECIFICATION LiveWorkerSpec
CONSTANTS
  MaxCuts = 0
  MaxClicks = 2
  Colormaps = {"viridis", "magma"}
  InitialMap = "viridis"
  Stride <- MCStride
  Sidecar = {}
  TooLarge = {}
  Fates = {"ok"}
  MapFates = {"ok", "throws"}
  HasWorker = {TRUE}
  NoEnv = NoEnv
  NoMap = NoMap
CHECK_DEADLOCK FALSE
PROPERTIES
  MapSpinnerEnds
