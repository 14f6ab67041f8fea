SPECIFICATION TimerSpec
CONSTANTS
  MaxCuts = 2
  MaxClicks = 3
  Colormaps = {"viridis", "magma"}
  InitialMap = "viridis"
  Stride <- MCStride
  Sidecar = {}
  TooLarge = {}
  Fates = {"ok"}
  MapFates = {"ok"}
  HasWorker = {TRUE, FALSE}
  NoEnv = NoEnv
  NoMap = NoMap
CHECK_DEADLOCK FALSE
INVARIANTS
  SettlesOnPayload
PROPERTIES
  DecodeEnds
