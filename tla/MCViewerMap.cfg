SPECIFICATION Spec
CONSTANTS
  f1 = f1
  f2 = f2
  c1 = c1
  c2 = c2
  Fills = {f1, f2}
  HasLod = {f1}
  FirstFill = f1
  Colormaps = {c1, c2}
  FirstColormap = c1
  Width <- MCWidth
  CoarseBelow <- MCCoarseBelow
  FitZoom = 2
  FitLeft <- MCFitLeft
  Extent = 30
  PanSteps <- MCPanSteps
  MaxLeft = 40
  Rooms <- MCRooms
  MaxEvents = 5
  Broken = Broken
  NoBake = NoBake
CHECK_DEADLOCK FALSE
INVARIANTS
  TypeOK
  ScreenIsCurrent
  OneRepaintPerFrame
  RingSettles
  NothingRunsUnseen
PROPERTIES
  ReturningKeepsTheView
  ComesToRest
