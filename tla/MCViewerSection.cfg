SPECIFICATION Spec
CONSTANTS
  w1 = w1
  w2 = w2
  Wells = {w1, w2}
  Precomputed <- MCPrecomputed
  Fence = Fence
  Model = Model
  MaxRequests = 4
  MaxClicks = 4
CHECK_DEADLOCK FALSE
INVARIANTS
  TypeOK
  LabelsMatchSections
  NoAnswerLost
  ShownOrSaid
  LoadFailsOnlyAfterStop
PROPERTIES
  EveryRequestEnds
