SPECIFICATION Spec
CONSTANTS
  h1 = h1
  h2 = h2
  Handlers <- MCHandlers
  Capacity = 1
  Scenes <- MCScenes
INVARIANTS
  DoneMeansMerged
  PmAsksOnce
  ControlledCreate
  ClaimHeld
PROPERTIES
  DecisionFinal
CHECK_DEADLOCK FALSE
