SPECIFICATION FairSpec
CONSTANTS
  MaxCalls = 2
  MaxSockets = 2
  LateClose = FALSE
  Scenes <- MCScenes
INVARIANTS
  CompletedByWork
  Reachable
PROPERTIES
  CallsAnswered
  CallsEnd
CHECK_DEADLOCK FALSE
