SPECIFICATION SyncSpec
CONSTANTS
  h1 = h1
  Items <- MCItems
  Hands <- MCHands
  PageSize = 1
  MaxPages = 3
  Overlap = 1
  SyncScenes <- MCSyncScenes
INVARIANTS
  CursorCovers
PROPERTIES
  Imported
CHECK_DEADLOCK FALSE
