SPECIFICATION ConsoleSpec
CONSTANTS
  t1 = t1
  g1 = g1
  t2 = t2
  f1 = f1
  f2 = f2
  Streams <- MCStreams
  RunOf <- MCRunOf
  FullAt = 2
  ListLimit = 2
  ShowLimit = 3
  Fetches <- MCFetches
  ConsoleScenes <- MCConsoleScenes
INVARIANTS
  UpdatesKept
  ConsoleCovers
  ShownInOrder
PROPERTIES
  Persisted
CHECK_DEADLOCK FALSE
