SPECIFICATION FairSpec
CONSTANTS
  NSteps = 5
  Kind <- DevKind
  TemplateExecutor <- DevExecutor
  MaxRuns = 11
  Handlers <- OneHandler
  AutoQueue = auto
  Automation = TRUE
  PrApproval = TRUE
  AutoCreatePr = TRUE
  AutoMerge = FALSE
  Overrides <- NoKinds
  Interventions <- PrHelp
  MaxInterventions = 1
  Overlap = FALSE
  h1 = h1
  h2 = h2
PROPERTIES
  PrNeedsApproval
  NonAgentStarts
  RollbackRestarts
CHECK_DEADLOCK FALSE
