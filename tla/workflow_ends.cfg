SPECIFICATION FairUsersSpec
CONSTANTS
  NSteps = 6
  Kind <- PlanKind
  TemplateExecutor <- PlanExecutor
  MaxRuns = 12
  Handlers <- MCHandlers
  AutoQueue = auto
  Automation = TRUE
  PrApproval = FALSE
  AutoCreatePr = TRUE
  AutoMerge = TRUE
  Overrides <- NoKinds
  Interventions <- GitHub
  MaxInterventions = 1
  Overlap = FALSE
  h1 = h1
  h2 = h2
INVARIANTS
  OneActiveRun
  NextActionHelps
  IssueFollowsTask
PROPERTIES
  RunsPipeline
  TaskEnds
CHECK_DEADLOCK FALSE
