SPECIFICATION Spec
CONSTANTS
  NSteps = 3
  Kind <- GateKind
  TemplateExecutor <- GateExecutor
  MaxRuns = 3
  Handlers <- OneHandler
  AutoQueue = auto
  Automation = TRUE
  PrApproval = FALSE
  AutoCreatePr = TRUE
  AutoMerge = TRUE
  Overrides <- NoKinds
  Interventions <- AnyHelp
  MaxInterventions = 2
  Overlap = TRUE
  h1 = h1
  h2 = h2
INVARIANTS
  TypeOK
  AttemptsContiguous
  DoneOnlyByMerge
  StepEndsWithRun
PROPERTIES
  KeepsLedger
CHECK_DEADLOCK FALSE
