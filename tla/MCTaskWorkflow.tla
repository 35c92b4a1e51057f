---------------------------- MODULE MCTaskWorkflow ----------------------------
(***************************************************************************)
(* Instances of TaskWorkflow: shortened forms of the built-in templates    *)
(* (taskTemplates.ts).  Consecutive agent steps of a template behave like  *)
(* one, so each form keeps one of every run of equal executors.            *)
(***************************************************************************)
EXTENDS TaskWorkflow

CONSTANTS h1, h2   \* two requests or deliveries at a time
MCHandlers == {h1, h2}
OneHandler == {h1}

\* quick.dev.full: implement, human review, create PR, CI gate, merge
DevKind     == <<"dev.implement", "work", "pr.create", "ci.gate", "pr.merge">>
DevExecutor == <<"agent", "human", "system", "ci", "human">>

\* the same behind a step that prepares it, as a project may define it and as
\* planning.prd.dev.full has it: what a push sends back does not go to the first step
PlanKind     == <<"work", "dev.implement", "work", "pr.create", "ci.gate", "pr.merge">>
PlanExecutor == <<"agent", "agent", "human", "system", "ci", "human">>

\* its second half alone, the PR known: CI gate, merge
GateKind     == <<"dev.implement", "ci.gate", "pr.merge">>
GateExecutor == <<"agent", "ci", "human">>

NoKinds   == {}
GitHub    == {"github", "openpr"}
AnyHelp   == {"rollback", "cancel", "resubmit", "crash", "resume",
              "github", "openpr"}
PrHelp    == {"createpr", "rollback", "complete"}
===============================================================================
