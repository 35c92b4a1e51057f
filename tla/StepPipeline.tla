----------------------------- MODULE StepPipeline -----------------------------
(***************************************************************************)
(* What the task engine promises of the steps of a task when nobody        *)
(* interferes: a pipeline.  Its steps are passed one after the other, each *)
(* is worked on before it is passed, and a step that fails, is blocked or  *)
(* is sent back stops the whole task.                                      *)
(***************************************************************************)
EXTENDS Naturals

CONSTANT NSteps

Steps == 1..NSteps

VARIABLE stage   \* stage[s]: how far step s is

Stages == {"waiting", "ready", "busy", "passed", "stopped"}

Opened(s) == [q \in Steps |-> IF q < s THEN stage[q]
                              ELSE IF q = s THEN "ready" ELSE "waiting"]

Init == stage = [s \in Steps |-> IF s = 1 THEN "ready" ELSE "waiting"]

Start(s) ==
  /\ stage[s] = "ready"
  /\ stage' = [stage EXCEPT ![s] = "busy"]

\* The step behind it opens at the same time.  The last one may be passed by what
\* happened outside: a pull request merged on GitHub.
Pass(s) ==
  /\ stage[s] = "busy" \/ (s = NSteps /\ stage[s] = "ready")
  /\ stage' = [q \in Steps |-> IF q = s THEN "passed"
                               ELSE IF q = s + 1 THEN "ready" ELSE stage[q]]

Stop(s) ==
  /\ stage[s] = "busy"
  /\ stage' = [stage EXCEPT ![s] = "stopped"]

\* The task returns to a step it had passed, or that stopped it, while nothing is
\* worked on.
GoBack(s) ==
  /\ \A q \in Steps : stage[q] # "busy"
  /\ stage[s] \in {"passed", "stopped"}
  /\ stage' = Opened(s)

Next == \E s \in Steps : Start(s) \/ Pass(s) \/ Stop(s) \/ GoBack(s)

Spec == Init /\ [][Next]_stage
-----------------------------------------------------------------------------
\* Everything before a step that is ready, worked on or stopped is passed, and
\* everything behind it waits: one step at a time, none skipped.
OneStepAtATime ==
  \A s \in Steps : stage[s] \in {"ready", "busy", "stopped"} =>
    /\ \A q \in Steps : q < s => stage[q] = "passed"
    /\ \A q \in Steps : q > s => stage[q] = "waiting"
===============================================================================
