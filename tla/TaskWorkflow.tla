----------------------------- MODULE TaskWorkflow -----------------------------
(***************************************************************************)
(* The task engine of the backend: one Task of one Issue, its ordered      *)
(* Steps and the Runs that execute them.                                   *)
(*                                                                         *)
(* All state that matters lives in database rows.  The code that changes   *)
(* it are request handlers, webhooks, and the per-issue auto-advance queue *)
(* of one Node process: they interleave at every await, and nothing locks  *)
(* a row between the read a handler decides on and the writes it then      *)
(* makes.  A handler is therefore a process with a program counter: it     *)
(* reads in one action and writes in a later one, first the Run (with its  *)
(* Approval), then the Steps, then the Task with its Issue, each an action.*)
(***************************************************************************)
EXTENDS Naturals, Sequences, FiniteSets

CONSTANTS
  NSteps,            \* steps of the template, numbered in their order
  Kind,              \* Kind[s]: what a step is for
  TemplateExecutor,  \* TemplateExecutor[s]: who executes it by default
  MaxRuns,           \* bound: run rows the instance may create
  Handlers,          \* concurrent HTTP requests and webhook deliveries
  AutoQueue,         \* the consumer of the issue's auto-advance queue
  Automation,        \* PM_AUTOMATION_ENABLED
  PrApproval,        \* policy.approvals.requireForActions has "create_pr"
  AutoCreatePr,      \* policy.automation.autoCreatePr
  AutoMerge,         \* policy.automation.autoMerge, with no merge approval
  Overrides,         \* executors a start request may ask for
  Interventions,     \* what users and GitHub do besides the normal flow
  MaxInterventions,  \* bound: how many of these happen
  Overlap            \* may handlers interleave, other than while one awaits
                     \*   its agent?

Steps     == 1..NSteps
Runs      == 1..MaxRuns
Processes == Handlers \cup {AutoQueue}

Executors      == {"agent", "human", "ci", "system"}
Kinds          == {"work", "dev.implement", "pr.create", "report.publish", "ci.gate",
                   "pr.merge"}
StepStatuses   == {"pending", "ready", "running", "waiting_ci", "waiting_human",
                   "blocked", "completed", "failed"}
TaskStatuses   == {"pending", "running", "blocked", "completed", "failed"}
IssueStatuses  == {"pending", "running", "reviewing", "done", "failed",
                   "cancelled"}
ActiveStatuses == {"running", "waiting_ci"}
EndedStatuses  == {"completed", "failed", "cancelled"}
ApprovalStatuses  == {"none", "pending", "executing", "executed", "failed",
                      "rejected"}
InterventionKinds == {"rollback", "cancel", "complete", "resubmit", "createpr",
                      "crash", "resume", "github", "openpr"}

\* What an auto-advance trigger was given: the tunnel to the agents ("acp"),
\* the function that creates a workspace ("ws"), or both.
Deps == {"both", "acp", "ws"}

ASSUME StepsAssumption ==
  /\ NSteps \in Nat \ {0}
  /\ Kind \in [Steps -> Kinds]
  /\ TemplateExecutor \in [Steps -> Executors]
  \* every template of taskTemplates.ts has pr.merge as its last step only; those
  \* that a project defines for itself may differ, and are left out if they do
  /\ \A s \in Steps : Kind[s] = "pr.merge" => s = NSteps

ASSUME BoundsAssumption ==
  /\ MaxRuns \in Nat
  /\ MaxInterventions \in Nat
  /\ AutoQueue \notin Handlers
  /\ Interventions \subseteq InterventionKinds
  /\ Overrides \subseteq Executors
  /\ {Automation, PrApproval, AutoCreatePr, AutoMerge, Overlap} \subseteq BOOLEAN

VARIABLES
  task,        \* the Task row: [status, current]
  stepStatus,  \* Step.status of every step
  executor,    \* Step.executorType of every step (a start may override it)
  issue,       \* Issue.status
  run,         \* the Run rows; status "none" for a row not created yet
  workspace,   \* Task.workspacePath and branchName are set
  pr,          \* the branch's pull requests on the SCM: [number: of the last,
               \*   open: it is, merged: the last one that was (0: none), told:
               \*   the backend got the webhook of that merge, accepted: a request
               \*   to merge was answered without an error, and without a merge]
  pc,          \* what every process is doing
  queue,       \* triggers waiting in the issue's auto-advance queue
  budget       \* interventions left

vars == <<task, stepStatus, executor, issue, run, workspace, pr,
          pc, queue, budget>>
-----------------------------------------------------------------------------
RunRows == [status   : {"none"} \cup ActiveStatuses \cup EndedStatuses,
            step     : Steps,
            executor : Executors,
            attempt  : Nat,
            bound    : BOOLEAN,           \* agentId is set
            branch   : BOOLEAN,           \* branchName is set
            pr       : Nat,               \* scmPrNumber, 0 when not set
            approval : ApprovalStatuses]  \* its latest create_pr Approval

NoRun == [status |-> "none", step |-> 1, executor |-> "agent", attempt |-> 0,
          bound |-> FALSE, branch |-> FALSE, pr |-> 0, approval |-> "none"]

PullRequests == [number : Nat, open : BOOLEAN, merged : Nat, told : BOOLEAN,
                 accepted : BOOLEAN]

\* What the caller does after the last write of a handler's shared part.
Sequels == {"none", "resume", "hook", "ci"} \cup Deps

Places == {"idle", "pick", "start", "create", "created", "stepped", "dispatch",
           "requested", "prompt", "finalize", "advance", "advanced", "moved",
           "block", "blocking", "rollback", "rolling", "ci", "automerge",
           "hook", "approving", "executing", "rejecting"}

Threads == [at      : Places,
            step    : Steps,
            asked   : Executors \cup {"default"},  \* executor a start asks for
            exec    : Executors,
            attempt : Nat,
            run     : Runs \cup {0},
            branch  : BOOLEAN,           \* Task.branchName, as it was read
            outcome : {"completed", "failed", "blocked"},
            nextPending : BOOLEAN,       \* the next step, as it was read
            then    : Sequels,
            todo    : SUBSET Runs]

Idle == [at |-> "idle", step |-> 1, asked |-> "default", exec |-> "agent",
         attempt |-> 0, run |-> 0, branch |-> FALSE, outcome |-> "completed",
         nextPending |-> FALSE, then |-> "none", todo |-> {}]

At(p, place)   == pc[p].at = place
Become(p, t)   == pc' = [pc EXCEPT ![p] = t]
Goto(p, place) == Become(p, [pc[p] EXCEPT !.at = place])
Finish(p)      == Become(p, Idle)
Used(r)        == run[r].status # "none"
Latest(S, r)   == r \in S /\ \A q \in S : q <= r

\* Awaiting the agent takes up to an hour; every other stay in a handler is a
\* few database round trips, which Overlap lets meet those of another.
Calm(p) == Overlap \/ \A q \in Processes \ {p} : pc[q].at \in {"idle", "prompt"}

\* A request, a webhook delivery or a queued trigger can begin in process p.
Free(p) == At(p, "idle") /\ Calm(p)

\* Someone does something outside the normal flow.
Intervene(kind) ==
  /\ kind \in Interventions
  /\ budget > 0
  /\ budget' = budget - 1

\* Bound: a start that has begun keeps a run row in reserve.
RoomForRun ==
  Cardinality({r \in Runs : Used(r)})
    + Cardinality({p \in Processes : pc[p].at \in {"pick", "start", "create"}})
  < MaxRuns
-----------------------------------------------------------------------------
(* createTaskFromTemplate is one transaction.  The trigger that follows it   *)
(* is given no tunnel to the agents.                                         *)
Init ==
  /\ task = [status |-> "pending", current |-> 1]
  /\ stepStatus = [s \in Steps |-> IF s = 1 THEN "ready" ELSE "pending"]
  /\ executor = TemplateExecutor
  /\ issue = "pending"
  /\ run = [r \in Runs |-> NoRun]
  /\ workspace = FALSE
  /\ pr = [number |-> 0, open |-> FALSE, merged |-> 0, told |-> FALSE,
           accepted |-> FALSE]
  /\ pc = [p \in Processes |-> Idle]
  /\ queue = IF Automation THEN <<"ws">> ELSE <<>>
  /\ budget = MaxInterventions
-----------------------------------------------------------------------------
(* Starting a step: a request, or the auto-advance queue, then startStep.    *)

StartRoute(h, s, asked) ==
  /\ Free(h)
  /\ stepStatus[s] = "ready"
  /\ asked \in {"default"} \cup Overrides
  /\ RoomForRun
  /\ Become(h, [Idle EXCEPT !.at = "pick", !.step = s, !.asked = asked,
                            !.then = "both"])
  /\ UNCHANGED <<task, stepStatus, executor, issue, run, workspace, pr, queue,
                 budget>>

\* Mutant: an agent step waits for the workspace that only its own start creates.
AutoStartableMut(deps) ==
  LET s == task.current IN
  /\ task.status \notin {"blocked", "completed", "failed"}
  /\ stepStatus[s] = "ready"
  /\ executor[s] # "human"
  /\ Kind[s] = "pr.create" => AutoCreatePr
  /\ workspace
  /\ executor[s] = "agent" => deps # "ws"

\* What autoAdvanceTaskOnce requires of the current step.
AutoStartable(deps) ==
  LET s == task.current IN
  /\ task.status \notin {"blocked", "completed", "failed"}
  /\ stepStatus[s] = "ready"
  /\ executor[s] # "human"
  /\ Kind[s] = "pr.create" => AutoCreatePr
  /\ IF executor[s] = "agent"
       THEN deps # "ws" /\ (workspace \/ deps # "acp")
       ELSE workspace

AutoPick ==
  /\ Free(AutoQueue)
  /\ queue # <<>>
  /\ AutoStartable(Head(queue))
  /\ RoomForRun
  /\ queue' = Tail(queue)
  /\ Become(AutoQueue, [Idle EXCEPT !.at = "pick", !.step = task.current,
                                    !.then = Head(queue)])
  /\ UNCHANGED <<task, stepStatus, executor, issue, run, workspace, pr, budget>>

AutoDrop ==
  /\ Free(AutoQueue)
  /\ queue # <<>>
  /\ ~AutoStartable(Head(queue))
  /\ queue' = Tail(queue)
  /\ UNCHANGED <<task, stepStatus, executor, issue, run, workspace, pr, pc, budget>>

\* startStep reads the step and its task ...
StartRead(p) ==
  LET s == pc[p].step IN
  /\ At(p, "pick")
  /\ IF stepStatus[s] = "ready"
       THEN Become(p, [pc[p] EXCEPT !.at = "start", !.branch = workspace,
                         !.exec = IF pc[p].asked = "default" THEN executor[s]
                                                             ELSE pc[p].asked])
       ELSE Finish(p)
  /\ UNCHANGED <<task, stepStatus, executor, issue, run, workspace, pr, queue,
                 budget>>

Attempts(s) == {run[r].attempt : r \in {q \in Runs : Used(q) /\ run[q].step = s}}

\* Mutant: attempts are numbered over the runs of the task, not of the step.
StartAttemptMut(p) ==
  /\ At(p, "start")
  /\ executor' = [executor EXCEPT ![pc[p].step] = IF pc[p].asked = "default" THEN @
                                                                    ELSE pc[p].asked]
  /\ Become(p, [pc[p] EXCEPT !.at = "create",
                             !.attempt = Cardinality({r \in Runs : Used(r)}) + 1])
  /\ UNCHANGED <<task, stepStatus, issue, run, workspace, pr, queue, budget>>

\* ... saves an executor that was asked for, and reads the last attempt ...
StartAttempt(p) ==
  LET s == pc[p].step IN
  /\ At(p, "start")
  /\ executor' = [executor EXCEPT ![s] = IF pc[p].asked = "default" THEN @
                                                                    ELSE pc[p].asked]
  /\ \E a \in Attempts(s) \cup {0} :
       /\ \A b \in Attempts(s) : b <= a
       /\ Become(p, [pc[p] EXCEPT !.at = "create", !.attempt = a + 1])
  /\ UNCHANGED <<task, stepStatus, issue, run, workspace, pr, queue, budget>>

\* ... creates the run (row numbers follow startedAt) ...
StartCreateRun(p) ==
  /\ At(p, "create")
  /\ \E r \in Runs :
       /\ \A q \in Runs : Used(q) <=> q < r
       /\ run' = [run EXCEPT ![r] =
            [NoRun EXCEPT !.status   = IF pc[p].exec = "ci" THEN "waiting_ci"
                                                            ELSE "running",
                          !.step     = pc[p].step,
                          !.executor = pc[p].exec,
                          !.attempt  = pc[p].attempt,
                          !.branch   = pc[p].branch]]
       /\ Become(p, [pc[p] EXCEPT !.at = "created", !.run = r])
  /\ UNCHANGED <<task, stepStatus, executor, issue, workspace, pr, queue, budget>>

\* Mutant: a step that a person executes stays ready.
StartMoveStepMut(p) ==
  /\ At(p, "created")
  /\ stepStatus' = [stepStatus EXCEPT ![pc[p].step] =
       CASE pc[p].exec = "ci"    -> "waiting_ci"
         [] pc[p].exec = "human" -> @
         [] OTHER                -> "running"]
  /\ Goto(p, "stepped")
  /\ UNCHANGED <<task, executor, issue, run, workspace, pr, queue, budget>>

\* ... moves the step ...
StartMoveStep(p) ==
  /\ At(p, "created")
  /\ stepStatus' = [stepStatus EXCEPT ![pc[p].step] =
       CASE pc[p].exec = "ci"    -> "waiting_ci"
         [] pc[p].exec = "human" -> "waiting_human"
         [] OTHER                -> "running"]
  /\ Goto(p, "stepped")
  /\ UNCHANGED <<task, executor, issue, run, workspace, pr, queue, budget>>

\* ... and the task and the issue.
StartMoveTask(p) ==
  /\ At(p, "stepped")
  /\ task' = [status |-> "running", current |-> pc[p].step]
  /\ issue' = IF pc[p].exec \in {"ci", "human"} THEN "reviewing" ELSE "running"
  /\ Goto(p, "dispatch")
  /\ UNCHANGED <<stepStatus, executor, run, workspace, pr, queue, budget>>
-----------------------------------------------------------------------------
(* dispatchExecutionForRun.                                                  *)

\* The process's run ends, and advanceTaskFromRunTerminal is called for it.
EndRun(p, r, row, outcome, then) ==
  /\ run' = [run EXCEPT ![r] = row]
  /\ Become(p, [pc[p] EXCEPT !.at = "advance", !.run = r, !.step = row.step,
                             !.outcome = outcome, !.then = then])

\* A person or the CI takes over: the executor only writes an event.
DispatchWait(p) ==
  /\ At(p, "dispatch")
  /\ pc[p].exec \in {"human", "ci"}
  /\ Finish(p)
  /\ UNCHANGED <<task, stepStatus, executor, issue, run, workspace, pr, queue,
                 budget>>

\* The executor threw: an agent step without tunnel, workspace or free agent; a
\* system step of an unknown kind; a report.publish step, for which no code
\* writes the Artifact it looks for; a pr.create step whose PR was refused.
DispatchFail(p) ==
  /\ At(p, "dispatch")
  /\ pc[p].exec \in {"agent", "system"}
  /\ ~(pc[p].exec = "system" /\ Kind[pc[p].step] = "pr.create" /\ PrApproval)
  /\ EndRun(p, pc[p].run, [run[pc[p].run] EXCEPT !.status = "failed"],
            "failed", "none")
  /\ UNCHANGED <<task, stepStatus, executor, issue, workspace, pr, queue, budget>>

\* createReviewRequestForRun: a run that has a PR keeps it; otherwise the SCM
\* refuses a second open PR of a branch.
CanCreatePr(r) == run[r].pr # 0 \/ (run[r].branch /\ ~pr.open)
OpenedPr       == [pr EXCEPT !.number = @ + 1, !.open = TRUE]
CreatedPr(r)   == IF run[r].pr # 0 THEN pr ELSE OpenedPr
PrOf(r)        == IF run[r].pr # 0 THEN run[r].pr ELSE pr.number + 1
MergedPr       == [pr EXCEPT !.open = FALSE, !.merged = pr.number, !.told = FALSE]

\* Mutant: the policy is not asked.
DispatchCreatePrUnasked(p) ==
  LET r == pc[p].run IN
  /\ At(p, "dispatch")
  /\ pc[p].exec = "system" /\ Kind[pc[p].step] = "pr.create"
  /\ CanCreatePr(r)
  /\ pr' = CreatedPr(r)
  /\ EndRun(p, r, [run[r] EXCEPT !.status = "completed", !.pr = PrOf(r)],
            "completed", pc[p].then)
  /\ UNCHANGED <<task, stepStatus, executor, issue, workspace, queue, budget>>

DispatchCreatePr(p) ==
  LET r == pc[p].run IN
  /\ At(p, "dispatch")
  /\ pc[p].exec = "system" /\ Kind[pc[p].step] = "pr.create" /\ ~PrApproval
  /\ CanCreatePr(r)
  /\ pr' = CreatedPr(r)
  /\ EndRun(p, r, [run[r] EXCEPT !.status = "completed", !.pr = PrOf(r)],
            "completed", pc[p].then)
  /\ UNCHANGED <<task, stepStatus, executor, issue, workspace, queue, budget>>

\* requestCreatePrApproval: an approval still open is reused.
RequestApproval(r) ==
  run' = [run EXCEPT ![r].approval =
            IF @ \in {"pending", "executing"} THEN @ ELSE "pending"]

DispatchRequestApproval(p) ==
  /\ At(p, "dispatch")
  /\ pc[p].exec = "system" /\ Kind[pc[p].step] = "pr.create" /\ PrApproval
  /\ RequestApproval(pc[p].run)
  /\ Goto(p, "requested")
  /\ UNCHANGED <<task, stepStatus, executor, issue, workspace, pr, queue, budget>>

ParkStep(p) ==
  /\ At(p, "requested")
  /\ stepStatus' = [stepStatus EXCEPT ![pc[p].step] = "waiting_human"]
  /\ issue' = "reviewing"
  /\ Finish(p)
  /\ UNCHANGED <<task, executor, run, workspace, pr, queue, budget>>

\* Mutant: the agent's assignment also sets the run running.
DispatchAgentMut(p) ==
  /\ At(p, "dispatch")
  /\ pc[p].exec = "agent"
  /\ pc[p].then # "ws"
  /\ workspace \/ pc[p].then # "acp"
  /\ run' = [run EXCEPT ![pc[p].run].status = "running",
                        ![pc[p].run].bound = TRUE,
                        ![pc[p].run].branch = @ \/ ~workspace]
  /\ workspace' = TRUE
  /\ issue' = "running"
  /\ Goto(p, "prompt")
  /\ UNCHANGED <<task, stepStatus, executor, pr, queue, budget>>

\* startAcpAgentExecution up to promptRun.
DispatchAgent(p) ==
  /\ At(p, "dispatch")
  /\ pc[p].exec = "agent"
  /\ pc[p].then # "ws"
  /\ workspace \/ pc[p].then # "acp"
  /\ run' = [run EXCEPT ![pc[p].run].bound = TRUE,
                        ![pc[p].run].branch = @ \/ ~workspace]
  /\ workspace' = TRUE
  /\ issue' = "running"
  /\ Goto(p, "prompt")
  /\ UNCHANGED <<task, stepStatus, executor, pr, queue, budget>>

\* promptRun resolved; finalizeRunIfRunning reads the run ...
PromptOk(p) ==
  /\ At(p, "prompt") /\ Calm(p)
  /\ IF run[pc[p].run].status = "running" THEN Goto(p, "finalize") ELSE Finish(p)
  /\ UNCHANGED <<task, stepStatus, executor, issue, run, workspace, pr, queue,
                 budget>>

\* Mutant: the step advances, the run is not saved as completed.
FinalizeMut(p) ==
  /\ At(p, "finalize")
  /\ EndRun(p, pc[p].run, run[pc[p].run], "completed", "none")
  /\ UNCHANGED <<task, stepStatus, executor, issue, workspace, pr, queue, budget>>

\* ... completes it, and triggers nothing for the task.
Finalize(p) ==
  /\ At(p, "finalize")
  /\ EndRun(p, pc[p].run, [run[pc[p].run] EXCEPT !.status = "completed"],
            "completed", "none")
  /\ UNCHANGED <<task, stepStatus, executor, issue, workspace, pr, queue, budget>>

\* promptRun rejected: resumeRunningRuns logs it, the dispatcher fails the run.
PromptFail(p) ==
  /\ At(p, "prompt") /\ Calm(p)
  /\ IF pc[p].then = "resume"
       THEN Finish(p) /\ UNCHANGED run
       ELSE EndRun(p, pc[p].run, [run[pc[p].run] EXCEPT !.status = "failed"],
                   "failed", "none")
  /\ UNCHANGED <<task, stepStatus, executor, issue, workspace, pr, queue, budget>>
-----------------------------------------------------------------------------
(* advanceTaskFromRunTerminal, with what its caller does next.               *)

\* Mutant: the last step is never the next one.
AdvanceReadMut(p) ==
  LET s == pc[p].step IN
  /\ At(p, "advance")
  /\ Become(p, [pc[p] EXCEPT !.at = "advanced",
                             !.nextPending = /\ s + 1 < NSteps
                                             /\ stepStatus[s + 1] = "pending"])
  /\ UNCHANGED <<task, stepStatus, executor, issue, run, workspace, pr, queue,
                 budget>>

AdvanceRead(p) ==
  LET s == pc[p].step IN
  /\ At(p, "advance")
  /\ Become(p, [pc[p] EXCEPT !.at = "advanced",
                             !.nextPending = /\ s < NSteps
                                             /\ stepStatus[s + 1] = "pending"])
  /\ UNCHANGED <<task, stepStatus, executor, issue, run, workspace, pr, queue,
                 budget>>

\* Mutant: the next step opens whatever became of this one.
AdvanceStepsMut(p) ==
  LET s == pc[p].step IN
  /\ At(p, "advanced")
  /\ stepStatus' = [q \in Steps |->
       IF q = s THEN pc[p].outcome
       ELSE IF q = s + 1 /\ pc[p].nextPending THEN "ready" ELSE stepStatus[q]]
  /\ Goto(p, "moved")
  /\ UNCHANGED <<task, executor, issue, run, workspace, pr, queue, budget>>

AdvanceSteps(p) ==
  LET s == pc[p].step IN
  /\ At(p, "advanced")
  /\ stepStatus' = [q \in Steps |->
       IF q = s THEN pc[p].outcome
       ELSE IF q = s + 1 /\ pc[p].outcome = "completed" /\ pc[p].nextPending
         THEN "ready"
         ELSE stepStatus[q]]
  /\ Goto(p, "moved")
  /\ UNCHANGED <<task, executor, issue, run, workspace, pr, queue, budget>>

\* Then the caller triggers auto-advance (which queues nothing when automation is
\* off); after a CI result it also tries to merge, and after a run that the merge
\* webhook ended it takes the next one.
AutoMerges(p) ==
  pc[p].outcome = "completed" /\ Automation /\ AutoMerge /\ pr.open

Return(p) ==
  LET then == pc[p].then IN
  /\ queue' = IF Automation /\ then \in Deps THEN Append(queue, then)
              ELSE IF Automation /\ then = "ci" THEN Append(queue, "acp")
              ELSE queue
  /\ IF then = "hook" THEN Goto(p, "hook")
     ELSE IF then = "ci" /\ AutoMerges(p) THEN Goto(p, "automerge")
     ELSE Finish(p)

\* Mutant: the last step has one behind it too.
AdvanceTaskPastEnd(p) ==
  LET s == pc[p].step
      goesOn == pc[p].outcome = "completed" IN
  /\ At(p, "moved")
  /\ task' = IF pc[p].outcome = "failed" THEN [task EXCEPT !.status = "failed"]
             ELSE IF goesOn THEN [status |-> "running", current |-> s + 1]
             ELSE [task EXCEPT !.status = "completed"]
  /\ issue' = IF pc[p].outcome = "failed" THEN "failed"
              ELSE IF goesOn THEN "running"
              ELSE IF Kind[NSteps] = "pr.merge" THEN "done" ELSE "pending"
  /\ Return(p)
  /\ UNCHANGED <<stepStatus, executor, run, workspace, pr, budget>>

\* Mutant: the issue is not told of a failure.
AdvanceTaskUntold(p) ==
  LET s == pc[p].step
      goesOn == pc[p].outcome = "completed" /\ s < NSteps IN
  /\ At(p, "moved")
  /\ task' = IF pc[p].outcome = "failed" THEN [task EXCEPT !.status = "failed"]
             ELSE IF goesOn THEN [status |-> "running", current |-> s + 1]
             ELSE [task EXCEPT !.status = "completed"]
  /\ issue' = IF pc[p].outcome = "failed" THEN issue
              ELSE IF goesOn THEN "running"
              ELSE IF Kind[NSteps] = "pr.merge" THEN "done" ELSE "pending"
  /\ Return(p)
  /\ UNCHANGED <<stepStatus, executor, run, workspace, pr, budget>>

AdvanceTask(p) ==
  LET s == pc[p].step
      goesOn == pc[p].outcome = "completed" /\ s < NSteps IN
  /\ At(p, "moved")
  /\ task' = IF pc[p].outcome = "failed" THEN [task EXCEPT !.status = "failed"]
             ELSE IF goesOn THEN [status |-> "running", current |-> s + 1]
             ELSE [task EXCEPT !.status = "completed"]
  /\ issue' = IF pc[p].outcome = "failed" THEN "failed"
              ELSE IF goesOn THEN "running"
              ELSE IF Kind[NSteps] = "pr.merge" THEN "done" ELSE "pending"
  /\ Return(p)
  /\ UNCHANGED <<stepStatus, executor, run, workspace, pr, budget>>
-----------------------------------------------------------------------------
(* POST /runs/:id/submit.  Nothing checks that the run is still open.        *)

Submittable(h, r) ==
  /\ Free(h)
  /\ Used(r)
  /\ run[r].executor = "human"
  /\ IF run[r].status = "running" THEN UNCHANGED budget ELSE Intervene("resubmit")

SubmitApprove(h, r) ==
  /\ Submittable(h, r)
  /\ Kind[run[r].step] # "pr.merge"
  /\ EndRun(h, r, [run[r] EXCEPT !.status = "completed"], "completed", "acp")
  /\ UNCHANGED <<task, stepStatus, executor, issue, workspace, pr, queue>>

\* The merge step asks the SCM to merge the PR of its own run, and does nothing
\* without one, or when the answer is an error.  Any other answer completes it: that
\* of GitHub may say "not merged", the merge request of GitLab may still be open.
SubmitMerge(h, r) ==
  /\ Submittable(h, r)
  /\ Kind[run[r].step] = "pr.merge"
  /\ pr.open /\ run[r].pr = pr.number
  /\ \/ pr' = MergedPr /\ issue' = "done"
     \/ pr' = [pr EXCEPT !.accepted = TRUE] /\ UNCHANGED issue
  /\ EndRun(h, r, [run[r] EXCEPT !.status = "completed"], "completed", "acp")
  /\ UNCHANGED <<task, stepStatus, executor, workspace, queue>>

SubmitChanges(h, r) ==
  /\ Submittable(h, r)
  /\ Kind[run[r].step] # "pr.merge"
  /\ run' = [run EXCEPT ![r].status = "completed"]
  /\ Become(h, [pc[h] EXCEPT !.at = "block", !.step = run[r].step,
                             !.outcome = "completed"])
  /\ UNCHANGED <<task, stepStatus, executor, issue, workspace, pr, queue>>

\* The submitted step is completed, the rejected one is blocked ...
BlockStep(p) ==
  /\ At(p, "block")
  /\ stepStatus' = [stepStatus EXCEPT ![pc[p].step] = pc[p].outcome]
  /\ Goto(p, "blocking")
  /\ UNCHANGED <<task, executor, issue, run, workspace, pr, queue, budget>>

\* ... and the task with it (setTaskBlockedFromRun).
BlockTask(p) ==
  /\ At(p, "blocking")
  /\ task' = [task EXCEPT !.status = "blocked"]
  /\ issue' = "reviewing"
  /\ Finish(p)
  /\ UNCHANGED <<stepStatus, executor, run, workspace, pr, queue, budget>>
-----------------------------------------------------------------------------
(* Approvals of create_pr: POST /approvals/:id/approve and /reject.          *)

ApprovalRead(h, r, place) ==
  /\ Free(h)
  /\ run[r].approval = "pending"
  /\ Become(h, [pc[h] EXCEPT !.at = place, !.run = r, !.step = run[r].step])
  /\ UNCHANGED <<task, stepStatus, executor, issue, run, workspace, pr, queue,
                 budget>>

ApproveRead(h, r) == ApprovalRead(h, r, "approving")
RejectRead(h, r)  == ApprovalRead(h, r, "rejecting")

ApproveClaim(p) ==
  /\ At(p, "approving")
  /\ run' = [run EXCEPT ![pc[p].run].approval = "executing"]
  /\ Goto(p, "executing")
  /\ UNCHANGED <<task, stepStatus, executor, issue, workspace, pr, queue, budget>>

\* Mutant: the step behind it is not triggered.
ApproveExecuteSilent(p) ==
  LET r == pc[p].run IN
  /\ At(p, "executing")
  /\ CanCreatePr(r)
  /\ pr' = CreatedPr(r)
  /\ EndRun(p, r, [run[r] EXCEPT !.status = "completed", !.pr = PrOf(r),
                                 !.approval = "executed"], "completed", "none")
  /\ UNCHANGED <<task, stepStatus, executor, issue, workspace, queue, budget>>

ApproveExecute(p) ==
  LET r == pc[p].run IN
  /\ At(p, "executing")
  /\ CanCreatePr(r)
  /\ pr' = CreatedPr(r)
  /\ EndRun(p, r, [run[r] EXCEPT !.status = "completed", !.pr = PrOf(r),
                                 !.approval = "executed"], "completed", "ws")
  /\ UNCHANGED <<task, stepStatus, executor, issue, workspace, queue, budget>>

ApproveFail(p) ==
  LET r == pc[p].run IN
  /\ At(p, "executing")
  /\ run[r].pr = 0
  /\ EndRun(p, r, [run[r] EXCEPT !.status = "failed", !.approval = "failed"],
            "failed", "none")
  /\ UNCHANGED <<task, stepStatus, executor, issue, workspace, pr, queue, budget>>

RejectCommit(p) ==
  LET r == pc[p].run IN
  /\ At(p, "rejecting")
  /\ run' = [run EXCEPT ![r].status = "completed", ![r].approval = "rejected"]
  /\ Become(p, [pc[p] EXCEPT !.at = "block", !.outcome = "blocked"])
  /\ UNCHANGED <<task, stepStatus, executor, issue, workspace, pr, queue, budget>>
-----------------------------------------------------------------------------
(* GitHub webhooks.                                                          *)

\* A delivery with a known signature, of a known project's repository and completed
\* comes to a run.  The run a CI result is for: the latest that waits on the branch, else the
\* latest that waits on the PR.
WaitingCi(r) == run[r].status = "waiting_ci"

\* Mutant: only runs that know their pull request are looked for.
CiRunMut(r) == Latest({q \in Runs : WaitingCi(q) /\ run[q].pr # 0}, r)

CiRun(r) ==
  LET onBranch == {q \in Runs : WaitingCi(q) /\ run[q].branch}
      onPr     == {q \in Runs : WaitingCi(q) /\ run[q].pr # 0}
  IN  Latest(IF onBranch # {} THEN onBranch ELSE onPr, r)

CiHook(h, r, passed) ==
  /\ Free(h)
  /\ CiRun(r)
  /\ Become(h, [pc[h] EXCEPT !.at = "ci", !.run = r,
                             !.outcome = IF passed THEN "completed" ELSE "failed"])
  /\ UNCHANGED <<task, stepStatus, executor, issue, run, workspace, pr, queue,
                 budget>>

CiCommit(p) ==
  LET r == pc[p].run IN
  /\ At(p, "ci")
  /\ EndRun(p, r, [run[r] EXCEPT !.status = pc[p].outcome], pc[p].outcome, "ci")
  /\ UNCHANGED <<task, stepStatus, executor, issue, workspace, pr, queue, budget>>

AutoMergeOk(p) ==
  /\ At(p, "automerge")
  /\ pr.open
  /\ pr' = MergedPr
  /\ Finish(p)
  /\ UNCHANGED <<task, stepStatus, executor, issue, run, workspace, queue, budget>>

\* The step that a failed merge or a push sends the task back to: the first that
\* implements, and the first of all when none does.
ReworkStep(s) ==
  LET implement == {q \in Steps : Kind[q] = "dev.implement"} IN
  IF implement = {} THEN s = 1 ELSE s \in implement /\ \A q \in implement : s <= q

\* The merge was refused: back to the rework step, and start it.
AutoMergeFail(p) ==
  /\ At(p, "automerge")
  /\ \E s \in Steps :
       /\ ReworkStep(s)
       /\ Become(p, [pc[p] EXCEPT !.at = "rollback", !.step = s, !.then = "acp"])
  /\ UNCHANGED <<task, stepStatus, executor, issue, run, workspace, pr, queue,
                 budget>>

\* A webhook about pull request n (its payload, project and run are looked up
\* first): when no run has its number yet, the branch's
\* latest gets it.
LinkPr(n) ==
  run' = [r \in Runs |->
            IF /\ \A q \in Runs : run[q].pr # n
               /\ Latest({q \in Runs : run[q].branch}, r)
              THEN [run[r] EXCEPT !.pr = n] ELSE run[r]]

\* pull_request synchronize of a blocked task: back to the rework step.
SyncHook(h) ==
  /\ Free(h)
  /\ pr.open
  /\ task.status = "blocked"
  /\ Intervene("github")
  /\ LinkPr(pr.number)
  /\ \E s \in Steps :
       ReworkStep(s) /\ Become(h, [pc[h] EXCEPT !.at = "rollback", !.step = s])
  /\ UNCHANGED <<task, stepStatus, executor, issue, workspace, pr, queue>>

\* pull_request_review with changes_requested.
ReviewHook(h) ==
  /\ Free(h)
  /\ pr.open
  /\ Intervene("github")
  /\ LinkPr(pr.number)
  /\ Become(h, [pc[h] EXCEPT !.at = "blocking"])
  /\ UNCHANGED <<task, stepStatus, executor, issue, workspace, pr, queue>>

\* Somebody opens or merges the pull request on GitHub itself; the merge is what
\* a task at its merge step waits for.
OpenPrByHand ==
  /\ workspace /\ ~pr.open
  /\ Intervene("openpr")
  /\ pr' = OpenedPr
  /\ UNCHANGED <<task, stepStatus, executor, issue, run, workspace, pc, queue>>

MergeByHand ==
  /\ pr.open
  /\ IF Kind[task.current] = "pr.merge" /\ stepStatus[task.current] = "waiting_human"
       THEN UNCHANGED budget
       ELSE Intervene("github")
  /\ pr' = MergedPr
  /\ UNCHANGED <<task, stepStatus, executor, issue, run, workspace, pc, queue>>

\* pull_request opened.
PrOpenedHook(h) ==
  /\ Free(h)
  /\ pr.open
  /\ LinkPr(pr.number)
  /\ UNCHANGED <<task, stepStatus, executor, issue, workspace, pr, pc, queue,
                 budget>>

\* pull_request closed and merged, delivered once, or again: ends the runs that
\* wait for a person to merge, as Codeup's merge_request does ...
MergeRuns == {r \in Runs : /\ run[r].status = "running"
                           /\ run[r].executor = "human"
                           /\ run[r].branch
                           /\ Kind[run[r].step] = "pr.merge"}

\* Mutant: whatever happens to a pull request counts as its merge.
PrMergedHookMut(h) ==
  /\ Free(h)
  /\ pr.number # 0
  /\ IF pr.told THEN Intervene("github") ELSE UNCHANGED budget
  /\ LinkPr(pr.number)
  /\ pr' = [pr EXCEPT !.told = TRUE]
  /\ Become(h, [pc[h] EXCEPT !.at = "hook", !.todo = MergeRuns])
  /\ UNCHANGED <<task, stepStatus, executor, issue, workspace, queue>>

PrMergedHook(h) ==
  /\ Free(h)
  /\ pr.merged # 0
  /\ IF pr.told THEN Intervene("github") ELSE UNCHANGED budget
  /\ LinkPr(pr.merged)
  /\ pr' = [pr EXCEPT !.told = TRUE]
  /\ Become(h, [pc[h] EXCEPT !.at = "hook", !.todo = MergeRuns])
  /\ UNCHANGED <<task, stepStatus, executor, issue, workspace, queue>>

HookNext(p) ==
  /\ At(p, "hook")
  /\ \E r \in pc[p].todo :
       /\ run' = [run EXCEPT ![r].status = "completed"]
       /\ Become(p, [pc[p] EXCEPT !.at = "advance", !.run = r, !.step = run[r].step,
                                  !.then = "hook", !.outcome = "completed",
                                  !.todo = @ \ {r}])
  /\ UNCHANGED <<task, stepStatus, executor, issue, workspace, pr, queue, budget>>

\* ... and when there was none, the current step if it is the merge.
HookDone(p) ==
  /\ At(p, "hook")
  /\ pc[p].todo = {}
  /\ IF pc[p].run = 0 /\ Kind[task.current] = "pr.merge"
       THEN Become(p, [pc[p] EXCEPT !.at = "advanced", !.step = task.current])
       ELSE Finish(p)
  /\ UNCHANGED <<task, stepStatus, executor, issue, run, workspace, pr, queue,
                 budget>>
-----------------------------------------------------------------------------
(* Rollback, and what users do to a run.                                     *)

RollbackRoute(h, s) ==
  /\ Free(h)
  /\ Intervene("rollback")
  /\ Become(h, [pc[h] EXCEPT !.at = "rollback", !.step = s, !.then = "both"])
  /\ UNCHANGED <<task, stepStatus, executor, issue, run, workspace, pr, queue>>

RollbackSteps(p) ==
  LET s == pc[p].step IN
  /\ At(p, "rollback")
  /\ stepStatus' = [q \in Steps |-> IF q > s THEN "pending"
                                    ELSE IF q = s THEN "ready"
                                    ELSE stepStatus[q]]
  /\ Goto(p, "rolling")
  /\ UNCHANGED <<task, executor, issue, run, workspace, pr, queue, budget>>

RollbackTask(p) ==
  /\ At(p, "rolling")
  /\ task' = [status |-> "running", current |-> pc[p].step]
  /\ issue' = "running"
  /\ Return(p)
  /\ UNCHANGED <<stepStatus, executor, run, workspace, pr, budget>>

\* cancel and complete end the run whatever it is, and leave its step alone.
Cancel(r) ==
  /\ Used(r)
  /\ Intervene("cancel")
  /\ run' = [run EXCEPT ![r].status = "cancelled"]
  /\ issue' = "cancelled"
  /\ UNCHANGED <<task, stepStatus, executor, workspace, pr, pc, queue>>

Complete(r) ==
  /\ Used(r)
  /\ Intervene("complete")
  /\ run' = [run EXCEPT ![r].status = "completed"]
  /\ issue' = "reviewing"
  /\ UNCHANGED <<task, stepStatus, executor, workspace, pr, pc, queue>>

\* POST /runs/:id/create-pr, of any run: it waits for the CI from then on.
CreatePrRoute(r) ==
  /\ Used(r)
  /\ Intervene("createpr")
  /\ IF PrApproval
       THEN RequestApproval(r) /\ UNCHANGED pr
       ELSE /\ CanCreatePr(r) /\ run[r].pr = 0
            /\ pr' = OpenedPr
            /\ run' = [run EXCEPT ![r].pr = PrOf(r), ![r].status = "waiting_ci"]
  /\ UNCHANGED <<task, stepStatus, executor, issue, workspace, pc, queue>>
-----------------------------------------------------------------------------
\* The backend stops: what was in memory is gone.
Crash ==
  /\ Intervene("crash")
  /\ pc' = [p \in Processes |-> Idle]
  /\ queue' = <<>>
  /\ UNCHANGED <<task, stepStatus, executor, issue, run, workspace, pr>>

\* The proxy registers: resumeRunningRuns prompts the runs of its agent again.
Resume(h, r) ==
  /\ Free(h)
  /\ run[r].status = "running" /\ run[r].bound /\ run[r].branch
  /\ Intervene("resume")
  /\ Become(h, [pc[h] EXCEPT !.at = "prompt", !.run = r, !.then = "resume"])
  /\ UNCHANGED <<task, stepStatus, executor, issue, run, workspace, pr, queue>>
-----------------------------------------------------------------------------
(* getPmNextActionForIssue: what a user is told to do next.                  *)

\* The action for the task's current step, "none" if it has nothing to say.
StepAction ==
  LET s == task.current
      status == IF task.status = "blocked" THEN "blocked" ELSE stepStatus[s]
      By(person, other) == IF executor[s] = "human" THEN person ELSE other
  IN CASE status = "blocked"       -> "handle_blocked_task"
       [] status = "waiting_ci"    -> "wait_ci"
       [] status = "waiting_human" -> By("submit_human_step", "check_approvals")
       [] status = "ready"         -> By("start_human_step", "start_step")
       [] status = "running"       -> "wait_running"
       [] OTHER                    -> "none"

\* ... for the issue without a task that goes on: "none" stands for what the last
\* auto-review recommended, too.
IssueAction == IF issue = "pending" THEN "pm_dispatch" ELSE "none"

\* A pending approval goes first, the issue comes last.
NextAction ==
  IF \E r \in Runs : run[r].approval = "pending" THEN "approve_action"
  ELSE IF task.status \notin {"completed", "failed"} /\ StepAction # "none" THEN StepAction
  ELSE IssueAction
-----------------------------------------------------------------------------
\* What a process does next once it has begun.
Continue(p) ==
  \/ StartRead(p) \/ StartAttempt(p) \/ StartCreateRun(p) \/ StartMoveStep(p)
  \/ StartMoveTask(p)
  \/ DispatchWait(p) \/ DispatchFail(p) \/ DispatchCreatePr(p)
  \/ DispatchRequestApproval(p) \/ ParkStep(p) \/ DispatchAgent(p)
  \/ PromptOk(p) \/ Finalize(p) \/ PromptFail(p)
  \/ AdvanceRead(p) \/ AdvanceSteps(p) \/ AdvanceTask(p)
  \/ BlockStep(p) \/ BlockTask(p)
  \/ ApproveClaim(p) \/ ApproveExecute(p) \/ ApproveFail(p) \/ RejectCommit(p)
  \/ CiCommit(p) \/ AutoMergeOk(p) \/ AutoMergeFail(p)
  \/ HookNext(p) \/ HookDone(p)
  \/ RollbackSteps(p) \/ RollbackTask(p)

\* What a request or a webhook delivery may begin.
Begin(h) ==
  \/ \E s \in Steps, asked \in Executors \cup {"default"} : StartRoute(h, s, asked)
  \/ \E s \in Steps : RollbackRoute(h, s)
  \/ \E r \in Runs : \/ SubmitApprove(h, r) \/ SubmitMerge(h, r)
                     \/ SubmitChanges(h, r)
                     \/ ApproveRead(h, r) \/ RejectRead(h, r)
                     \/ Resume(h, r)
                     \/ \E passed \in BOOLEAN : CiHook(h, r, passed)
  \/ SyncHook(h) \/ ReviewHook(h) \/ PrOpenedHook(h) \/ PrMergedHook(h)

Outside ==
  \/ \E r \in Runs : Cancel(r) \/ Complete(r) \/ CreatePrRoute(r)
  \/ OpenPrByHand \/ MergeByHand
  \/ Crash

Next ==
  \/ AutoPick \/ AutoDrop
  \/ \E p \in Processes : Continue(p)
  \/ \E h \in Handlers : Begin(h)
  \/ Outside

Spec == Init /\ [][Next]_vars

(* The backend keeps running: what is queued is picked up, and what has begun *)
(* goes on.  A prompt ends at the latest by its timeout.                      *)
FairSpec ==
  /\ Spec
  /\ WF_vars(AutoPick \/ AutoDrop)
  /\ \A p \in Processes : WF_vars(Continue(p))

\* People and the SCM do their part too: a ready step is started, a human step
\* submitted, an approval decided, a CI result and a merge delivered.
UsersAct(h) ==
  \/ \E s \in Steps, asked \in Executors \cup {"default"} : StartRoute(h, s, asked)
  \/ \E r \in Runs : \/ SubmitApprove(h, r) /\ run[r].status = "running"
                     \/ ApproveRead(h, r)
                     \/ \E passed \in BOOLEAN : CiHook(h, r, passed)
  \/ PrMergedHook(h) /\ ~pr.told
  \/ MergeByHand

FairUsersSpec == FairSpec /\ WF_vars(\E h \in Handlers : UsersAct(h))
-----------------------------------------------------------------------------
\* Types.  No handler moves the task to a step that does not exist, or a row to a
\* status the schema does not have.
TypeOK ==
  /\ task \in [status : TaskStatuses, current : Steps]
  /\ stepStatus \in [Steps -> StepStatuses]
  /\ executor \in [Steps -> Executors]
  /\ issue \in IssueStatuses
  /\ run \in [Runs -> RunRows]
  /\ workspace \in BOOLEAN
  /\ pr \in PullRequests
  /\ pc \in [Processes -> Threads]
  /\ queue \in Seq(Deps)
  /\ budget \in Nat

\* However starts interleave, the attempts recorded for a step are 1 up to the
\* last one: no attempt is skipped (startStep reads the last attempt, and
\* creates the run later, with nothing in between to stop a second start).
AttemptsContiguous ==
  \A s \in Steps : \A a \in Attempts(s) : a >= 1 /\ (a > 1 => a - 1 \in Attempts(s))

Ledger == INSTANCE RunLedger WITH
  row <- [r \in Runs |->
            [state   |-> IF run[r].status = "none" THEN "none"
                         ELSE IF run[r].status \in ActiveStatuses THEN "open"
                         ELSE "ended",
             step    |-> run[r].step,
             attempt |-> run[r].attempt]]

\* Whichever handlers come late or twice, the Run rows are a ledger: a row is
\* added behind the last, keeps its step and attempt, and once ended stays so
\* (every handler but create-pr without an approval only ever ends a run).
KeepsLedger == Ledger!Spec

\* An issue is done only when a pull request of its branch was merged, or the SCM
\* took a person's request to merge it without an error, whether the submit route, the
\* merge webhook or a late advance says so: no refused merge, other webhook, approval
\* or CI result makes it done.
DoneOnlyByMerge == issue = "done" => pr.merged # 0 \/ pr.accepted

\* No step is over without a run of it that ended: however late the advance of an
\* older run writes, whatever was rolled back or cancelled meanwhile.  Only the
\* merge step may be completed by the merge itself.
StepEndsWithRun ==
  \A s \in Steps : stepStatus[s] \in {"completed", "failed", "blocked"} =>
    \/ \E r \in Runs : run[r].step = s /\ run[r].status \in EndedStatuses
    \/ Kind[s] = "pr.merge" /\ pr.merged # 0

\* Where the policy asks for an approval, a pull request of ours is opened only
\* while one is being executed, whoever asked for it: the pr.create step, also
\* again after a rollback or taken over by a person, or create-pr of any run.
PrNeedsApproval ==
  [][PrApproval /\ pr'.number # pr.number =>
       \E r \in Runs : /\ run[r].approval = "executing"
                       /\ run'[r].pr = pr'.number]_vars

Active(r) == run[r].status \in ActiveStatuses
AllIdle   == queue = <<>> /\ \A p \in Processes : At(p, "idle")

\* At most one run of the task is running or waiting for the CI.
OneActiveRun == \A q, r \in Runs : Active(q) /\ Active(r) => q = r

Pipeline == INSTANCE StepPipeline WITH
  stage <- [s \in Steps |->
    CASE stepStatus[s] = "pending" -> "waiting"
      [] stepStatus[s] = "ready" -> "ready"
      [] stepStatus[s] \in {"failed", "blocked"} -> "stopped"
      [] stepStatus[s] = "completed" ->
           IF s < NSteps /\ stepStatus[s + 1] = "pending" THEN "stopped" ELSE "passed"
      [] OTHER -> "busy"]

\* Requests and deliveries that come one at a time drive the steps through the
\* pipeline: no step is skipped, or passed without having been started.
RunsPipeline == Pipeline!Spec

\* What a user is told to do next is what the task waits for: when nothing is being
\* handled and the task has not ended, getPmNextActionForIssue names a step that
\* can be started, a run a person can submit or a run the CI will end, and never
\* work in progress that nobody does (pmNextAction.ts:124).
NextActionHelps ==
  LET waits(status) == \E r \in Runs : /\ run[r].step = task.current
                                       /\ run[r].status = status IN
  AllIdle =>
    /\ NextAction = "wait_ci" => waits("waiting_ci")
    /\ NextAction = "submit_human_step" => waits("running")
    /\ NextAction = "check_approvals" => PrApproval
    /\ NextAction \in {"wait_running", "pm_dispatch", "none"} =>
         task.status \in {"completed", "failed"}

\* When nothing is being handled, the issue says what became of its task.
IssueFollowsTask ==
  AllIdle =>
    /\ task.status = "failed" => issue = "failed"
    /\ task.status = "blocked" => issue = "reviewing"
    /\ task.status = "completed" =>
         issue = IF Kind[NSteps] = "pr.merge" THEN "done" ELSE "pending"
    /\ task.status = "running" => issue \in {"running", "reviewing"}
    /\ issue = "done" => task.status = "completed"

Ended == task.status \in {"completed", "failed", "blocked"}

\* The current step waits for the auto-advance queue.
Waiting(s) ==
  /\ Automation
  /\ task.current = s
  /\ task.status = "running"
  /\ stepStatus[s] = "ready"
  /\ executor[s] # "human"
  /\ Kind[s] = "pr.create" => AutoCreatePr
Served(s) ==
  stepStatus[s] # "ready" \/ task.current # s \/ Ended

\* A ready CI or system step that follows a human, CI or system step is started
\* without anybody's help, once the task has its branch.
NonAgentStarts ==
  \A s \in Steps \ {1} :
    (Waiting(s) /\ executor[s] # "agent" /\ executor[s - 1] # "agent" /\ workspace)
      ~> Served(s)

\* A step the user rolled back to is started again without anybody's help.
RollbackRestarts ==
  \A h \in Handlers, s \in Steps :
    (At(h, "rolling") /\ pc[h].step = s /\ pc[h].then = "both" /\ Automation
       /\ (executor[s] = "agent" \/ (executor[s] # "human" /\ workspace)))
      ~> Served(s)

\* Somebody merged the pull request before the task got to its merge step.
MergedEarly == pr.merged # 0 /\ task.current # NSteps

\* A task comes to an end, or to somebody's decision to block it, again after each
\* push that reopens it, unless its pull request is merged before its turn.
TaskEnds == (~Ended ~> Ended) \/ <>MergedEarly
=============================================================================
