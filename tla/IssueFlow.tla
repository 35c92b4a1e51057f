----------------------------- MODULE IssueFlow -----------------------------
(***************************************************************************)
(* One issue that has no task: its runs are started directly or by the PM  *)
(* automation, end with their agent's answer, and are followed by a pull   *)
(* request, its CI and its merge.  Start, finalization, the PM's queue,    *)
(* the approvals and review requests, and the webhooks of GitLab and       *)
(* GitHub all change the same rows (Issue, Run, Approval, Agent), each by   *)
(* reads and unconditional writes that awaits separate.                    *)
(*                                                                         *)
(* A handler is a process: it reads in one action and writes in later ones.*)
(***************************************************************************)
EXTENDS Integers, Sequences, FiniteSets

CONSTANTS
  Handlers,  \* requests and deliveries being handled at once
  Capacity,  \* Agent.maxConcurrentRuns
  Scenes     \* the policies and the bounds under which the issue is followed

\* A scene: whether the policy's requireForActions has create_pr, whether handlers
\* may begin while others are at work, which of them there are, which events of
\* the world happen, and the bounds on rows and on requests and events.
Scene == [createApproval : BOOLEAN, overlap : BOOLEAN, handlers : SUBSET Handlers,
          world : SUBSET {"crash", "merged", "closed", "initFails"},
          maxRuns : Nat, maxApprovals : Nat, maxPrs : Nat, events : Nat]

ASSUME CapacityIsNat == Capacity \in Nat
ASSUME ScenesAreScenes == Scenes \subseteq Scene

VARIABLES
  scene,     \* the scene, chosen at the start
  issue,     \* Issue.status
  run,       \* the Run rows, in order of creation
  load,      \* Agent.currentLoad
  approval,  \* the Approval rows
  pr,        \* the pull requests, as the SCM has them
  queue,     \* the issue's queue of triggerPmAutoAdvance
  wake,      \* triggers in the issue's queue of triggerAutoStart
  pc,        \* what each handler is in the middle of
  events     \* bound: events left

vars == <<scene, issue, run, load, approval, pr, queue, wake, pc, events>>

IssueStatus == {"pending", "running", "reviewing", "done", "failed", "cancelled"}
RunStatus == {"running", "waiting_ci", "completed", "failed", "cancelled"}
ApprovalStatus == {"pending", "rejected", "executing", "executed", "failed"}
Action == {"create_pr", "merge_pr"}
PrState == {"none", "open", "closed", "merged"}
Trigger == {"run_completed", "ci_completed"}

\* The consumer of the advance queue and of the start queue are processes too.
Pm == "pm"
Starter == "auto"
Process == Handlers \cup {Pm, Starter}

Places == {"idle", "check", "create", "mark", "workspace", "init", "prompt", "startFailed",
           "finalize", "complete", "finalized", "cancelled", "completed", "initRead", "initRun",
           "initIssue",
           "request", "ask", "claim", "pr", "push", "record", "merge", "call", "write", "done",
           "settle", "reject", "ci"}

Row == [at : Places, run : Nat, approval : Nat, pr : Nat,
        action : Action, seen : PrState, ok : BOOLEAN, fails : BOOLEAN]

IdleRow == [at |-> "idle", run |-> 0, approval |-> 0, pr |-> 0,
            action |-> "create_pr", seen |-> "none", ok |-> TRUE, fails |-> FALSE]

\* The shapes of the state.
TypeOK ==
  /\ scene \in Scenes
  /\ issue \in IssueStatus
  /\ run \in Seq([status : RunStatus, branch : BOOLEAN, pr : 0 .. Len(pr),
                  prState : PrState, ci : {"none", "passed", "failed"}])
  /\ load \in Int
  /\ approval \in Seq([run : DOMAIN run, action : Action, status : ApprovalStatus,
                       by : {"user", "pm_auto"}])
  /\ pr \in Seq([run : DOMAIN run, state : PrState, by : 0 .. Len(approval)])
  /\ queue \in Seq([run : DOMAIN run, trigger : Trigger])
  /\ wake \in Nat
  /\ pc \in [Process -> Row]
  /\ events \in Nat

Init ==
  /\ scene \in Scenes
  /\ issue = "pending"
  /\ run = <<>> /\ approval = <<>> /\ pr = <<>> /\ queue = <<>>
  /\ load = 0
  /\ wake = 1
  /\ pc = [p \in Process |-> IdleRow]
  /\ events = scene.events

-----------------------------------------------------------------------------
Runs == DOMAIN run

At(p, place) == pc[p].at = place

\* Handlers do not overlap, but for the hour a handler awaits its agent.
Calm == scene.overlap \/ \A p \in Process : pc[p].at \in {"idle", "prompt"}

Free(p) == At(p, "idle") /\ Calm

\* A request or a delivery reaches a free handler.
Begin(p) == p \in scene.handlers /\ Free(p) /\ events > 0 /\ events' = events - 1

Goto(p, place) == pc' = [pc EXCEPT ![p].at = place]
Goes(p, row) == pc' = [pc EXCEPT ![p] = row]
End(p) == Goes(p, IdleRow)
OnRun(place, r) == [IdleRow EXCEPT !.at = place, !.run = r]

SetRun(r, status) == run' = [run EXCEPT ![r].status = status]

TriggerPm(r, trigger) == queue' = Append(queue, [run |-> r, trigger |-> trigger])

-----------------------------------------------------------------------------
(* startIssueRun                                                            *)

\* The issue is not running, and an agent has room.
MayStart == issue # "running" /\ load < Capacity

\* POST /issues/:id/start
StartRoute(p) ==
  /\ Begin(p)
  /\ MayStart
  /\ Goto(p, "create")
  /\ UNCHANGED <<issue, run, load, approval, pr, queue, wake>>

\* The queue dispatches the issue: only a pending one is analysed.
Dispatch ==
  /\ Free(Starter)
  /\ wake > 0
  /\ wake' = wake - 1
  /\ IF issue = "pending" THEN Goto(Starter, "check") ELSE UNCHANGED pc
  /\ UNCHANGED <<issue, run, load, approval, pr, queue, events>>

\* The analysis has ended, or failed; the start looks at the issue again.
Analyzed ==
  /\ At(Starter, "check")
  /\ \/ MayStart /\ Goto(Starter, "create")
     \/ End(Starter)
  /\ UNCHANGED <<issue, run, load, approval, pr, queue, wake, events>>

StartCreate(p) ==
  /\ At(p, "create")
  /\ Len(run) < scene.maxRuns
  /\ run' = Append(run, [status |-> "running", branch |-> FALSE, pr |-> 0,
                         prState |-> "none", ci |-> "none"])
  /\ Goes(p, OnRun("mark", Len(run) + 1))
  /\ UNCHANGED <<issue, load, approval, pr, queue, wake, events>>

StartMark(p) ==
  /\ At(p, "mark")
  /\ issue' = "running"
  /\ load' = load + 1
  /\ Goto(p, "workspace")
  /\ UNCHANGED <<run, approval, pr, queue, wake, events>>

\* The workspace gives the run its branch, and the prompt is made of it; without one
\* the run has failed.
StartWorkspace(p) ==
  /\ At(p, "workspace")
  /\ \/ run' = [run EXCEPT ![pc[p].run].branch = TRUE] /\ Goto(p, "init")
     \/ Goto(p, "startFailed") /\ UNCHANGED run
  /\ UNCHANGED <<issue, load, approval, pr, queue, wake, events>>

\* Composing the init (skills, credentials) may throw; else the agent is prompted.
StartInit(p) ==
  /\ At(p, "init")
  /\ \/ Goes(p, [pc[p] EXCEPT !.at = "prompt", !.fails = TRUE])
     \/ Goto(p, "startFailed")
  /\ UNCHANGED <<issue, run, load, approval, pr, queue, wake, events>>

StartFailed(p) ==
  /\ At(p, "startFailed")
  /\ SetRun(pc[p].run, "failed")
  /\ issue' = "failed"
  /\ load' = load - 1
  /\ End(p)
  /\ UNCHANGED <<approval, pr, queue, wake, events>>

\* The agent has answered, or the prompt failed or timed out.
PromptEnds(p) ==
  /\ At(p, "prompt")
  /\ \/ Goto(p, "finalize")
     \/ IF pc[p].fails THEN Goto(p, "startFailed") ELSE End(p)
  /\ UNCHANGED <<issue, run, load, approval, pr, queue, wake, events>>

FinalizeRead(p) ==
  /\ At(p, "finalize")
  /\ IF run[pc[p].run].status = "running" THEN Goto(p, "complete") ELSE End(p)
  /\ UNCHANGED <<issue, run, load, approval, pr, queue, wake, events>>

FinalizeRun(p) ==
  /\ At(p, "complete")
  /\ SetRun(pc[p].run, "completed")
  /\ Goto(p, "finalized")
  /\ UNCHANGED <<issue, load, approval, pr, queue, wake, events>>

FinalizeIssue(p) ==
  /\ At(p, "finalized")
  /\ issue' = IF issue = "running" THEN "reviewing" ELSE issue
  /\ load' = load - 1
  /\ TriggerPm(pc[p].run, "run_completed")
  /\ End(p)
  /\ UNCHANGED <<run, approval, pr, wake, events>>

\* init_result: the proxy reports that the init of a run it opens has failed.
InitResult(p, r) ==
  /\ "initFails" \in scene.world
  /\ Begin(p)
  /\ run[r].branch
  /\ Goes(p, OnRun("initRead", r))
  /\ UNCHANGED <<issue, run, load, approval, pr, queue, wake>>

InitFailed(p) ==
  /\ At(p, "initRead")
  /\ IF run[pc[p].run].status = "running" THEN Goto(p, "initRun") ELSE End(p)
  /\ UNCHANGED <<issue, run, load, approval, pr, queue, wake, events>>

InitFailedRun(p) ==
  /\ At(p, "initRun")
  /\ SetRun(pc[p].run, "failed")
  /\ Goto(p, "initIssue")
  /\ UNCHANGED <<issue, load, approval, pr, queue, wake, events>>

InitFailedIssue(p) ==
  /\ At(p, "initIssue")
  /\ issue' = IF issue = "running" THEN "failed" ELSE issue
  /\ load' = load - 1
  /\ End(p)
  /\ UNCHANGED <<run, approval, pr, queue, wake, events>>

\* POST /runs/:id/cancel and /runs/:id/complete, whatever the run's status is.
Cancel(p, r) ==
  /\ Begin(p)
  /\ SetRun(r, "cancelled")
  /\ Goto(p, "cancelled")
  /\ UNCHANGED <<issue, load, approval, pr, queue, wake>>

Complete(p, r) ==
  /\ Begin(p)
  /\ SetRun(r, "completed")
  /\ Goto(p, "completed")
  /\ UNCHANGED <<issue, load, approval, pr, queue, wake>>

CancelIssue(p) ==
  /\ At(p, "cancelled")
  /\ issue' = "cancelled"
  /\ load' = load - 1
  /\ End(p)
  /\ UNCHANGED <<run, approval, pr, queue, wake, events>>

CompleteIssue(p) ==
  /\ At(p, "completed")
  /\ issue' = "reviewing"
  /\ load' = load - 1
  /\ End(p)
  /\ UNCHANGED <<run, approval, pr, queue, wake, events>>

-----------------------------------------------------------------------------
(* Approvals                                                                *)

Open(a) == approval[a].status \in {"pending", "executing"}

OpenFor(r, action) == {a \in DOMAIN approval :
                         approval[a].run = r /\ approval[a].action = action /\ Open(a)}

\* Mutant: nobody looks for an open approval.
RequestAnew(p) ==
  /\ At(p, "request")
  /\ IF pc[p].action = "merge_pr" => run[pc[p].run].pr # 0 THEN Goto(p, "ask") ELSE End(p)
  /\ UNCHANGED <<issue, run, load, approval, pr, queue, wake, events>>

\* requestMergePrApproval and requestCreatePrApproval: an open one is returned.
RequestCheck(p) ==
  LET r == pc[p].run
      mayAsk == pc[p].action = "merge_pr" => run[r].pr # 0
  IN /\ At(p, "request")
     /\ IF mayAsk /\ OpenFor(r, pc[p].action) = {} THEN Goto(p, "ask") ELSE End(p)
     /\ UNCHANGED <<issue, run, load, approval, pr, queue, wake, events>>

RequestCreate(p) ==
  /\ At(p, "ask")
  /\ Len(approval) < scene.maxApprovals
  /\ approval' = Append(approval, [run |-> pc[p].run, action |-> pc[p].action, status |-> "pending",
                                   by |-> IF p = Pm THEN "pm_auto" ELSE "user"])
  /\ End(p)
  /\ UNCHANGED <<issue, run, load, pr, queue, wake, events>>

\* POST /runs/:id/create-pr
CreatePrRoute(p, r) ==
  /\ Begin(p)
  /\ Goes(p, OnRun(IF scene.createApproval THEN "request" ELSE "pr", r))
  /\ UNCHANGED <<issue, run, load, approval, pr, queue, wake>>

\* POST /runs/:id/merge-pr and /runs/:id/request-merge-pr
MergePrRoute(p, r) ==
  /\ Begin(p)
  /\ Goes(p, [OnRun("request", r) EXCEPT !.action = "merge_pr"])
  /\ UNCHANGED <<issue, run, load, approval, pr, queue, wake>>

\* Mutant: any approval can be approved.
ApproveAny(p, a) ==
  /\ Begin(p)
  /\ Goes(p, [OnRun("claim", approval[a].run) EXCEPT !.approval = a])
  /\ UNCHANGED <<issue, run, load, approval, pr, queue, wake>>

ApproveRead(p, a) ==
  /\ Begin(p)
  /\ approval[a].status = "pending"
  /\ Goes(p, [OnRun("claim", approval[a].run) EXCEPT !.approval = a])
  /\ UNCHANGED <<issue, run, load, approval, pr, queue, wake>>

SetApproval(a, status) == approval' = [approval EXCEPT ![a].status = status]

Claim(p) ==
  /\ At(p, "claim")
  /\ SetApproval(pc[p].approval, "executing")
  /\ Goto(p, IF approval[pc[p].approval].action = "merge_pr" THEN "merge" ELSE "pr")
  /\ UNCHANGED <<issue, run, load, pr, queue, wake, events>>

Settle(p) ==
  /\ At(p, "settle")
  /\ SetApproval(pc[p].approval, IF pc[p].ok THEN "executed" ELSE "failed")
  /\ End(p)
  /\ UNCHANGED <<issue, run, load, pr, queue, wake, events>>

RejectRead(p, a) ==
  /\ Begin(p)
  /\ approval[a].status = "pending"
  /\ Goes(p, [OnRun("reject", approval[a].run) EXCEPT !.approval = a])
  /\ UNCHANGED <<issue, run, load, approval, pr, queue, wake>>

Reject(p) ==
  /\ At(p, "reject")
  /\ SetApproval(pc[p].approval, "rejected")
  /\ End(p)
  /\ UNCHANGED <<issue, run, load, pr, queue, wake, events>>

-----------------------------------------------------------------------------
(* Review requests                                                          *)

\* An action on the pull request returns, to its approval if it has one.
Returns(p, ok) ==
  IF pc[p].approval = 0 THEN End(p) ELSE Goes(p, [pc[p] EXCEPT !.at = "settle", !.ok = ok])

CreateRead(p) ==
  LET r == run[pc[p].run]
  IN /\ At(p, "pr")
     /\ CASE r.pr # 0 -> Returns(p, TRUE)
          [] r.pr = 0 /\ ~r.branch -> Returns(p, FALSE)
          [] OTHER -> Goto(p, "push")
     /\ UNCHANGED <<issue, run, load, approval, pr, queue, wake, events>>

OpenPr(r) == \E n \in DOMAIN pr : pr[n].run = r /\ pr[n].state = "open"

\* The branch is pushed and its pull request opened; the SCM has one open per branch.
CreateCall(p) ==
  /\ At(p, "push")
  /\ \/ /\ ~OpenPr(pc[p].run)
        /\ Len(pr) < scene.maxPrs
        /\ pr' = Append(pr, [run |-> pc[p].run, state |-> "open", by |-> pc[p].approval])
        /\ Goes(p, [pc[p] EXCEPT !.at = "record", !.pr = Len(pr) + 1])
     \/ Returns(p, FALSE) /\ UNCHANGED pr
  /\ UNCHANGED <<issue, run, load, approval, queue, wake, events>>

CreateRecord(p) ==
  /\ At(p, "record")
  /\ run' = [run EXCEPT ![pc[p].run].pr = pc[p].pr, ![pc[p].run].prState = "open",
                        ![pc[p].run].status = "waiting_ci"]
  /\ Returns(p, TRUE)
  /\ UNCHANGED <<issue, load, approval, pr, queue, wake, events>>

MergeRead(p) ==
  LET n == run[pc[p].run].pr
  IN /\ At(p, "merge")
     /\ IF n = 0 THEN Returns(p, FALSE) ELSE Goes(p, [pc[p] EXCEPT !.at = "call", !.pr = n])
     /\ UNCHANGED <<issue, run, load, approval, pr, queue, wake, events>>

\* Mutant: a refused merge throws out of the handler.
MergeThrows(p) ==
  LET n == pc[p].pr
      Seen(state) == Goes(p, [pc[p] EXCEPT !.at = "write", !.seen = state])
  IN /\ At(p, "call")
     /\ \/ pr[n].state = "open" /\ pr' = [pr EXCEPT ![n].state = "merged"] /\ Seen("merged")
        \/ pr[n].state = "open" /\ Seen("open") /\ UNCHANGED pr
        \/ End(p) /\ UNCHANGED pr
     /\ UNCHANGED <<issue, run, load, approval, queue, wake, events>>

\* The SCM merges, or takes the request without merging yet, or refuses.
MergeCall(p) ==
  LET n == pc[p].pr
      Seen(state) == Goes(p, [pc[p] EXCEPT !.at = "write", !.seen = state])
  IN /\ At(p, "call")
     /\ \/ pr[n].state = "open" /\ pr' = [pr EXCEPT ![n].state = "merged"] /\ Seen("merged")
        \/ pr[n].state = "open" /\ Seen("open") /\ UNCHANGED pr
        \/ Returns(p, FALSE) /\ UNCHANGED pr
     /\ UNCHANGED <<issue, run, load, approval, queue, wake, events>>

\* POST /runs/:id/sync-pr asks the SCM for the state of the pull request.
SyncRead(p, r) ==
  LET n == run[r].pr
  IN /\ Begin(p)
     /\ n # 0
     /\ Goes(p, [OnRun("write", r) EXCEPT !.pr = n, !.seen = pr[n].state])
     /\ UNCHANGED <<issue, run, load, approval, pr, queue, wake>>

\* Mutant: an accepted merge request counts as a merge.
StateWriteAsMerged(p) ==
  /\ At(p, "write")
  /\ run' = [run EXCEPT ![pc[p].run].prState = pc[p].seen]
  /\ Goto(p, "done")
  /\ UNCHANGED <<issue, load, approval, pr, queue, wake, events>>

\* What was seen is written to the run.
StateWrite(p) ==
  /\ At(p, "write")
  /\ run' = [run EXCEPT ![pc[p].run].prState = pc[p].seen]
  /\ IF pc[p].seen = "merged" THEN Goto(p, "done") ELSE Returns(p, TRUE)
  /\ UNCHANGED <<issue, load, approval, pr, queue, wake, events>>

MergedWrite(p) ==
  /\ At(p, "done")
  /\ issue' = "done"
  /\ SetRun(pc[p].run, "completed")
  /\ Returns(p, TRUE)
  /\ UNCHANGED <<load, approval, pr, queue, wake, events>>

-----------------------------------------------------------------------------
(* Webhooks, the PM's queue, and the world                                  *)

\* A pipeline on the branch of a run has ended, in a project the SCM is configured for.
CiHook(p, r, passed) ==
  /\ Begin(p)
  /\ run[r].branch
  /\ run' = [run EXCEPT ![r].ci = IF passed THEN "passed" ELSE "failed"]
  /\ Goes(p, [OnRun("ci", r) EXCEPT !.ok = passed])
  /\ UNCHANGED <<issue, load, approval, pr, queue, wake>>

CiEnd(p) ==
  /\ At(p, "ci")
  /\ SetRun(pc[p].run, IF pc[p].ok THEN "completed" ELSE "failed")
  /\ TriggerPm(pc[p].run, "ci_completed")
  /\ End(p)
  /\ UNCHANGED <<issue, load, approval, pr, wake, events>>

\* The issue was reopened at the SCM: it is pending again, and its start is triggered.
ReopenHook(p) ==
  /\ Begin(p)
  /\ issue' = IF issue \in {"done", "failed", "cancelled"} THEN "pending" ELSE issue
  /\ wake' = wake + 1
  /\ UNCHANGED <<run, load, approval, pr, queue, pc>>

\* Mutant: the PM opens pull requests without looking at the policy.
PmAdvanceUnasked ==
  LET t == Head(queue)
      r == t.run
  IN /\ Free(Pm)
     /\ queue # <<>>
     /\ queue' = Tail(queue)
     /\ IF t.trigger = "run_completed" /\ run[r].pr = 0
        THEN Goes(Pm, OnRun("pr", r)) ELSE UNCHANGED pc
     /\ UNCHANGED <<issue, run, load, approval, pr, wake, events>>

\* runAutoAdvanceOnce: what is to be done next with the run it was triggered for.
PmAdvance ==
  LET t == Head(queue)
      r == t.run
      creates == t.trigger = "run_completed" /\ run[r].pr = 0
      merges == t.trigger = "ci_completed" /\ run[r].ci = "passed" /\ run[r].pr # 0
  IN /\ Free(Pm)
     /\ queue # <<>>
     /\ queue' = Tail(queue)
     /\ CASE creates -> Goes(Pm, OnRun(IF scene.createApproval THEN "request" ELSE "pr", r))
          [] merges -> Goes(Pm, [OnRun("request", r) EXCEPT !.action = "merge_pr"])
          [] OTHER -> UNCHANGED pc
     /\ UNCHANGED <<issue, run, load, approval, pr, wake, events>>

\* Somebody merges or closes a pull request at the SCM.
ByHand(n, state) ==
  /\ state \in scene.world
  /\ events > 0 /\ events' = events - 1
  /\ pr[n].state = "open"
  /\ pr' = [pr EXCEPT ![n].state = state]
  /\ UNCHANGED <<issue, run, load, approval, queue, wake, pc>>

\* The backend stops and starts: handlers and queues are gone, rows are not.
Crash ==
  /\ "crash" \in scene.world
  /\ events > 0 /\ events' = events - 1
  /\ pc' = [p \in Process |-> IdleRow]
  /\ queue' = <<>>
  /\ wake' = 0
  /\ UNCHANGED <<issue, run, load, approval, pr>>

\* The proxy is back, and the runs that were running are prompted again.
Resume(p, r) ==
  /\ Begin(p)
  /\ run[r].status = "running"
  /\ \A q \in Process : pc[q].run # r
  /\ Goes(p, OnRun("prompt", r))
  /\ UNCHANGED <<issue, run, load, approval, pr, queue, wake>>

-----------------------------------------------------------------------------
Continue(p) ==
  \/ StartCreate(p) \/ StartMark(p) \/ StartWorkspace(p) \/ StartInit(p) \/ StartFailed(p)
  \/ PromptEnds(p) \/ FinalizeRead(p) \/ FinalizeRun(p) \/ FinalizeIssue(p)
  \/ InitFailed(p) \/ InitFailedRun(p) \/ InitFailedIssue(p)
  \/ CancelIssue(p) \/ CompleteIssue(p)
  \/ RequestCheck(p) \/ RequestCreate(p) \/ Claim(p) \/ Settle(p) \/ Reject(p)
  \/ CreateRead(p) \/ CreateCall(p) \/ CreateRecord(p)
  \/ MergeRead(p) \/ MergeCall(p) \/ StateWrite(p) \/ MergedWrite(p)
  \/ CiEnd(p)

Arrive(p) ==
  \/ StartRoute(p) \/ ReopenHook(p)
  \/ \E r \in Runs : \/ Cancel(p, r) \/ Complete(p, r) \/ CreatePrRoute(p, r) \/ MergePrRoute(p, r)
                     \/ SyncRead(p, r) \/ Resume(p, r) \/ InitResult(p, r)
                     \/ \E passed \in BOOLEAN : CiHook(p, r, passed)
  \/ \E a \in DOMAIN approval : ApproveRead(p, a) \/ RejectRead(p, a)

Queues == Dispatch \/ Analyzed \/ PmAdvance

Happens == Crash \/ \E n \in DOMAIN pr, state \in {"merged", "closed"} : ByHand(n, state)

Next == /\ UNCHANGED scene
        /\ \/ \E p \in Process : Continue(p)
           \/ \E p \in Handlers : Arrive(p)
           \/ Queues
           \/ Happens

Spec == Init /\ [][Next]_vars

-----------------------------------------------------------------------------
(* Properties                                                               *)

\* An issue is done only if a pull request of it has been merged, whoever finds
\* that out: an approved merge (runReviewRequest.ts:533) or a sync (752) that
\* reports what the SCM answered some awaits before.
DoneMeansMerged ==
  issue = "done" => \E n \in DOMAIN pr : pr[n].state = "merged"

\* The PM asks once: its checks for an open approval and its creations are
\* serialised by the issue's queue (pmAutoAdvance.ts:166), so deliveries that
\* trigger it at the same time do not leave one thing pending twice.
PmAsksOnce ==
  \A a, b \in DOMAIN approval :
    /\ approval[a].status = "pending" /\ approval[b].status = "pending"
    /\ approval[a].by = "pm_auto" /\ approval[b].by = "pm_auto"
    /\ approval[a].run = approval[b].run /\ approval[a].action = approval[b].action
    => a = b

\* Where the policy asks for it, no path of the backend opens a pull request but
\* behind an approval that asked for it, for that run, and was decided.
ControlledCreate ==
  scene.createApproval =>
    \A n \in DOMAIN pr :
      /\ pr[n].by # 0
      /\ approval[pr[n].by].run = pr[n].run
      /\ approval[pr[n].by].action = "create_pr"
      /\ approval[pr[n].by].status # "pending"

\* When handlers do not overlap a decision is final: what was executed, failed or
\* rejected is never decided again (approvals.ts:77 and the check of reject).
DecisionFinal ==
  [][\A a \in DOMAIN approval : ~Open(a) /\ ~scene.overlap => approval'[a] = approval[a]]_vars

\* A claimed approval is in a handler's hands until it is settled, however its
\* action ends: only a crash of the process leaves one executing (approvals.ts:86).
ClaimHeld ==
  "crash" \in scene.world \/
    \A a \in DOMAIN approval :
      approval[a].status = "executing" => \E p \in Process : pc[p].approval = a
=============================================================================
