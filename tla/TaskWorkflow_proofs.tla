-------------------------- MODULE TaskWorkflow_proofs --------------------------
(***************************************************************************)
(* Proofs about TaskWorkflow, for every template, policy and number of     *)
(* handlers, runs and interventions.                                       *)
(***************************************************************************)
EXTENDS TaskWorkflow, TLAPS

\* The places at which a process has a Run in hand.
HasRun == {"created", "stepped", "dispatch", "requested", "prompt", "finalize",
           "ci", "approving", "executing", "rejecting"}

Handed(t) == /\ t.at \in HasRun => t.run \in Runs
             /\ t.at = "ci" => t.outcome # "blocked"

RunInHand == \A p \in Processes : Handed(pc[p])

TypeInv == TypeOK /\ RunInHand

-----------------------------------------------------------------------------
LEMMA IdleThread == Idle \in Threads /\ Idle.at = "idle"
BY StepsAssumption DEF Idle, Threads, Places, Steps, Executors, Sequels

\* A process becomes another thread; the others stay what they are.
LEMMA Becomes ==
  ASSUME TypeInv, NEW p \in Processes, NEW t \in Threads,
         Handed(t), Become(p, t)
  PROVE  /\ pc' \in [Processes -> Threads]
         /\ RunInHand'
         /\ pc'[p] = t
         /\ \A q \in Processes : q # p => pc'[q] = pc[q]
BY DEF TypeInv, TypeOK, RunInHand, Become

LEMMA Goes ==
  ASSUME TypeInv, NEW p \in Processes, NEW place \in Places \ {"ci"},
         place \in HasRun => pc[p].run \in Runs, Goto(p, place)
  PROVE  /\ pc' \in [Processes -> Threads]
         /\ RunInHand'
         /\ pc'[p] = [pc[p] EXCEPT !.at = place]
         /\ \A q \in Processes : q # p => pc'[q] = pc[q]
<1>1. pc[p] \in Threads
  BY DEF TypeInv, TypeOK
<1> DEFINE t == [pc[p] EXCEPT !.at = place]
<1>2. t \in Threads /\ t.at = place /\ t.run = pc[p].run
  BY <1>1 DEF Threads
<1>3. Become(p, t)
  BY DEF Goto
<1> HIDE DEF t
<1>4. QED
  <2>1. /\ pc' \in [Processes -> Threads]
        /\ RunInHand'
        /\ pc'[p] = t
        /\ \A q \in Processes : q # p => pc'[q] = pc[q]
    BY <1>2, <1>3, Becomes DEF Handed
  <2>2. QED
    BY <2>1 DEF t

LEMMA Finishes ==
  ASSUME TypeInv, NEW p \in Processes, Finish(p)
  PROVE  /\ pc' \in [Processes -> Threads]
         /\ RunInHand'
         /\ pc'[p] = Idle
         /\ \A q \in Processes : q # p => pc'[q] = pc[q]
BY IdleThread, Becomes DEF Finish, Handed, HasRun

LEMMA Ends ==
  ASSUME TypeInv, NEW p \in Processes, NEW r \in Runs, NEW row \in RunRows,
         NEW outcome \in {"completed", "failed", "blocked"}, NEW then \in Sequels,
         EndRun(p, r, row, outcome, then)
  PROVE  /\ pc' \in [Processes -> Threads]
         /\ RunInHand'
         /\ run' \in [Runs -> RunRows]
<1>1. pc[p] \in Threads
  BY DEF TypeInv, TypeOK
<1> DEFINE t == [pc[p] EXCEPT !.at = "advance", !.run = r, !.step = row.step,
                              !.outcome = outcome, !.then = then]
<1>2. t \in Threads /\ t.at = "advance"
  BY <1>1 DEF Threads, Places, RunRows
<1>3. Become(p, t)
  BY DEF EndRun
<1> HIDE DEF t
<1>4. pc' \in [Processes -> Threads] /\ RunInHand'
  BY <1>2, <1>3, Becomes DEF Handed, HasRun
<1>5. run' \in [Runs -> RunRows]
  BY DEF EndRun, TypeInv, TypeOK
<1>6. QED
  BY <1>4, <1>5

LEMMA Returns ==
  ASSUME TypeInv, NEW p \in Processes, Return(p)
  PROVE  /\ pc' \in [Processes -> Threads]
         /\ RunInHand'
         /\ queue' \in Seq(Deps)
<1>1. pc' \in [Processes -> Threads] /\ RunInHand'
  <2>1. CASE Goto(p, "hook")
    BY <2>1, Goes DEF Places, HasRun
  <2>2. CASE Goto(p, "automerge")
    BY <2>2, Goes DEF Places, HasRun
  <2>3. CASE Finish(p)
    BY <2>3, Finishes
  <2>4. QED
    BY <2>1, <2>2, <2>3 DEF Return
<1>2. queue' \in Seq(Deps)
  <2>1. queue \in Seq(Deps)
    BY DEF TypeInv, TypeOK
  <2>2. \A d \in Deps : Append(queue, d) \in Seq(Deps)
    BY <2>1
  <2>3. "acp" \in Deps
    BY DEF Deps
  <2>4. QED
    BY <2>1, <2>2, <2>3 DEF Return
<1>3. QED
  BY <1>1, <1>2

LEMMA Opens ==
  ASSUME TypeInv
  PROVE  /\ OpenedPr \in PullRequests
         /\ \A r \in Runs : CreatedPr(r) \in PullRequests /\ PrOf(r) \in Nat
<1> DEFINE n == pr.number + 1
<1>1. pr \in PullRequests /\ run \in [Runs -> RunRows]
  BY DEF TypeInv, TypeOK
<1>2. n \in Nat
  BY <1>1 DEF PullRequests
<1>3. OpenedPr = [pr EXCEPT !.number = n, !.open = TRUE]
  BY DEF OpenedPr
<1>4. \A r \in Runs : PrOf(r) = IF run[r].pr # 0 THEN run[r].pr ELSE n
  BY DEF PrOf
<1> HIDE DEF n
<1>5. OpenedPr \in PullRequests
  BY <1>1, <1>2, <1>3 DEF PullRequests
<1>6. QED
  BY <1>1, <1>2, <1>4, <1>5 DEF CreatedPr, RunRows

LEMMA TypeContinue ==
  ASSUME TypeInv, NEW p \in Processes, Continue(p)
  PROVE  TypeInv'
<1> USE DEF At
<1>0. pc[p] \in Threads /\ pc[p].step \in Steps
  BY DEF TypeInv, TypeOK, Threads
<1>r. \A row \in RunRows, status \in EndedStatuses :
        [row EXCEPT !.status = status] \in RunRows
  BY DEF RunRows
<1>h. pc[p].at \in HasRun =>
        pc[p].run \in Runs /\ run[pc[p].run] \in RunRows
  BY DEF TypeInv, TypeOK, RunInHand, Handed
<1>1. CASE StartRead(p)
  <2> DEFINE e == IF pc[p].asked = "default" THEN executor[pc[p].step] ELSE pc[p].asked
             t == [pc[p] EXCEPT !.at = "start", !.branch = workspace, !.exec = e]
  <2>2. Become(p, t) \/ Finish(p)
    BY <1>1 DEF StartRead
  <2>a. pc[p].asked \in Executors \cup {"default"}
    BY <1>0 DEF Threads
  <2>b. workspace \in BOOLEAN /\ e \in Executors
    BY <1>0, <2>a DEF TypeInv, TypeOK
  <2> HIDE DEF e
  <2>c. "start" \in Places
    BY DEF Places
  <2>1. t \in Threads /\ t.at = "start"
    BY <1>0, <2>b, <2>c DEF Threads
  <2> HIDE DEF t
  <2>3. pc' \in [Processes -> Threads] /\ RunInHand'
    BY <2>1, <2>2, Becomes, Finishes DEF Handed, HasRun
  <2>4. QED
    BY <1>1, <2>3 DEF StartRead, TypeInv, TypeOK
<1>2. CASE StartAttempt(p)
  <2>1. PICK a \in Attempts(pc[p].step) \cup {0} :
          Become(p, [pc[p] EXCEPT !.at = "create", !.attempt = a + 1])
    BY <1>2 DEF StartAttempt
  <2> DEFINE n == a + 1
             t == [pc[p] EXCEPT !.at = "create", !.attempt = n]
  <2>2. n \in Nat
    BY DEF Attempts, TypeInv, TypeOK, RunRows
  <2>4. Become(p, t)
    BY <2>1
  <2> HIDE DEF n
  <2>3. t \in Threads /\ t.at = "create"
    BY <1>0, <2>2 DEF Threads, Places
  <2> HIDE DEF t
  <2>5. pc' \in [Processes -> Threads] /\ RunInHand'
    BY <2>3, <2>4, Becomes DEF Handed, HasRun
  <2>6. executor' \in [Steps -> Executors]
    BY <1>0, <1>2 DEF StartAttempt, TypeInv, TypeOK, Threads
  <2>7. QED
    BY <1>2, <2>5, <2>6 DEF StartAttempt, TypeInv, TypeOK
<1>3. CASE StartCreateRun(p)
  <2> DEFINE row == [NoRun EXCEPT !.status   = IF pc[p].exec = "ci" THEN "waiting_ci"
                                               ELSE "running",
                                  !.step     = pc[p].step,
                                  !.executor = pc[p].exec,
                                  !.attempt  = pc[p].attempt,
                                  !.branch   = pc[p].branch]
             t(r) == [pc[p] EXCEPT !.at = "created", !.run = r]
  <2>1. PICK r \in Runs : run' = [run EXCEPT ![r] = row] /\ Become(p, t(r))
    BY <1>3 DEF StartCreateRun
  <2>2. row \in RunRows
    BY <1>0 DEF NoRun, RunRows, Threads, ActiveStatuses, ApprovalStatuses
  <2>3. t(r) \in Threads /\ t(r).run = r /\ t(r).at = "created"
    BY <1>0 DEF Threads, Places
  <2> HIDE DEF row, t
  <2>4. pc' \in [Processes -> Threads] /\ RunInHand'
    BY <2>1, <2>3, Becomes DEF Handed
  <2>5. run' \in [Runs -> RunRows]
    BY <2>1, <2>2 DEF TypeInv, TypeOK
  <2>6. QED
    BY <1>3, <2>4, <2>5 DEF StartCreateRun, TypeInv, TypeOK
<1>4. CASE StartMoveStep(p)
  <2>1. pc' \in [Processes -> Threads] /\ RunInHand'
    BY <1>4, <1>h, Goes DEF StartMoveStep, HasRun, Places
  <2>2. stepStatus' \in [Steps -> StepStatuses]
    BY <1>0, <1>4 DEF StartMoveStep, TypeInv, TypeOK, StepStatuses
  <2>3. QED
    BY <1>4, <2>1, <2>2 DEF StartMoveStep, TypeInv, TypeOK
<1>5. CASE StartMoveTask(p)
  <2>1. pc' \in [Processes -> Threads] /\ RunInHand'
    BY <1>5, <1>h, Goes DEF StartMoveTask, HasRun, Places
  <2>2. task' \in [status : TaskStatuses, current : Steps] /\ issue' \in IssueStatuses
    BY <1>0, <1>5 DEF StartMoveTask, TaskStatuses, IssueStatuses
  <2>3. QED
    BY <1>5, <2>1, <2>2 DEF StartMoveTask, TypeInv, TypeOK
<1>6. CASE DispatchWait(p)
  BY <1>6, Finishes DEF DispatchWait, TypeInv, TypeOK
<1>7. CASE DispatchFail(p)
  <2>1. pc' \in [Processes -> Threads] /\ RunInHand' /\ run' \in [Runs -> RunRows]
    BY <1>7, <1>h, <1>r, Ends DEF DispatchFail, HasRun, EndedStatuses, Sequels
  <2>2. QED
    BY <1>7, <2>1 DEF DispatchFail, TypeInv, TypeOK
<1>8. CASE DispatchCreatePr(p)
  <2> DEFINE row == [run[pc[p].run] EXCEPT !.status = "completed",
                                           !.pr = PrOf(pc[p].run)]
  <2>0. pc[p].run \in Runs /\ run[pc[p].run] \in RunRows
    BY <1>8, <1>h DEF DispatchCreatePr, HasRun
  <2>1. pr' \in PullRequests /\ PrOf(pc[p].run) \in Nat
    BY <1>8, <2>0, Opens DEF DispatchCreatePr
  <2>2. row \in RunRows
    BY <2>0, <2>1 DEF RunRows, EndedStatuses
  <2>3. EndRun(p, pc[p].run, row, "completed", pc[p].then)
    BY <1>8 DEF DispatchCreatePr
  <2> HIDE DEF row
  <2>4. pc' \in [Processes -> Threads] /\ RunInHand' /\ run' \in [Runs -> RunRows]
    BY <1>0, <1>8, <1>h, <2>2, <2>3, Ends DEF DispatchCreatePr, HasRun, Threads
  <2>5. QED
    BY <1>8, <2>1, <2>4 DEF DispatchCreatePr, TypeInv, TypeOK
<1>9. CASE DispatchRequestApproval(p)
  <2>1. pc' \in [Processes -> Threads] /\ RunInHand'
    BY <1>9, <1>h, Goes DEF DispatchRequestApproval, HasRun, Places
  <2>2. run' \in [Runs -> RunRows]
    BY <1>9, <1>h DEF DispatchRequestApproval, RequestApproval, HasRun, RunRows,
                      ApprovalStatuses, TypeInv, TypeOK
  <2>3. QED
    BY <1>9, <2>1, <2>2 DEF DispatchRequestApproval, TypeInv, TypeOK
<1>10. CASE ParkStep(p)
  BY <1>0, <1>10, Finishes DEF ParkStep, TypeInv, TypeOK, StepStatuses, IssueStatuses
<1>11. CASE DispatchAgent(p)
  <2>1. pc' \in [Processes -> Threads] /\ RunInHand'
    BY <1>11, <1>h, Goes DEF DispatchAgent, HasRun, Places
  <2>2. run' \in [Runs -> RunRows]
    BY <1>11, <1>h DEF DispatchAgent, HasRun, RunRows, TypeInv, TypeOK
  <2>3. QED
    BY <1>11, <2>1, <2>2 DEF DispatchAgent, TypeInv, TypeOK, IssueStatuses
<1>12. CASE PromptOk(p)
  <2>1. pc' \in [Processes -> Threads] /\ RunInHand'
    BY <1>12, <1>h, Goes, Finishes DEF PromptOk, Handed, HasRun, Places
  <2>2. QED
    BY <1>12, <2>1 DEF PromptOk, TypeInv, TypeOK
<1>13. CASE Finalize(p)
  <2>1. pc' \in [Processes -> Threads] /\ RunInHand' /\ run' \in [Runs -> RunRows]
    BY <1>13, <1>h, <1>r, Ends DEF Finalize, HasRun, EndedStatuses, Sequels
  <2>2. QED
    BY <1>13, <2>1 DEF Finalize, TypeInv, TypeOK
<1>14. CASE PromptFail(p)
  <2>1. pc' \in [Processes -> Threads] /\ RunInHand' /\ run' \in [Runs -> RunRows]
    <3>1. CASE Finish(p) /\ UNCHANGED run
      BY <3>1, Finishes DEF TypeInv, TypeOK
    <3>2. CASE EndRun(p, pc[p].run, [run[pc[p].run] EXCEPT !.status = "failed"],
                      "failed", "none")
      BY <3>2, <1>14, <1>h, <1>r, Ends DEF PromptFail, HasRun, EndedStatuses, Sequels
    <3>3. QED
      BY <1>14, <3>1, <3>2 DEF PromptFail
  <2>2. QED
    BY <1>14, <2>1 DEF PromptFail, TypeInv, TypeOK
<1>15. CASE AdvanceRead(p)
  <2> DEFINE t == [pc[p] EXCEPT !.at = "advanced",
                     !.nextPending = /\ pc[p].step < NSteps
                                     /\ stepStatus[pc[p].step + 1] = "pending"]
  <2>1. t \in Threads /\ t.at = "advanced"
    BY <1>0 DEF Threads, Places
  <2>2. Become(p, t)
    BY <1>15 DEF AdvanceRead
  <2> HIDE DEF t
  <2>3. pc' \in [Processes -> Threads] /\ RunInHand'
    BY <2>1, <2>2, Becomes DEF Handed, HasRun
  <2>4. QED
    BY <1>15, <2>3 DEF AdvanceRead, TypeInv, TypeOK
<1>16. CASE AdvanceSteps(p)
  <2>1. pc' \in [Processes -> Threads] /\ RunInHand'
    BY <1>16, Goes DEF AdvanceSteps, HasRun, Places
  <2>2. stepStatus' \in [Steps -> StepStatuses]
    BY <1>0, <1>16 DEF AdvanceSteps, TypeInv, TypeOK, StepStatuses, Threads
  <2>3. QED
    BY <1>16, <2>1, <2>2 DEF AdvanceSteps, TypeInv, TypeOK
<1>17. CASE AdvanceTask(p)
  <2>1. pc' \in [Processes -> Threads] /\ RunInHand' /\ queue' \in Seq(Deps)
    BY <1>17, Returns DEF AdvanceTask
  <2>2. pc[p].step < NSteps => pc[p].step + 1 \in Steps
    BY <1>0, StepsAssumption DEF Steps
  <2>3. task' \in [status : TaskStatuses, current : Steps] /\ issue' \in IssueStatuses
    BY <1>17, <2>2 DEF AdvanceTask, TaskStatuses, IssueStatuses, TypeInv, TypeOK
  <2>4. QED
    BY <1>17, <2>1, <2>3 DEF AdvanceTask, TypeInv, TypeOK
<1>18. CASE BlockStep(p)
  <2>1. pc' \in [Processes -> Threads] /\ RunInHand'
    BY <1>18, Goes DEF BlockStep, HasRun, Places
  <2>2. stepStatus' \in [Steps -> StepStatuses]
    BY <1>0, <1>18 DEF BlockStep, TypeInv, TypeOK, StepStatuses, Threads
  <2>3. QED
    BY <1>18, <2>1, <2>2 DEF BlockStep, TypeInv, TypeOK
<1>19. CASE BlockTask(p)
  BY <1>19, Finishes DEF BlockTask, TypeInv, TypeOK, TaskStatuses, IssueStatuses
<1>20. CASE ApproveClaim(p)
  <2>1. pc' \in [Processes -> Threads] /\ RunInHand'
    BY <1>20, <1>h, Goes DEF ApproveClaim, HasRun, Places
  <2>2. run' \in [Runs -> RunRows]
    BY <1>20, <1>h DEF ApproveClaim, HasRun, RunRows, ApprovalStatuses, TypeInv, TypeOK
  <2>3. QED
    BY <1>20, <2>1, <2>2 DEF ApproveClaim, TypeInv, TypeOK
<1>21. CASE ApproveExecute(p)
  <2> DEFINE row == [run[pc[p].run] EXCEPT !.status = "completed",
                       !.pr = PrOf(pc[p].run), !.approval = "executed"]
  <2>0. pc[p].run \in Runs /\ run[pc[p].run] \in RunRows
    BY <1>21, <1>h DEF ApproveExecute, HasRun
  <2>1. pr' \in PullRequests /\ PrOf(pc[p].run) \in Nat
    BY <1>21, <2>0, Opens DEF ApproveExecute
  <2>2. row \in RunRows
    BY <2>0, <2>1 DEF RunRows, EndedStatuses, ApprovalStatuses
  <2>3. EndRun(p, pc[p].run, row, "completed", "ws")
    BY <1>21 DEF ApproveExecute
  <2> HIDE DEF row
  <2>4. pc' \in [Processes -> Threads] /\ RunInHand' /\ run' \in [Runs -> RunRows]
    BY <1>21, <1>h, <2>2, <2>3, Ends DEF ApproveExecute, HasRun, Sequels, Deps
  <2>5. QED
    BY <1>21, <2>1, <2>4 DEF ApproveExecute, TypeInv, TypeOK
<1>22. CASE ApproveFail(p)
  <2> DEFINE row == [run[pc[p].run] EXCEPT !.status = "failed", !.approval = "failed"]
  <2>1. row \in RunRows
    BY <1>22, <1>h DEF ApproveFail, HasRun, RunRows, EndedStatuses, ApprovalStatuses
  <2>2. EndRun(p, pc[p].run, row, "failed", "none")
    BY <1>22 DEF ApproveFail
  <2> HIDE DEF row
  <2>3. pc' \in [Processes -> Threads] /\ RunInHand' /\ run' \in [Runs -> RunRows]
    BY <1>22, <1>h, <2>1, <2>2, Ends DEF ApproveFail, HasRun, Sequels
  <2>4. QED
    BY <1>22, <2>3 DEF ApproveFail, TypeInv, TypeOK
<1>23. CASE RejectCommit(p)
  <2> DEFINE t == [pc[p] EXCEPT !.at = "block", !.outcome = "blocked"]
  <2>1. t \in Threads /\ t.at = "block"
    BY <1>0 DEF Threads, Places
  <2>2. Become(p, t)
    BY <1>23 DEF RejectCommit
  <2> HIDE DEF t
  <2>3. pc' \in [Processes -> Threads] /\ RunInHand'
    BY <2>1, <2>2, Becomes DEF Handed, HasRun
  <2>4. run' \in [Runs -> RunRows]
    BY <1>23, <1>h DEF RejectCommit, HasRun, RunRows, EndedStatuses,
                       ApprovalStatuses, TypeInv, TypeOK
  <2>5. QED
    BY <1>23, <2>3, <2>4 DEF RejectCommit, TypeInv, TypeOK
<1>24. CASE CiCommit(p)
  <2>1. pc[p].outcome \in {"completed", "failed"}
    BY <1>0, <1>24 DEF CiCommit, Threads, TypeInv, RunInHand, Handed
  <2> DEFINE row == [run[pc[p].run] EXCEPT !.status = pc[p].outcome]
  <2>a. pc[p].outcome \in EndedStatuses /\ "ci" \in Sequels /\ pc[p].at \in HasRun
    BY <1>24, <2>1 DEF CiCommit, EndedStatuses, Sequels, HasRun
  <2>b. pc[p].run \in Runs /\ row \in RunRows
    BY <1>h, <1>r, <2>a
  <2>c. EndRun(p, pc[p].run, row, pc[p].outcome, "ci")
    BY <1>24 DEF CiCommit
  <2> HIDE DEF row
  <2>2. pc' \in [Processes -> Threads] /\ RunInHand' /\ run' \in [Runs -> RunRows]
    BY <2>1, <2>a, <2>b, <2>c, Ends
  <2>3. QED
    BY <1>24, <2>2 DEF CiCommit, TypeInv, TypeOK
<1>25. CASE AutoMergeOk(p)
  BY <1>25, Finishes DEF AutoMergeOk, MergedPr, TypeInv, TypeOK, PullRequests
<1>26. CASE AutoMergeFail(p)
  <2>s. PICK s \in Steps :
          ReworkStep(s) /\ Become(p, [pc[p] EXCEPT !.at = "rollback", !.step = s, !.then = "acp"])
    BY <1>26 DEF AutoMergeFail
  <2> DEFINE t == [pc[p] EXCEPT !.at = "rollback", !.step = s, !.then = "acp"]
  <2>0. "acp" \in Sequels
    BY DEF Sequels, Deps
  <2>1. t \in Threads /\ t.at = "rollback"
    BY <1>0, <2>0 DEF Threads, Places
  <2>2. Become(p, t)
    BY <2>s, <1>26 DEF AutoMergeFail
  <2> HIDE DEF t
  <2>3. pc' \in [Processes -> Threads] /\ RunInHand'
    BY <2>1, <2>2, Becomes DEF Handed, HasRun
  <2>4. QED
    BY <1>26, <2>3 DEF AutoMergeFail, TypeInv, TypeOK
<1>27. CASE HookNext(p)
  <2> DEFINE t(r) == [pc[p] EXCEPT !.at = "advance", !.run = r, !.step = run[r].step,
                        !.then = "hook", !.outcome = "completed", !.todo = @ \ {r}]
  <2>1. PICK r \in pc[p].todo : /\ run' = [run EXCEPT ![r].status = "completed"]
                                /\ Become(p, t(r))
    BY <1>27 DEF HookNext
  <2>2. r \in Runs /\ run[r] \in RunRows
    BY <1>0 DEF Threads, TypeInv, TypeOK
  <2>3. t(r) \in Threads /\ t(r).at = "advance"
    BY <1>0, <2>2 DEF Threads, Places, RunRows, Sequels
  <2> HIDE DEF t
  <2>4. pc' \in [Processes -> Threads] /\ RunInHand'
    BY <2>1, <2>3, Becomes DEF Handed, HasRun
  <2>5. run' \in [Runs -> RunRows]
    BY <2>1, <2>2, <1>r DEF EndedStatuses, TypeInv, TypeOK
  <2>6. QED
    BY <1>27, <2>4, <2>5 DEF HookNext, TypeInv, TypeOK
<1>28. CASE HookDone(p)
  <2> DEFINE t == [pc[p] EXCEPT !.at = "advanced", !.step = task.current]
  <2>1. t \in Threads /\ t.at = "advanced"
    BY <1>0 DEF Threads, Places, TypeInv, TypeOK
  <2>2. Become(p, t) \/ Finish(p)
    BY <1>28 DEF HookDone
  <2> HIDE DEF t
  <2>3. pc' \in [Processes -> Threads] /\ RunInHand'
    BY <2>1, <2>2, Becomes, Finishes DEF Handed, HasRun
  <2>4. QED
    BY <1>28, <2>3 DEF HookDone, TypeInv, TypeOK
<1>29. CASE RollbackSteps(p)
  <2>1. pc' \in [Processes -> Threads] /\ RunInHand'
    BY <1>29, Goes DEF RollbackSteps, HasRun, Places
  <2>2. stepStatus' \in [Steps -> StepStatuses]
    BY <1>29 DEF RollbackSteps, TypeInv, TypeOK, StepStatuses
  <2>3. QED
    BY <1>29, <2>1, <2>2 DEF RollbackSteps, TypeInv, TypeOK
<1>30. CASE RollbackTask(p)
  <2>1. pc' \in [Processes -> Threads] /\ RunInHand' /\ queue' \in Seq(Deps)
    BY <1>30, Returns DEF RollbackTask
  <2>2. QED
    BY <1>0, <1>30, <2>1 DEF RollbackTask, TypeInv, TypeOK, TaskStatuses, IssueStatuses
<1>31. QED
  BY <1>1, <1>2, <1>3, <1>4, <1>5, <1>6, <1>7, <1>8, <1>9, <1>10, <1>11, <1>12,
     <1>13, <1>14, <1>15, <1>16, <1>17, <1>18, <1>19, <1>20, <1>21, <1>22, <1>23,
     <1>24, <1>25, <1>26, <1>27, <1>28, <1>29, <1>30 DEF Continue

LEMMA TypeAuto ==
  ASSUME TypeInv, AutoPick \/ AutoDrop
  PROVE  TypeInv'
<1>1. queue \in Seq(Deps) /\ queue # << >> => Tail(queue) \in Seq(Deps)
                                              /\ Head(queue) \in Deps
  OBVIOUS
<1>2. CASE AutoPick
  <2> DEFINE t == [Idle EXCEPT !.at = "pick", !.step = task.current,
                               !.then = Head(queue)]
  <2>1. Head(queue) \in Sequels /\ queue' \in Seq(Deps)
    BY <1>1, <1>2 DEF AutoPick, TypeInv, TypeOK, Sequels
  <2>2. task.current \in Steps
    BY DEF TypeInv, TypeOK
  <2>3. t \in Threads /\ t.at = "pick"
    BY <2>1, <2>2, IdleThread DEF Threads, Places
  <2>4. Become(AutoQueue, t)
    BY <1>2 DEF AutoPick
  <2>a. AutoQueue \in Processes
    BY DEF Processes
  <2> HIDE DEF t
  <2>5. pc' \in [Processes -> Threads] /\ RunInHand'
    BY <2>3, <2>4, <2>a, Becomes DEF Handed, HasRun
  <2>6. QED
    BY <1>2, <2>1, <2>5 DEF AutoPick, TypeInv, TypeOK
<1>3. CASE AutoDrop
  BY <1>1, <1>3 DEF AutoDrop, TypeInv, TypeOK, RunInHand
<1>4. QED
  BY <1>2, <1>3

LEMMA TypeBegin ==
  ASSUME TypeInv, NEW h \in Handlers, Begin(h)
  PROVE  TypeInv'
<1>0. h \in Processes /\ pc[h] \in Threads /\ run \in [Runs -> RunRows]
  BY DEF Processes, TypeInv, TypeOK
<1>r. \A r \in Runs, status \in EndedStatuses :
        [run[r] EXCEPT !.status = status] \in RunRows
  BY <1>0 DEF RunRows
<1>b. \A kind : Intervene(kind) => budget' \in Nat
  BY DEF Intervene, TypeInv, TypeOK
<1>l. ASSUME NEW n \in Nat, LinkPr(n)
      PROVE  run' \in [Runs -> RunRows]
  <2>1. \A r \in Runs : [run[r] EXCEPT !.pr = n] \in RunRows /\ run[r] \in RunRows
    BY <1>0 DEF RunRows
  <2>2. QED
    BY <1>l, <2>1 DEF LinkPr
<1>1. ASSUME NEW s \in Steps, NEW asked \in Executors \cup {"default"},
             StartRoute(h, s, asked)
      PROVE  TypeInv'
  <2> DEFINE t == [Idle EXCEPT !.at = "pick", !.step = s, !.asked = asked, !.then = "both"]
  <2>1. t \in Threads /\ t.at = "pick"
    BY IdleThread DEF Threads, Places, Sequels, Deps
  <2>2. Become(h, t)
    BY <1>1 DEF StartRoute
  <2> HIDE DEF t
  <2>3. pc' \in [Processes -> Threads] /\ RunInHand'
    BY <1>0, <2>1, <2>2, Becomes DEF Handed, HasRun
  <2>4. QED
    BY <1>1, <2>3 DEF StartRoute, TypeInv, TypeOK
<1>2. ASSUME NEW s \in Steps, RollbackRoute(h, s)
      PROVE  TypeInv'
  <2> DEFINE t == [pc[h] EXCEPT !.at = "rollback", !.step = s, !.then = "both"]
  <2>a. "rollback" \in Places /\ "both" \in Sequels
    BY DEF Places, Sequels, Deps
  <2>1. t \in Threads /\ t.at = "rollback"
    BY <1>0, <2>a DEF Threads
  <2>2. Become(h, t)
    BY <1>2 DEF RollbackRoute
  <2> HIDE DEF t
  <2>3. pc' \in [Processes -> Threads] /\ RunInHand'
    BY <1>0, <2>1, <2>2, Becomes DEF Handed, HasRun
  <2>4. QED
    BY <1>2, <1>b, <2>3 DEF RollbackRoute, TypeInv, TypeOK
<1>3. ASSUME NEW r \in Runs, SubmitApprove(h, r) \/ SubmitMerge(h, r)
      PROVE  TypeInv'
  <2> DEFINE row == [run[r] EXCEPT !.status = "completed"]
  <2>1. row \in RunRows
    BY <1>r DEF EndedStatuses
  <2>2. EndRun(h, r, row, "completed", "acp") /\ "acp" \in Sequels
    BY <1>3 DEF SubmitApprove, SubmitMerge, Sequels, Deps
  <2> HIDE DEF row
  <2>3. pc' \in [Processes -> Threads] /\ RunInHand' /\ run' \in [Runs -> RunRows]
    BY <1>0, <2>1, <2>2, Ends
  <2>4. budget' \in Nat
    BY <1>3, <1>b DEF SubmitApprove, SubmitMerge, Submittable, TypeInv, TypeOK
  <2>5. pr' \in PullRequests /\ issue' \in IssueStatuses
    <3>1. pr \in PullRequests /\ issue \in IssueStatuses /\ "done" \in IssueStatuses
      BY DEF TypeInv, TypeOK, IssueStatuses
    <3>2. MergedPr \in PullRequests /\ [pr EXCEPT !.accepted = TRUE] \in PullRequests
      BY <3>1 DEF MergedPr, PullRequests
    <3>3. QED
      BY <1>3, <3>1, <3>2 DEF SubmitApprove, SubmitMerge
  <2>6. QED
    BY <1>3, <2>3, <2>4, <2>5 DEF SubmitApprove, SubmitMerge, TypeInv, TypeOK
<1>4. ASSUME NEW r \in Runs, SubmitChanges(h, r)
      PROVE  TypeInv'
  <2> DEFINE t == [pc[h] EXCEPT !.at = "block", !.step = run[r].step,
                                !.outcome = "completed"]
  <2>1. t \in Threads /\ t.at = "block"
    BY <1>0 DEF Threads, Places, RunRows
  <2>2. Become(h, t)
    BY <1>4 DEF SubmitChanges
  <2> HIDE DEF t
  <2>3. pc' \in [Processes -> Threads] /\ RunInHand'
    BY <1>0, <2>1, <2>2, Becomes DEF Handed, HasRun
  <2>4. budget' \in Nat
    BY <1>4, <1>b DEF SubmitChanges, Submittable, TypeInv, TypeOK
  <2>5. run' \in [Runs -> RunRows]
    BY <1>0, <1>4, <1>r DEF SubmitChanges, EndedStatuses
  <2>6. QED
    BY <1>4, <2>3, <2>4, <2>5 DEF SubmitChanges, TypeInv, TypeOK
<1>5. ASSUME NEW r \in Runs, ApproveRead(h, r) \/ RejectRead(h, r)
      PROVE  TypeInv'
  <2>1. PICK place \in {"approving", "rejecting"} : ApprovalRead(h, r, place)
    BY <1>5 DEF ApproveRead, RejectRead
  <2> DEFINE t == [pc[h] EXCEPT !.at = place, !.run = r, !.step = run[r].step]
  <2>2. t \in Threads /\ t.at # "ci" /\ t.run \in Runs
    BY <1>0 DEF Threads, Places, RunRows
  <2>3. Become(h, t)
    BY <2>1 DEF ApprovalRead
  <2> HIDE DEF t
  <2>4. pc' \in [Processes -> Threads] /\ RunInHand'
    BY <1>0, <2>2, <2>3, Becomes DEF Handed
  <2>5. QED
    BY <2>1, <2>4 DEF ApprovalRead, TypeInv, TypeOK
<1>6. ASSUME NEW r \in Runs, Resume(h, r)
      PROVE  TypeInv'
  <2> DEFINE t == [pc[h] EXCEPT !.at = "prompt", !.run = r, !.then = "resume"]
  <2>1. t \in Threads /\ t.at = "prompt" /\ t.run = r
    BY <1>0 DEF Threads, Places, Sequels
  <2>2. Become(h, t)
    BY <1>6 DEF Resume
  <2> HIDE DEF t
  <2>3. pc' \in [Processes -> Threads] /\ RunInHand'
    BY <1>0, <2>1, <2>2, Becomes DEF Handed
  <2>4. QED
    BY <1>6, <1>b, <2>3 DEF Resume, TypeInv, TypeOK
<1>7. ASSUME NEW r \in Runs, NEW passed \in BOOLEAN, CiHook(h, r, passed)
      PROVE  TypeInv'
  <2> DEFINE t == [pc[h] EXCEPT !.at = "ci", !.run = r,
                                !.outcome = IF passed THEN "completed" ELSE "failed"]
  <2>1. t \in Threads /\ t.outcome # "blocked" /\ t.run = r
    BY <1>0 DEF Threads, Places
  <2>2. Become(h, t)
    BY <1>7 DEF CiHook
  <2> HIDE DEF t
  <2>3. pc' \in [Processes -> Threads] /\ RunInHand'
    BY <1>0, <2>1, <2>2, Becomes DEF Handed
  <2>4. QED
    BY <1>7, <2>3 DEF CiHook, TypeInv, TypeOK
<1>8. CASE SyncHook(h)
  <2>s. PICK s \in Steps :
          ReworkStep(s) /\ Become(h, [pc[h] EXCEPT !.at = "rollback", !.step = s])
    BY <1>8 DEF SyncHook
  <2> DEFINE t == [pc[h] EXCEPT !.at = "rollback", !.step = s]
  <2>1. t \in Threads /\ t.at = "rollback"
    BY <1>0 DEF Threads, Places
  <2>2. Become(h, t)
    BY <2>s, <1>8 DEF SyncHook
  <2> HIDE DEF t
  <2>3. pc' \in [Processes -> Threads] /\ RunInHand'
    BY <1>0, <2>1, <2>2, Becomes DEF Handed, HasRun
  <2>4. run' \in [Runs -> RunRows]
    BY <1>8, <1>l DEF SyncHook, TypeInv, TypeOK, PullRequests
  <2>5. QED
    BY <1>8, <1>b, <2>3, <2>4 DEF SyncHook, TypeInv, TypeOK
<1>9. CASE ReviewHook(h)
  <2>1. Goto(h, "blocking")
    BY <1>9 DEF ReviewHook, Goto
  <2>2. pc' \in [Processes -> Threads] /\ RunInHand'
    BY <1>0, <2>1, Goes DEF HasRun, Places
  <2>3. run' \in [Runs -> RunRows]
    BY <1>9, <1>l DEF ReviewHook, TypeInv, TypeOK, PullRequests
  <2>4. QED
    BY <1>9, <1>b, <2>2, <2>3 DEF ReviewHook, TypeInv, TypeOK
<1>10. CASE PrOpenedHook(h)
  <2>1. run' \in [Runs -> RunRows]
    BY <1>10, <1>l DEF PrOpenedHook, TypeInv, TypeOK, PullRequests
  <2>2. QED
    BY <1>10, <2>1 DEF PrOpenedHook, TypeInv, TypeOK, RunInHand
<1>11. CASE PrMergedHook(h)
  <2> DEFINE t == [pc[h] EXCEPT !.at = "hook", !.todo = MergeRuns]
  <2>0. MergeRuns \in SUBSET Runs
    BY DEF MergeRuns
  <2>1. t \in Threads /\ t.at = "hook"
    BY <1>0, <2>0 DEF Threads, Places
  <2>2. Become(h, t)
    BY <1>11 DEF PrMergedHook
  <2> HIDE DEF t
  <2>3. pc' \in [Processes -> Threads] /\ RunInHand'
    BY <1>0, <2>1, <2>2, Becomes DEF Handed, HasRun
  <2>4. run' \in [Runs -> RunRows]
    BY <1>11, <1>l DEF PrMergedHook, TypeInv, TypeOK, PullRequests
  <2>5. budget' \in Nat /\ pr' \in PullRequests
    BY <1>11, <1>b DEF PrMergedHook, TypeInv, TypeOK, PullRequests
  <2>6. QED
    BY <1>11, <2>3, <2>4, <2>5 DEF PrMergedHook, TypeInv, TypeOK
<1>12. QED
  BY <1>1, <1>2, <1>3, <1>4, <1>5, <1>6, <1>7, <1>8, <1>9, <1>10, <1>11 DEF Begin

LEMMA TypeOutside ==
  ASSUME TypeInv, Outside
  PROVE  TypeInv'
<1>0. run \in [Runs -> RunRows] /\ pr \in PullRequests
  BY DEF TypeInv, TypeOK
<1>b. \A kind : Intervene(kind) => budget' \in Nat
  BY DEF Intervene, TypeInv, TypeOK
<1>1. ASSUME NEW r \in Runs, Cancel(r) \/ Complete(r)
      PROVE  TypeInv'
  <2>1. run' \in [Runs -> RunRows]
    BY <1>0, <1>1 DEF Cancel, Complete, RunRows, EndedStatuses
  <2>2. QED
    BY <1>1, <1>b, <2>1 DEF Cancel, Complete, TypeInv, TypeOK, RunInHand, IssueStatuses
<1>2. ASSUME NEW r \in Runs, CreatePrRoute(r)
      PROVE  TypeInv'
  <2>1. run' \in [Runs -> RunRows] /\ pr' \in PullRequests
    <3>1. CASE RequestApproval(r) /\ UNCHANGED pr
      BY <1>0, <3>1 DEF RequestApproval, RunRows, ApprovalStatuses
    <3>2. CASE /\ pr' = OpenedPr
               /\ run' = [run EXCEPT ![r].pr = PrOf(r), ![r].status = "waiting_ci"]
      <4>1. PrOf(r) \in Nat /\ OpenedPr \in PullRequests
        BY Opens
      <4>2. QED
        BY <1>0, <3>2, <4>1 DEF RunRows, ActiveStatuses
    <3>3. QED
      BY <1>2, <3>1, <3>2 DEF CreatePrRoute
  <2>2. QED
    BY <1>2, <1>b, <2>1 DEF CreatePrRoute, TypeInv, TypeOK, RunInHand
<1>3. CASE OpenPrByHand
  BY <1>3, <1>b, Opens DEF OpenPrByHand, TypeInv, TypeOK, RunInHand
<1>4. CASE MergeByHand
  <2>1. pr' \in PullRequests
    BY <1>0, <1>4 DEF MergeByHand, MergedPr, PullRequests
  <2>2. QED
    BY <1>4, <1>b, <2>1 DEF MergeByHand, TypeInv, TypeOK, RunInHand
<1>5. CASE Crash
  BY <1>5, <1>b, IdleThread DEF Crash, TypeInv, TypeOK, RunInHand, Handed, HasRun
<1>6. QED
  BY <1>1, <1>2, <1>3, <1>4, <1>5 DEF Outside

LEMMA TypeInit == Init => TypeInv
<1> SUFFICES ASSUME Init PROVE TypeInv
  OBVIOUS
<1>1. 1 \in Steps
  BY StepsAssumption DEF Steps
<1>2. NoRun \in RunRows
  BY <1>1 DEF NoRun, RunRows, Executors, ApprovalStatuses
<1>3. queue \in Seq(Deps)
  <2>1. "ws" \in Deps
    BY DEF Deps
  <2>2. <<"ws">> \in Seq(Deps) /\ << >> \in Seq(Deps)
    BY <2>1
  <2>3. QED
    BY <2>2 DEF Init
<1>4. RunInHand /\ pc \in [Processes -> Threads]
  BY IdleThread DEF Init, RunInHand, Handed, HasRun
<1>5. pr \in PullRequests
  BY DEF Init, PullRequests
<1>6. QED
  BY <1>1, <1>2, <1>3, <1>4, <1>5, StepsAssumption, BoundsAssumption
     DEF Init, TypeInv, TypeOK, TaskStatuses, StepStatuses, IssueStatuses

LEMMA TypeStep == TypeInv /\ [Next]_vars => TypeInv'
<1> SUFFICES ASSUME TypeInv, [Next]_vars PROVE TypeInv'
  OBVIOUS
<1>1. CASE UNCHANGED vars
  BY <1>1 DEF vars, TypeInv, TypeOK, RunInHand
<1>2. CASE Next
  BY <1>2, TypeAuto, TypeContinue, TypeBegin, TypeOutside DEF Next
<1>3. QED
  BY <1>1, <1>2

\* Every state of every instance is well typed, and a process that acts on a run
\* holds one: the handlers of TaskWorkflow never act on a row that is not there.
THEOREM TypeCorrect == Spec => []TypeInv
BY TypeInit, TypeStep, PTL DEF Spec

\* So the task's current step is one of its steps, and every row has a status the
\* schema knows, whatever interleaves with the handler that wrote it.
THEOREM TypeOKHolds == Spec => []TypeOK
<1>1. TypeInv => TypeOK
  BY DEF TypeInv
<1>2. QED
  BY <1>1, TypeCorrect, PTL

-----------------------------------------------------------------------------
(***************************************************************************)
(* The Run rows of TaskWorkflow are a ledger (RunLedger), however its      *)
(* handlers interleave, whoever intervenes and whenever the backend stops. *)
(* That an ended run is never active again takes an assumption: that users *)
(* leave POST /runs/:id/create-pr alone, the one handler that reopens runs,*)
(* or that a policy makes it ask for an approval instead.                  *)
(***************************************************************************)

NoReopening == "createpr" \in Interventions => PrApproval

NextAttempts(s) == {1} \cup {b + 1 : b \in Attempts(s)}

\* What a process relies on between its read and its write: the rows it holds
\* are there, and the attempt it is about to record still follows another.
Sound(t) ==
  /\ t.at \in HasRun => Used(t.run)
  /\ \A r \in t.todo : Used(r)
  /\ t.at = "create" => t.attempt \in NextAttempts(t.step)

RowsInv ==
  /\ TypeInv
  /\ \A p \in Processes : Sound(pc[p])
  /\ \A r \in Runs : Used(r) \/ run[r].approval = "none"

\* A step leaves row r alone, but for what the ledger does not record ...
Keeps(r) ==
  /\ run'[r].status = run[r].status
  /\ run'[r].step = run[r].step
  /\ run'[r].attempt = run[r].attempt
  /\ Used(r) \/ run'[r].approval = run[r].approval

\* ... or ends it, for the first time or again; only create-pr reopens it.
MovesRow(r) ==
  /\ Used(r)
  /\ \/ run'[r].status \in EndedStatuses
     \/ ~NoReopening /\ run'[r].status \in ActiveStatuses
  /\ run'[r].step = run[r].step
  /\ run'[r].attempt = run[r].attempt

RowStep ==
  \/ \A q \in Runs : Keeps(q)
  \/ \E r \in Runs : MovesRow(r) /\ \A q \in Runs \ {r} : Keeps(q)

-----------------------------------------------------------------------------
\* Rows keep their step and attempt, so whatever was read of them stays right.
LEMMA AttemptsKept ==
  ASSUME RowStep
  PROVE  /\ \A r \in Runs : Used(r)' <=> Used(r)
         /\ \A s : Attempts(s)' = Attempts(s)
<1>1. \A r \in Runs : /\ Used(r)' <=> Used(r)
                      /\ run'[r].step = run[r].step
                      /\ run'[r].attempt = run[r].attempt
  BY DEF RowStep, Keeps, MovesRow, Used, EndedStatuses, ActiveStatuses
<1>2. ASSUME NEW s
      PROVE  Attempts(s)' = Attempts(s)
  BY <1>1 DEF Attempts
<1>3. QED
  BY <1>1, <1>2

LEMMA SoundKept ==
  ASSUME RowsInv, RowStep, TypeInv'
  PROVE  \A t \in Threads : (t.at \in HasRun => t.run \in Runs) /\ Sound(t) => Sound(t)'
<1>1. \A r \in Runs : Used(r)' <=> Used(r)
  BY AttemptsKept
<1>2. \A s : NextAttempts(s)' = NextAttempts(s)
  BY AttemptsKept DEF NextAttempts
<1>3. QED
  BY <1>1, <1>2 DEF Sound, Threads

\* A process that becomes a sound thread leaves every process sound.
LEMMA SoundBecomes ==
  ASSUME RowsInv, RowStep, TypeInv', NEW p \in Processes, NEW t \in Threads,
         Sound(t), t.at \in HasRun => t.run \in Runs, Become(p, t)
  PROVE  RowsInv'
<1>1. \A q \in Processes : /\ pc[q] \in Threads
                           /\ pc[q].at \in HasRun => pc[q].run \in Runs
                           /\ Sound(pc[q])
  BY DEF RowsInv, TypeInv, TypeOK, RunInHand, Handed
<1>2. \A q \in Processes : pc'[q] = IF q = p THEN t ELSE pc[q]
  BY DEF Become, RowsInv, TypeInv, TypeOK
<1>3. \A u \in Threads : (u.at \in HasRun => u.run \in Runs) /\ Sound(u) => Sound(u)'
  BY SoundKept
<1>4. \A q \in Processes : Sound(pc[q])'
  <2> TAKE q \in Processes
  <2>1. PICK u \in Threads : /\ pc'[q] = u
                             /\ u.at \in HasRun => u.run \in Runs
                             /\ Sound(u)
    BY <1>1, <1>2
  <2>2. Sound(u)'
    BY <1>3, <2>1
  <2>3. QED
    BY <2>1, <2>2
<1>5. \A r \in Runs : Used(r)' \/ run'[r].approval = "none"
  BY DEF RowsInv, RowStep, Keeps, MovesRow, Used, EndedStatuses, ActiveStatuses
<1>6. QED
  BY <1>4, <1>5 DEF RowsInv

LEMMA SoundGoes ==
  ASSUME RowsInv, RowStep, TypeInv', NEW p \in Processes,
         NEW place \in Places \ {"create"},
         place \in HasRun => pc[p].at \in HasRun, Goto(p, place)
  PROVE  RowsInv'
<1>1. pc[p] \in Threads /\ Sound(pc[p]) /\ (pc[p].at \in HasRun => pc[p].run \in Runs)
  BY DEF RowsInv, TypeInv, TypeOK, RunInHand, Handed
<1> DEFINE t == [pc[p] EXCEPT !.at = place]
<1>2. t \in Threads /\ t.at = place /\ t.run = pc[p].run /\ t.todo = pc[p].todo
  BY <1>1 DEF Threads
<1>3. Become(p, t)
  BY DEF Goto
<1> HIDE DEF t
<1>4. Sound(t)
  BY <1>1, <1>2 DEF Sound
<1>5. QED
  BY <1>1, <1>2, <1>3, <1>4, SoundBecomes

LEMMA SoundFinishes ==
  ASSUME RowsInv, RowStep, TypeInv', NEW p \in Processes, Finish(p)
  PROVE  RowsInv'
<1>1. Idle \in Threads /\ Idle.at = "idle" /\ Idle.todo = {}
  BY IdleThread DEF Idle
<1>2. Sound(Idle)
  BY <1>1 DEF Sound, HasRun
<1>3. Idle.at \notin HasRun
  BY <1>1 DEF HasRun
<1>4. Become(p, Idle)
  BY DEF Finish
<1>5. QED
  BY <1>1, <1>2, <1>3, <1>4, SoundBecomes

LEMMA SoundReturns ==
  ASSUME RowsInv, RowStep, TypeInv', NEW p \in Processes, Return(p)
  PROVE  RowsInv'
<1>1. CASE Goto(p, "hook")
  BY <1>1, SoundGoes DEF Places, HasRun
<1>2. CASE Goto(p, "automerge")
  BY <1>2, SoundGoes DEF Places, HasRun
<1>3. CASE Finish(p)
  BY <1>3, SoundFinishes
<1>4. QED
  BY <1>1, <1>2, <1>3 DEF Return

\* A process ends a run that is there.
LEMMA SoundEnds ==
  ASSUME RowsInv, TypeInv', NEW p \in Processes, NEW r \in Runs, Used(r),
         NEW row \in RunRows, row.status \in EndedStatuses,
         row.step = run[r].step, row.attempt = run[r].attempt,
         NEW outcome \in {"completed", "failed", "blocked"}, NEW then \in Sequels,
         EndRun(p, r, row, outcome, then)
  PROVE  RowsInv' /\ RowStep
<1>1. pc[p] \in Threads /\ Sound(pc[p])
  BY DEF RowsInv, TypeInv, TypeOK
<1> DEFINE t == [pc[p] EXCEPT !.at = "advance", !.run = r, !.step = row.step,
                              !.outcome = outcome, !.then = then]
<1>2. t \in Threads /\ t.at = "advance" /\ t.todo = pc[p].todo
  BY <1>1 DEF Threads, Places, RunRows
<1>3. Become(p, t) /\ run' = [run EXCEPT ![r] = row]
  BY DEF EndRun
<1> HIDE DEF t
<1>4. RowStep
  BY <1>3 DEF RowStep, MovesRow, Keeps, RowsInv, TypeInv, TypeOK
<1>5. Sound(t) /\ t.at \notin HasRun
  BY <1>1, <1>2 DEF Sound, HasRun
<1>6. QED
  BY <1>2, <1>3, <1>4, <1>5, SoundBecomes

\* A start that found its step ready adds the row behind the last.
LEMMA RowsCreate ==
  ASSUME RowsInv, TypeInv', NEW p \in Processes, StartCreateRun(p)
  PROVE  /\ RowsInv'
         /\ \E r \in Runs :
              /\ \A q \in Runs : Used(q) <=> q < r
              /\ \A q \in Runs \ {r} : run'[q] = run[q]
              /\ run'[r].status \in ActiveStatuses
              /\ run'[r].step = pc[p].step
              /\ run'[r].attempt = pc[p].attempt
<1> DEFINE row == [NoRun EXCEPT !.status   = IF pc[p].exec = "ci" THEN "waiting_ci"
                                             ELSE "running",
                                !.step     = pc[p].step,
                                !.executor = pc[p].exec,
                                !.attempt  = pc[p].attempt,
                                !.branch   = pc[p].branch]
           t(r) == [pc[p] EXCEPT !.at = "created", !.run = r]
<1>1. PICK r \in Runs : /\ \A q \in Runs : Used(q) <=> q < r
                        /\ run' = [run EXCEPT ![r] = row]
                        /\ Become(p, t(r))
  BY DEF StartCreateRun
<1>2. /\ \A q \in Processes : /\ pc[q] \in Threads
                              /\ pc[q].at \in HasRun => pc[q].run \in Runs
                              /\ Sound(pc[q])
      /\ run \in [Runs -> RunRows]
  BY DEF RowsInv, TypeInv, TypeOK, RunInHand, Handed
<1>3. /\ row.status \in ActiveStatuses /\ row.step = pc[p].step
      /\ row.attempt = pc[p].attempt
  BY DEF NoRun, ActiveStatuses
<1>c. "created" \in Places
  BY DEF Places
<1>4. t(r) \in Threads /\ t(r).at = "created" /\ t(r).run = r /\ t(r).todo = pc[p].todo
  BY <1>2, <1>c DEF Threads
<1> HIDE DEF row, t
<1>5. /\ Used(r)'
      /\ \A q \in Runs : Used(q) => Used(q)'
      /\ \A q \in Runs : Used(q) => /\ q # r
                                    /\ run'[q] = run[q]
  BY <1>1, <1>2, <1>3 DEF Used, Runs, ActiveStatuses
<1>6. \A s : Attempts(s) \subseteq Attempts(s)'
  BY <1>5 DEF Attempts
<1>7. \A q \in Processes : pc'[q] = IF q = p THEN t(r) ELSE pc[q]
  BY <1>1 DEF Become, RowsInv, TypeInv, TypeOK
<1>8. \A q \in Processes : Sound(pc[q])'
  <2> TAKE q \in Processes
  <2>1. CASE q = p
    BY <1>2, <1>4, <1>5, <1>7, <2>1 DEF Sound, Threads
  <2>2. CASE q # p
    BY <1>2, <1>5, <1>6, <1>7, <2>2 DEF Sound, Threads, NextAttempts
  <2>3. QED
    BY <2>1, <2>2
<1>9. \A q \in Runs : Used(q)' \/ run'[q].approval = "none"
  BY <1>1, <1>2, <1>5 DEF RowsInv
<1>10. RowsInv'
  BY <1>8, <1>9 DEF RowsInv
<1>11. /\ \A q \in Runs \ {r} : run'[q] = run[q]
       /\ run'[r] = row
  BY <1>1, <1>2
<1>12. QED
  BY <1>1, <1>3, <1>10, <1>11

\* A start adds the next row; whatever else a process does keeps the rows.
LEMMA RowsContinue ==
  ASSUME RowsInv, NEW p \in Processes, Continue(p)
  PROVE  RowsInv' /\ (RowStep \/ StartCreateRun(p))
<1> USE DEF At
<1>t. TypeInv'
  BY TypeContinue DEF RowsInv
<1>0. /\ pc[p] \in Threads
      /\ Sound(pc[p])
      /\ run \in [Runs -> RunRows]
      /\ pc[p].at \in HasRun => pc[p].run \in Runs /\ Used(pc[p].run)
  BY DEF RowsInv, TypeInv, TypeOK, RunInHand, Handed, Sound
<1>s. UNCHANGED run => RowStep
  BY DEF RowStep, Keeps
<1>e. ASSUME pc[p].at \in HasRun, NEW row \in RunRows,
             NEW outcome \in {"completed", "failed", "blocked"},
             NEW then \in Sequels,
             row.status \in EndedStatuses, row.step = run[pc[p].run].step,
             row.attempt = run[pc[p].run].attempt,
             EndRun(p, pc[p].run, row, outcome, then)
      PROVE  RowsInv' /\ RowStep
  BY <1>t, <1>0, <1>e, SoundEnds
<1>1. CASE StartRead(p)
  <2> DEFINE e == IF pc[p].asked = "default" THEN executor[pc[p].step] ELSE pc[p].asked
             t == [pc[p] EXCEPT !.at = "start", !.branch = workspace, !.exec = e]
  <2>0. workspace \in BOOLEAN /\ e \in Executors
    <3>1. pc[p].step \in Steps /\ pc[p].asked \in Executors \cup {"default"}
      BY <1>0 DEF Threads
    <3>2. workspace \in BOOLEAN /\ executor[pc[p].step] \in Executors
      BY <3>1 DEF RowsInv, TypeInv, TypeOK
    <3>3. QED
      BY <3>1, <3>2
  <2>2. Become(p, t) \/ Finish(p)
    BY <1>1 DEF StartRead
  <2> HIDE DEF e
  <2>a. "start" \in Places
    BY DEF Places
  <2>1. t \in Threads /\ t.at = "start" /\ t.todo = pc[p].todo
    BY <1>0, <2>0, <2>a DEF Threads
  <2> HIDE DEF t
  <2>3. RowStep
    BY <1>1, <1>s DEF StartRead
  <2>4. Sound(t) /\ t.at \notin HasRun
    BY <1>0, <2>1 DEF Sound, HasRun
  <2>5. QED
    BY <1>t, <2>1, <2>2, <2>3, <2>4, SoundBecomes, SoundFinishes
<1>2. CASE StartAttempt(p)
  <2>1. PICK a \in Attempts(pc[p].step) \cup {0} :
          Become(p, [pc[p] EXCEPT !.at = "create", !.attempt = a + 1])
    BY <1>2 DEF StartAttempt
  <2> DEFINE n == a + 1
             t == [pc[p] EXCEPT !.at = "create", !.attempt = n]
  <2>2. n \in Nat /\ n \in NextAttempts(pc[p].step)
    BY <1>0 DEF Attempts, RunRows, NextAttempts
  <2>3. Become(p, t)
    BY <2>1
  <2> HIDE DEF n
  <2>4. /\ t \in Threads /\ t.at = "create" /\ t.attempt = n
        /\ t.step = pc[p].step /\ t.todo = pc[p].todo
    BY <1>0, <2>2 DEF Threads, Places
  <2> HIDE DEF t
  <2>5. Sound(t) /\ t.at \notin HasRun
    BY <1>0, <2>2, <2>4 DEF Sound, HasRun
  <2>6. RowStep
    BY <1>2, <1>s DEF StartAttempt
  <2>7. QED
    BY <1>t, <2>3, <2>4, <2>5, <2>6, SoundBecomes
<1>3. CASE StartCreateRun(p)
  BY <1>t, <1>3, RowsCreate
<1>4. CASE StartMoveStep(p)
  BY <1>4, <1>t, <1>s, SoundGoes DEF StartMoveStep, HasRun, Places
<1>5. CASE StartMoveTask(p)
  BY <1>5, <1>t, <1>s, SoundGoes DEF StartMoveTask, HasRun, Places
<1>6. CASE DispatchWait(p)
  BY <1>6, <1>t, <1>s, SoundFinishes DEF DispatchWait
<1>7. CASE DispatchFail(p)
  BY <1>7, <1>0, <1>e DEF DispatchFail, HasRun, RunRows, EndedStatuses, Sequels
<1>8. CASE DispatchCreatePr(p)
  <2> DEFINE row == [run[pc[p].run] EXCEPT !.status = "completed",
                                           !.pr = PrOf(pc[p].run)]
  <2>1. pc[p].at \in HasRun /\ run[pc[p].run] \in RunRows /\ PrOf(pc[p].run) \in Nat
    BY <1>8, <1>0, Opens DEF DispatchCreatePr, HasRun, RowsInv
  <2>2. /\ row \in RunRows
        /\ row.status \in EndedStatuses
        /\ row.step = run[pc[p].run].step
        /\ row.attempt = run[pc[p].run].attempt
    BY <2>1 DEF RunRows, EndedStatuses
  <2>3. EndRun(p, pc[p].run, row, "completed", pc[p].then)
    BY <1>8 DEF DispatchCreatePr
  <2> HIDE DEF row
  <2>4. QED
    BY <1>0, <1>e, <2>1, <2>2, <2>3 DEF Threads
<1>9. CASE DispatchRequestApproval(p)
  <2>1. RowStep
    BY <1>9, <1>0 DEF DispatchRequestApproval, RequestApproval, RowStep, Keeps, HasRun, RunRows
  <2>2. QED
    BY <1>9, <1>t, <2>1, SoundGoes DEF DispatchRequestApproval, HasRun, Places
<1>10. CASE ParkStep(p)
  BY <1>10, <1>t, <1>s, SoundFinishes DEF ParkStep
<1>11. CASE DispatchAgent(p)
  <2>1. RowStep
    BY <1>11, <1>0 DEF DispatchAgent, RowStep, Keeps, HasRun, RunRows
  <2>2. QED
    BY <1>11, <1>t, <2>1, SoundGoes DEF DispatchAgent, HasRun, Places
<1>12. CASE PromptOk(p)
  BY <1>12, <1>t, <1>s, SoundGoes, SoundFinishes DEF PromptOk, HasRun, Places
<1>13. CASE Finalize(p)
  BY <1>13, <1>0, <1>e DEF Finalize, HasRun, RunRows, EndedStatuses, Sequels
<1>14. CASE PromptFail(p)
  <2>1. CASE Finish(p) /\ UNCHANGED run
    BY <2>1, <1>t, <1>s, SoundFinishes
  <2>2. CASE EndRun(p, pc[p].run, [run[pc[p].run] EXCEPT !.status = "failed"],
                    "failed", "none")
    BY <2>2, <1>14, <1>0, <1>e DEF PromptFail, HasRun, RunRows, EndedStatuses, Sequels
  <2>3. QED
    BY <1>14, <2>1, <2>2 DEF PromptFail
<1>15. CASE AdvanceRead(p)
  <2> DEFINE t == [pc[p] EXCEPT !.at = "advanced",
                     !.nextPending = /\ pc[p].step < NSteps
                                     /\ stepStatus[pc[p].step + 1] = "pending"]
  <2>1. t \in Threads /\ Sound(t) /\ t.at \notin HasRun
    BY <1>t, <1>0 DEF Sound, HasRun, Threads, Places
  <2>2. Become(p, t)
    BY <1>15 DEF AdvanceRead
  <2> HIDE DEF t
  <2>3. RowStep
    BY <1>15, <1>s DEF AdvanceRead
  <2>4. QED
    BY <1>t, <2>1, <2>2, <2>3, SoundBecomes
<1>16. CASE AdvanceSteps(p)
  BY <1>16, <1>t, <1>s, SoundGoes DEF AdvanceSteps, HasRun, Places
<1>17. CASE AdvanceTask(p)
  BY <1>17, <1>t, <1>s, SoundReturns DEF AdvanceTask
<1>18. CASE BlockStep(p)
  BY <1>18, <1>t, <1>s, SoundGoes DEF BlockStep, HasRun, Places
<1>19. CASE BlockTask(p)
  BY <1>19, <1>t, <1>s, SoundFinishes DEF BlockTask
<1>20. CASE ApproveClaim(p)
  <2>1. RowStep
    BY <1>20, <1>0 DEF ApproveClaim, RowStep, Keeps, HasRun, RunRows
  <2>2. QED
    BY <1>20, <1>t, <2>1, SoundGoes DEF ApproveClaim, HasRun, Places
<1>21. CASE ApproveExecute(p)
  <2> DEFINE row == [run[pc[p].run] EXCEPT !.status = "completed",
                       !.pr = PrOf(pc[p].run), !.approval = "executed"]
  <2>1. pc[p].at \in HasRun /\ run[pc[p].run] \in RunRows /\ PrOf(pc[p].run) \in Nat
    BY <1>21, <1>0, Opens DEF ApproveExecute, HasRun, RowsInv
  <2>2. /\ row \in RunRows
        /\ row.status \in EndedStatuses
        /\ row.step = run[pc[p].run].step
        /\ row.attempt = run[pc[p].run].attempt
    BY <2>1 DEF RunRows, EndedStatuses, ApprovalStatuses
  <2>3. EndRun(p, pc[p].run, row, "completed", "ws")
    BY <1>21 DEF ApproveExecute
  <2> HIDE DEF row
  <2>4. QED
    BY <1>e, <2>1, <2>2, <2>3 DEF Sequels, Deps
<1>22. CASE ApproveFail(p)
  <2> DEFINE row == [run[pc[p].run] EXCEPT !.status = "failed", !.approval = "failed"]
  <2>1. pc[p].at \in HasRun /\ run[pc[p].run] \in RunRows
    BY <1>22, <1>0 DEF ApproveFail, HasRun
  <2>2. /\ row \in RunRows
        /\ row.status \in EndedStatuses
        /\ row.step = run[pc[p].run].step
        /\ row.attempt = run[pc[p].run].attempt
    BY <2>1 DEF RunRows, EndedStatuses, ApprovalStatuses
  <2>3. EndRun(p, pc[p].run, row, "failed", "none")
    BY <1>22 DEF ApproveFail
  <2> HIDE DEF row
  <2>4. QED
    BY <1>e, <2>1, <2>2, <2>3 DEF Sequels
<1>23. CASE RejectCommit(p)
  <2> DEFINE t == [pc[p] EXCEPT !.at = "block", !.outcome = "blocked"]
  <2>1. t \in Threads /\ Sound(t) /\ t.at \notin HasRun
    BY <1>t, <1>0 DEF Sound, HasRun, Threads, Places
  <2>2. Become(p, t)
    BY <1>23 DEF RejectCommit
  <2> HIDE DEF t
  <2>3. RowStep
    BY <1>23, <1>0 DEF RejectCommit, RowStep, MovesRow, Keeps, HasRun, RunRows, EndedStatuses
  <2>4. QED
    BY <1>t, <2>1, <2>2, <2>3, SoundBecomes
<1>24. CASE CiCommit(p)
  <2>1. pc[p].outcome \in {"completed", "failed"}
    BY <1>24, <1>0 DEF CiCommit, RowsInv, TypeInv, RunInHand, Handed, Threads
  <2>2. QED
    BY <1>24, <1>0, <1>e, <2>1 DEF CiCommit, HasRun, RunRows, EndedStatuses, Sequels
<1>25. CASE AutoMergeOk(p)
  BY <1>25, <1>t, <1>s, SoundFinishes DEF AutoMergeOk
<1>26. CASE AutoMergeFail(p)
  <2>s. PICK s \in Steps :
          ReworkStep(s) /\ Become(p, [pc[p] EXCEPT !.at = "rollback", !.step = s, !.then = "acp"])
    BY <1>26 DEF AutoMergeFail
  <2> DEFINE t == [pc[p] EXCEPT !.at = "rollback", !.step = s, !.then = "acp"]
  <2>0. "acp" \in Sequels
    BY DEF Sequels, Deps
  <2>1. t \in Threads /\ Sound(t) /\ t.at \notin HasRun
    BY <1>t, <1>0, <2>0 DEF Sound, HasRun, Threads, Places
  <2>2. Become(p, t)
    BY <2>s, <1>26 DEF AutoMergeFail
  <2> HIDE DEF t
  <2>3. RowStep
    BY <1>26, <1>s DEF AutoMergeFail
  <2>4. QED
    BY <1>t, <2>1, <2>2, <2>3, SoundBecomes
<1>27. CASE HookNext(p)
  <2> DEFINE row(r) == [run[r] EXCEPT !.status = "completed"]
             t(r) == [pc[p] EXCEPT !.at = "advance", !.run = r, !.step = run[r].step,
                        !.then = "hook", !.outcome = "completed", !.todo = @ \ {r}]
  <2>1. PICK r \in pc[p].todo : /\ run' = [run EXCEPT ![r] = row(r)]
                                /\ Become(p, t(r))
    BY <1>27 DEF HookNext
  <2>2. r \in Runs /\ Used(r) /\ run[r] \in RunRows
    BY <1>0 DEF Threads, Sound
  <2>3. /\ t(r) \in Threads /\ t(r).at = "advance" /\ t(r).todo \subseteq pc[p].todo
        /\ row(r).status = "completed" /\ row(r).step = run[r].step
        /\ row(r).attempt = run[r].attempt
    BY <1>0, <2>2 DEF Threads, Places, RunRows, Sequels
  <2> HIDE DEF row, t
  <2>4. RowStep
    BY <1>0, <2>1, <2>2, <2>3 DEF RowStep, MovesRow, Keeps, EndedStatuses
  <2>5. Sound(t(r)) /\ t(r).at \notin HasRun
    BY <1>0, <2>3 DEF Sound, HasRun
  <2>6. QED
    BY <1>t, <2>1, <2>3, <2>4, <2>5, SoundBecomes
<1>28. CASE HookDone(p)
  <2> DEFINE t == [pc[p] EXCEPT !.at = "advanced", !.step = task.current]
  <2>0. task.current \in Steps
    BY DEF RowsInv, TypeInv, TypeOK
  <2>1. t \in Threads /\ Sound(t) /\ t.at \notin HasRun
    BY <1>t, <1>0, <2>0 DEF Sound, HasRun, Threads, Places
  <2>2. Become(p, t) \/ Finish(p)
    BY <1>28 DEF HookDone
  <2> HIDE DEF t
  <2>3. RowStep
    BY <1>28, <1>s DEF HookDone
  <2>4. QED
    BY <1>t, <2>1, <2>2, <2>3, SoundBecomes, SoundFinishes
<1>29. CASE RollbackSteps(p)
  BY <1>29, <1>t, <1>s, SoundGoes DEF RollbackSteps, HasRun, Places
<1>30. CASE RollbackTask(p)
  BY <1>30, <1>t, <1>s, SoundReturns DEF RollbackTask
<1>31. QED
  BY <1>1, <1>2, <1>3, <1>4, <1>5, <1>6, <1>7, <1>8, <1>9, <1>10, <1>11, <1>12, <1>13, <1>14, <1>15, <1>16, <1>17, <1>18, <1>19, <1>20, <1>21, <1>22, <1>23, <1>24, <1>25, <1>26, <1>27, <1>28, <1>29, <1>30 DEF Continue

LEMMA RowsAuto ==
  ASSUME RowsInv, AutoPick \/ AutoDrop
  PROVE  RowsInv' /\ RowStep
<1>t. TypeInv'
  BY TypeAuto DEF RowsInv
<1>s. RowStep
  BY DEF AutoPick, AutoDrop, RowStep, Keeps
<1>1. CASE AutoPick
  <2> DEFINE t == [Idle EXCEPT !.at = "pick", !.step = task.current,
                               !.then = Head(queue)]
  <2>1. AutoQueue \in Processes
    BY DEF Processes
  <2>2. Head(queue) \in Sequels
    BY <1>1 DEF AutoPick, RowsInv, TypeInv, TypeOK, Sequels
  <2>3. task.current \in Steps
    BY DEF RowsInv, TypeInv, TypeOK
  <2>4. t \in Threads /\ Sound(t) /\ t.at \notin HasRun
    BY <2>2, <2>3, IdleThread DEF Sound, HasRun, Threads, Places, Idle
  <2>5. Become(AutoQueue, t)
    BY <1>1 DEF AutoPick
  <2> HIDE DEF t
  <2>6. QED
    BY <1>s, <1>t, <2>1, <2>4, <2>5, SoundBecomes
<1>2. CASE AutoDrop
  <2>1. AutoQueue \in Processes
    BY DEF Processes
  <2>2. /\ pc[AutoQueue] \in Threads
        /\ Sound(pc[AutoQueue])
        /\ pc[AutoQueue].at \in HasRun => pc[AutoQueue].run \in Runs
    BY <2>1 DEF RowsInv, TypeInv, TypeOK, RunInHand, Handed
  <2>3. Become(AutoQueue, pc[AutoQueue])
    BY <1>2, <2>1 DEF AutoDrop, Become, RowsInv, TypeInv, TypeOK
  <2>4. QED
    BY <1>t, <1>s, <2>1, <2>2, <2>3, SoundBecomes
<1>3. QED
  BY <1>1, <1>2, <1>s

LEMMA RowsBegin ==
  ASSUME RowsInv, NEW h \in Handlers, Begin(h)
  PROVE  RowsInv' /\ RowStep
<1>t. TypeInv'
  BY TypeBegin DEF RowsInv
<1>0. /\ h \in Processes
      /\ pc[h] \in Threads
      /\ Sound(pc[h])
      /\ run \in [Runs -> RunRows]
  BY DEF RowsInv, TypeInv, TypeOK, Processes
<1>s. UNCHANGED run => RowStep
  BY DEF RowStep, Keeps
<1>l. ASSUME NEW n, LinkPr(n)
      PROVE  RowStep
  BY <1>0, <1>l DEF LinkPr, RowStep, Keeps, RunRows
<1>b. ASSUME RowStep, NEW t \in Threads, Sound(t), t.at \notin HasRun, Become(h, t)
      PROVE  RowsInv'
  BY <1>t, <1>0, <1>b, SoundBecomes
<1>1. ASSUME NEW s \in Steps, NEW asked \in Executors \cup {"default"},
             StartRoute(h, s, asked)
      PROVE  RowsInv' /\ RowStep
  <2> DEFINE t == [Idle EXCEPT !.at = "pick", !.step = s, !.asked = asked, !.then = "both"]
  <2>1. t \in Threads /\ Sound(t) /\ t.at \notin HasRun
    BY IdleThread DEF Sound, HasRun, Threads, Places, Idle, Sequels, Deps
  <2>2. Become(h, t) /\ RowStep
    BY <1>1, <1>s DEF StartRoute
  <2> HIDE DEF t
  <2>3. QED
    BY <1>b, <2>1, <2>2
<1>2. ASSUME NEW s \in Steps, RollbackRoute(h, s)
      PROVE  RowsInv' /\ RowStep
  <2> DEFINE t == [pc[h] EXCEPT !.at = "rollback", !.step = s, !.then = "both"]
  <2>a. "rollback" \in Places /\ "both" \in Sequels
    BY DEF Places, Sequels, Deps
  <2>b. t \in Threads /\ t.at = "rollback" /\ t.todo = pc[h].todo
    BY <1>0, <2>a DEF Threads
  <2>1. t \in Threads /\ Sound(t) /\ t.at \notin HasRun
    BY <1>0, <2>b DEF Sound, HasRun
  <2>2. Become(h, t) /\ RowStep
    BY <1>2, <1>s DEF RollbackRoute
  <2> HIDE DEF t
  <2>3. QED
    BY <1>b, <2>1, <2>2
<1>3. ASSUME NEW r \in Runs, SubmitApprove(h, r) \/ SubmitMerge(h, r)
      PROVE  RowsInv' /\ RowStep
  <2> DEFINE row == [run[r] EXCEPT !.status = "completed"]
  <2>1. /\ row \in RunRows /\ row.status \in EndedStatuses
        /\ row.step = run[r].step /\ row.attempt = run[r].attempt
    BY <1>0 DEF RunRows, EndedStatuses
  <2>2. EndRun(h, r, row, "completed", "acp") /\ "acp" \in Sequels /\ Used(r)
    BY <1>3 DEF SubmitApprove, SubmitMerge, Submittable, Sequels, Deps
  <2> HIDE DEF row
  <2>3. QED
    BY <1>t, <1>0, <2>1, <2>2, SoundEnds
<1>4. ASSUME NEW r \in Runs, SubmitChanges(h, r)
      PROVE  RowsInv' /\ RowStep
  <2> DEFINE t == [pc[h] EXCEPT !.at = "block", !.step = run[r].step,
                                !.outcome = "completed"]
  <2>1. t \in Threads /\ Sound(t) /\ t.at \notin HasRun
    BY <1>0 DEF Sound, HasRun, Threads, Places, RunRows
  <2>2. Become(h, t)
    BY <1>4 DEF SubmitChanges
  <2> HIDE DEF t
  <2>3. RowStep
    BY <1>0, <1>4 DEF SubmitChanges, Submittable, RowStep, MovesRow, Keeps, RunRows,
                      EndedStatuses
  <2>4. QED
    BY <1>b, <2>1, <2>2, <2>3
<1>5. ASSUME NEW r \in Runs, ApproveRead(h, r) \/ RejectRead(h, r)
      PROVE  RowsInv' /\ RowStep
  <2>1. PICK place \in {"approving", "rejecting"} : ApprovalRead(h, r, place)
    BY <1>5 DEF ApproveRead, RejectRead
  <2> DEFINE t == [pc[h] EXCEPT !.at = place, !.run = r, !.step = run[r].step]
  <2>2. /\ t \in Threads /\ t.at # "create" /\ t.run = r /\ t.todo = pc[h].todo
    BY <1>0 DEF Threads, Places, RunRows
  <2>3. Become(h, t) /\ RowStep
    BY <2>1, <1>s DEF ApprovalRead
  <2> HIDE DEF t
  <2>4. Used(r)
    BY <2>1 DEF ApprovalRead, RowsInv
  <2>5. Sound(t)
    BY <1>0, <2>2, <2>4 DEF Sound
  <2>6. QED
    BY <1>t, <1>0, <2>2, <2>3, <2>5, SoundBecomes
<1>6. ASSUME NEW r \in Runs, Resume(h, r)
      PROVE  RowsInv' /\ RowStep
  <2> DEFINE t == [pc[h] EXCEPT !.at = "prompt", !.run = r, !.then = "resume"]
  <2>1. /\ t \in Threads /\ t.at = "prompt" /\ t.run = r /\ t.todo = pc[h].todo
    BY <1>0 DEF Threads, Places, Sequels
  <2>2. Become(h, t) /\ RowStep
    BY <1>6, <1>s DEF Resume
  <2> HIDE DEF t
  <2>3. Sound(t)
    BY <1>0, <1>6, <2>1 DEF Resume, Sound, Used
  <2>4. QED
    BY <1>t, <1>0, <2>1, <2>2, <2>3, SoundBecomes
<1>7. ASSUME NEW r \in Runs, NEW passed \in BOOLEAN, CiHook(h, r, passed)
      PROVE  RowsInv' /\ RowStep
  <2> DEFINE t == [pc[h] EXCEPT !.at = "ci", !.run = r,
                                !.outcome = IF passed THEN "completed" ELSE "failed"]
  <2>1. /\ t \in Threads /\ t.at = "ci" /\ t.run = r /\ t.todo = pc[h].todo
    BY <1>0 DEF Threads, Places
  <2>2. Become(h, t) /\ RowStep
    BY <1>7, <1>s DEF CiHook
  <2> HIDE DEF t
  <2>3. Used(r)
    BY <1>7 DEF CiHook, CiRun, WaitingCi, Latest, Used
  <2>4. Sound(t)
    BY <1>0, <2>1, <2>3 DEF Sound
  <2>5. QED
    BY <1>t, <1>0, <2>1, <2>2, <2>4, SoundBecomes
<1>8. CASE SyncHook(h)
  <2>s. PICK s \in Steps :
          ReworkStep(s) /\ Become(h, [pc[h] EXCEPT !.at = "rollback", !.step = s])
    BY <1>8 DEF SyncHook
  <2> DEFINE t == [pc[h] EXCEPT !.at = "rollback", !.step = s]
  <2>1. t \in Threads /\ Sound(t) /\ t.at \notin HasRun
    BY <1>0 DEF Sound, HasRun, Threads, Places
  <2>2. Become(h, t) /\ RowStep
    BY <2>s, <1>8, <1>l DEF SyncHook
  <2> HIDE DEF t
  <2>3. QED
    BY <1>b, <2>1, <2>2
<1>9. CASE ReviewHook(h)
  <2>1. Goto(h, "blocking") /\ RowStep
    BY <1>9, <1>l DEF ReviewHook, Goto
  <2>2. QED
    BY <1>t, <1>0, <2>1, SoundGoes DEF HasRun, Places
<1>10. CASE PrOpenedHook(h)
  <2>1. RowStep /\ UNCHANGED pc
    BY <1>10, <1>l DEF PrOpenedHook
  <2>2. Become(h, pc[h])
    BY <2>1 DEF Become, RowsInv, TypeInv, TypeOK
  <2>3. pc[h].at \in HasRun => pc[h].run \in Runs
    BY <1>0 DEF RowsInv, TypeInv, RunInHand, Handed
  <2>4. QED
    BY <1>t, <1>0, <2>1, <2>2, <2>3, SoundBecomes
<1>11. CASE PrMergedHook(h)
  <2> DEFINE t == [pc[h] EXCEPT !.at = "hook", !.todo = MergeRuns]
  <2>1. /\ MergeRuns \in SUBSET Runs
        /\ \A r \in MergeRuns : Used(r)
    BY DEF MergeRuns, Used
  <2>2. t \in Threads /\ t.at = "hook" /\ t.todo = MergeRuns
    BY <1>0, <2>1 DEF Threads, Places
  <2>3. Become(h, t) /\ RowStep
    BY <1>11, <1>l DEF PrMergedHook
  <2> HIDE DEF t
  <2>4. Sound(t) /\ t.at \notin HasRun
    BY <2>1, <2>2 DEF Sound, HasRun
  <2>5. QED
    BY <1>b, <2>2, <2>3, <2>4
<1>12. QED
  BY <1>1, <1>2, <1>3, <1>4, <1>5, <1>6, <1>7, <1>8, <1>9, <1>10, <1>11 DEF Begin

LEMMA RowsOutside ==
  ASSUME RowsInv, Outside
  PROVE  RowsInv' /\ RowStep
<1>t. TypeInv'
  BY TypeOutside DEF RowsInv
<1>0. run \in [Runs -> RunRows]
  BY DEF RowsInv, TypeInv, TypeOK
<1>s. UNCHANGED run => RowStep
  BY DEF RowStep, Keeps
<1>p. ASSUME RowStep, UNCHANGED pc
      PROVE  RowsInv'
  <2>1. AutoQueue \in Processes
    BY DEF Processes
  <2>2. /\ pc[AutoQueue] \in Threads
        /\ Sound(pc[AutoQueue])
        /\ pc[AutoQueue].at \in HasRun => pc[AutoQueue].run \in Runs
        /\ Become(AutoQueue, pc[AutoQueue])
    BY <1>p, <2>1 DEF Become, RowsInv, TypeInv, TypeOK, RunInHand, Handed
  <2>3. QED
    BY <1>t, <1>p, <2>1, <2>2, SoundBecomes
<1>1. ASSUME NEW r \in Runs, Cancel(r) \/ Complete(r)
      PROVE  RowsInv' /\ RowStep
  <2>1. RowStep
    BY <1>0, <1>1 DEF Cancel, Complete, RowStep, MovesRow, Keeps, RunRows, EndedStatuses
  <2>2. QED
    BY <1>1, <1>p, <2>1 DEF Cancel, Complete
<1>2. ASSUME NEW r \in Runs, CreatePrRoute(r)
      PROVE  RowsInv' /\ RowStep
  <2>1. CASE PrApproval
    <3>1. RowStep
      BY <1>0, <1>2, <2>1 DEF RequestApproval, CreatePrRoute, RowStep, Keeps, RunRows
    <3>2. QED
      BY <1>2, <1>p, <3>1 DEF CreatePrRoute
  <2>2. CASE ~PrApproval
    <3>1. ~NoReopening
      BY <1>2, <2>2 DEF CreatePrRoute, Intervene, NoReopening
    <3>2. RowStep
      BY <1>0, <1>2, <2>2, <3>1 DEF CreatePrRoute, RowStep, Keeps, MovesRow, RunRows,
                                    ActiveStatuses
    <3>3. QED
      BY <1>2, <1>p, <3>2 DEF CreatePrRoute
  <2>3. QED
    BY <1>2, <2>1, <2>2 DEF CreatePrRoute
<1>3. CASE OpenPrByHand \/ MergeByHand
  BY <1>3, <1>s, <1>p DEF OpenPrByHand, MergeByHand
<1>4. CASE Crash
  <2>1. RowStep
    BY <1>4, <1>s DEF Crash
  <2>2. Idle.at = "idle" /\ Idle.todo = {}
    BY DEF Idle
  <2>3. \A p \in Processes : Sound(pc[p])'
    BY <1>4, <2>2 DEF Crash, Sound, HasRun
  <2>4. QED
    BY <1>t, <1>4, <2>1, <2>3 DEF Crash, RowsInv, Used
<1>5. QED
  BY <1>1, <1>2, <1>3, <1>4 DEF Outside

LEMMA RowsInit == Init => RowsInv
<1> SUFFICES ASSUME Init PROVE RowsInv
  OBVIOUS
<1>1. Idle.at = "idle" /\ Idle.todo = {}
  BY DEF Idle
<1>2. \A p \in Processes : Sound(pc[p])
  BY <1>1 DEF Init, Sound, HasRun
<1>3. \A r \in Runs : run[r].approval = "none"
  BY DEF Init, NoRun
<1>4. QED
  BY <1>2, <1>3, TypeInit DEF RowsInv

LEMMA RowsStep ==
  ASSUME RowsInv, [Next]_vars
  PROVE  /\ RowsInv'
         /\ RowStep \/ \E p \in Processes : StartCreateRun(p)
<1>1. CASE UNCHANGED vars
  BY <1>1 DEF vars, RowsInv, TypeInv, TypeOK, RunInHand, Handed, Sound, Used, Attempts,
              NextAttempts, RowStep, Keeps
<1>2. CASE Next
  BY <1>2, RowsAuto, RowsContinue, RowsBegin, RowsOutside DEF Next
<1>3. QED
  BY <1>1, <1>2

\* Every attempt that is recorded follows another one that is, or is the first.
LEMMA RowsCorrect == Spec => []RowsInv
<1>1. RowsInv /\ [Next]_vars => RowsInv'
  BY RowsStep
<1>2. QED
  BY <1>1, RowsInit, PTL DEF Spec
-----------------------------------------------------------------------------
(* The refinement of RunLedger.                                              *)

Row(r) == [state   |-> IF run[r].status = "none" THEN "none"
                       ELSE IF run[r].status \in ActiveStatuses THEN "open"
                       ELSE "ended",
           step    |-> run[r].step,
           attempt |-> run[r].attempt]

Rows == [r \in Runs |-> Row(r)]

LEMMA RowStates ==
  ASSUME TypeInv, NEW r \in Runs
  PROVE  /\ Row(r).state = "none" <=> ~Used(r)
         /\ Row(r).state = "open" <=> run[r].status \in ActiveStatuses
         /\ Row(r).state = "ended" <=> run[r].status \in EndedStatuses
         /\ Row(r).step = run[r].step
         /\ Row(r).attempt = run[r].attempt
BY DEF Row, Used, ActiveStatuses, EndedStatuses, TypeInv, TypeOK, RunRows

LEMMA LedgerInit == Init => Ledger!Init
BY DEF Init, NoRun, Ledger!Init, Ledger!Runs, Runs

LEMMA LedgerCreate ==
  ASSUME RowsInv, TypeInv', NEW p \in Processes, StartCreateRun(p)
  PROVE  Ledger!Next
<1>1. PICK r \in Runs :
        /\ \A q \in Runs : Used(q) <=> q < r
        /\ \A q \in Runs \ {r} : run'[q] = run[q]
        /\ run'[r].status \in ActiveStatuses
        /\ run'[r].step = pc[p].step
        /\ run'[r].attempt = pc[p].attempt
  BY RowsCreate
<1>2. PICK s \in Steps : s = pc[p].step /\ pc[p].attempt \in NextAttempts(s)
  BY DEF StartCreateRun, At, RowsInv, TypeInv, TypeOK, Threads, Sound
<1>3. Ledger!Attempts(s) = Attempts(s)
  BY DEF Ledger!Attempts, Ledger!Runs, Attempts, Runs, Used, ActiveStatuses
<1>4. Row(r)' = [state |-> "open", step |-> s, attempt |-> pc[p].attempt]
  BY <1>1, <1>2 DEF Row, ActiveStatuses
<1>5. \A q \in Runs \ {r} : Row(q)' = Row(q)
  BY <1>1 DEF Row
<1>6. Rows' = [Rows EXCEPT ![r] = [state |-> "open", step |-> s,
                                   attempt |-> pc[p].attempt]]
  BY <1>4, <1>5 DEF Rows
<1>7. \A q \in Runs : Rows[q].state # "none" <=> q < r
  BY <1>1, RowStates DEF Rows, RowsInv
<1>8. Ledger!Create(r, s)
  BY <1>1, <1>2, <1>3, <1>6, <1>7
     DEF Ledger!Create, Ledger!Runs, Runs, NextAttempts, Rows, Row
<1>9. QED
  BY <1>2, <1>8 DEF Ledger!Next, Ledger!Runs, Runs

LEMMA LedgerKeeps ==
  ASSUME NoReopening, RowsInv, TypeInv', RowStep
  PROVE  Ledger!Next \/ UNCHANGED Rows
<1>1. ASSUME NEW q \in Runs, Keeps(q)
      PROVE  Row(q)' = Row(q)
  BY <1>1 DEF Row, Keeps
<1>2. ASSUME NEW r \in Runs, MovesRow(r), \A q \in Runs \ {r} : Keeps(q)
      PROVE  Ledger!Next \/ UNCHANGED Rows
  <2>1. /\ Row(r)' = [Row(r) EXCEPT !.state = "ended"]
        /\ Row(r).state \in {"open", "ended"}
    <3>1. /\ run'[r].status \in EndedStatuses
          /\ run'[r].step = run[r].step
          /\ run'[r].attempt = run[r].attempt
      BY <1>2 DEF MovesRow
    <3>2. Row(r)' = [state |-> "ended", step |-> run[r].step, attempt |-> run[r].attempt]
      BY <3>1 DEF Row, EndedStatuses, ActiveStatuses
    <3>3. Row(r).state \in {"open", "ended"}
      BY <1>2 DEF MovesRow, Row, Used
    <3>4. QED
      BY <3>2, <3>3 DEF Row
  <2>2. Rows' = [Rows EXCEPT ![r].state = "ended"]
    BY <1>1, <1>2, <2>1 DEF Rows
  <2>3. CASE Row(r).state = "open"
    <3>1. Ledger!End(r)
      BY <2>2, <2>3 DEF Ledger!End, Rows, Row
    <3>2. QED
      BY <3>1 DEF Ledger!Next, Ledger!Runs, Runs
  <2>4. CASE Row(r).state = "ended"
    <3>1. Row(r)' = Row(r)
      BY <2>1, <2>4 DEF Row
    <3>2. QED
      BY <1>1, <1>2, <3>1 DEF Rows
  <2>5. QED
    BY <2>1, <2>3, <2>4
<1>3. CASE \A q \in Runs : Keeps(q)
  BY <1>1, <1>3 DEF Rows
<1>4. QED
  BY <1>2, <1>3 DEF RowStep

\* The Run rows implement the ledger: rows are added one behind the other, keep
\* their step and attempt, and a run that ended is never active again - whatever
\* handler comes late, twice, or after a restart.
THEOREM LedgerKept ==
  ASSUME NoReopening
  PROVE  Spec => KeepsLedger
<1>1. RowsInv /\ [Next]_vars => RowsInv'
  BY RowsStep
<1>2. RowsInv /\ RowsInv' /\ [Next]_vars => [Ledger!Next]_Rows
  <2> SUFFICES ASSUME RowsInv, RowsInv', [Next]_vars
               PROVE  Ledger!Next \/ UNCHANGED Rows
    OBVIOUS
  <2>2. RowStep \/ \E p \in Processes : StartCreateRun(p)
    BY RowsStep
  <2>3. QED
    BY <2>2, LedgerCreate, LedgerKeeps DEF RowsInv
<1>3. QED
  BY <1>1, <1>2, RowsInit, LedgerInit, PTL DEF Spec, KeepsLedger, Ledger!Spec, Rows, Row

-----------------------------------------------------------------------------
LEMMA AttemptsStep ==
  ASSUME RowsInv, AttemptsContiguous, [Next]_vars
  PROVE  AttemptsContiguous'
<1>1. CASE RowStep
  BY <1>1, AttemptsKept DEF AttemptsContiguous
<1>2. ASSUME NEW p \in Processes, StartCreateRun(p)
      PROVE  AttemptsContiguous'
  <2>1. PICK r \in Runs :
          /\ \A q \in Runs : Used(q) <=> q < r
          /\ \A q \in Runs \ {r} : run'[q] = run[q]
          /\ run'[r].status \in ActiveStatuses
          /\ run'[r].step = pc[p].step
          /\ run'[r].attempt = pc[p].attempt
    <3>1. TypeInv'
      BY RowsStep DEF RowsInv
    <3>2. QED
      BY <1>2, <3>1, RowsCreate
  <2>2. PICK a \in NextAttempts(pc[p].step) : a = pc[p].attempt
    BY <1>2 DEF StartCreateRun, At, RowsInv, TypeInv, TypeOK, Threads, Sound
  <2>3. /\ ~Used(r) /\ Used(r)'
        /\ \A q \in Runs \ {r} : Used(q)' <=> Used(q)
    BY <2>1 DEF Used, ActiveStatuses, Runs
  <2>4. \A s \in Steps : Attempts(s)' = IF s = pc[p].step THEN Attempts(s) \cup {a}
                                        ELSE Attempts(s)
    BY <2>1, <2>2, <2>3 DEF Attempts
  <2>5. \A s \in Steps : Attempts(s) \subseteq Nat
    BY DEF Attempts, RowsInv, TypeInv, TypeOK, RunRows
  <2>6. QED
    BY <2>2, <2>4, <2>5 DEF AttemptsContiguous, NextAttempts
<1>3. QED
  BY <1>1, <1>2, RowsStep

\* Whatever interleaves with the two reads and the write of startStep, the attempts
\* recorded for a step are 1, 2, ... up to the last one.
THEOREM AttemptsCorrect == Spec => []AttemptsContiguous
<1>1. Init => AttemptsContiguous
  BY DEF Init, AttemptsContiguous, Attempts, Used, NoRun
<1>2. RowsInv /\ AttemptsContiguous /\ [Next]_vars => AttemptsContiguous'
  BY AttemptsStep
<1>3. QED
  BY <1>1, <1>2, RowsCorrect, PTL DEF Spec

-----------------------------------------------------------------------------
(* No step is over without a run of it that ended, however late a handler    *)
(* writes: between the run it ended and the step it closes anything may be   *)
(* rolled back, restarted, cancelled or resubmitted.  The argument: what     *)
(* makes a step over is never taken back (as runs are a ledger, and a merge  *)
(* stays a merge), and every process that is about to close a step has made  *)
(* it over before.                                                           *)

\* What entitles a step to be over: a run of it that ended, or the merge.
Over(s) ==
  \/ \E r \in Runs : run[r].step = s /\ run[r].status \in EndedStatuses
  \/ Kind[s] = "pr.merge" /\ pr.merged # 0

Closing == {"advance", "advanced", "moved", "block"}

\* What a process relies on when it closes a step: the run it ended, the merge it
\* was told of, and that the run of a rejected approval is of the step it read.
Entitled(t) ==
  /\ t.at \in Closing => Over(t.step)
  /\ t.at = "hook" \/ t.then = "hook" => pr.merged # 0
  /\ t.at = "rejecting" => run[t.run].step = t.step

EndsInv ==
  /\ RowsInv
  /\ StepEndsWithRun
  /\ \A p \in Processes : Entitled(pc[p])
  /\ pr.open => pr.number # 0

\* The same of the state after a step.
OverThen(s) ==
  \/ \E r \in Runs : run'[r].step = s /\ run'[r].status \in EndedStatuses
  \/ Kind[s] = "pr.merge" /\ pr'.merged # 0

EntitledThen(t) ==
  /\ t.at \in Closing => OverThen(t.step)
  /\ t.at = "hook" \/ t.then = "hook" => pr'.merged # 0
  /\ t.at = "rejecting" => run'[t.run].step = t.step

StepsThen ==
  \A s \in Steps : stepStatus'[s] \in {"completed", "failed", "blocked"} => OverThen(s)

EndsThen == StepsThen /\ \A q \in Processes : EntitledThen(pc'[q])

\* Nothing that entitled a step to be over is taken back.
Onward ==
  /\ \A r \in Runs : Used(r) =>
       /\ run'[r].step = run[r].step
       /\ run[r].status \in EndedStatuses => run'[r].status \in EndedStatuses
  /\ pr.merged # 0 => pr'.merged # 0
  /\ pr.accepted => pr'.accepted

-----------------------------------------------------------------------------
(* Pull requests: what was merged, or accepted for it, stays so.             *)

PrStep ==
  \/ pr' = pr
  \/ pr' = OpenedPr
  \/ pr.open /\ pr' = MergedPr
  \/ pr' = [pr EXCEPT !.told = TRUE]
  \/ pr' = [pr EXCEPT !.accepted = TRUE]

LEMMA PrContinue ==
  ASSUME NEW p \in Processes, Continue(p)
  PROVE  PrStep
<1>1. CASE DispatchCreatePr(p) \/ ApproveExecute(p)
  BY <1>1 DEF DispatchCreatePr, ApproveExecute, CreatedPr, PrStep
<1>2. CASE AutoMergeOk(p)
  BY <1>2 DEF AutoMergeOk, PrStep
<1>3. CASE \/ StartRead(p) \/ StartAttempt(p) \/ StartCreateRun(p) \/ StartMoveStep(p)
           \/ StartMoveTask(p)
  BY <1>3 DEF StartRead, StartAttempt, StartCreateRun, StartMoveStep, StartMoveTask, PrStep
<1>4. CASE \/ DispatchWait(p) \/ DispatchFail(p) \/ DispatchRequestApproval(p)
           \/ ParkStep(p) \/ DispatchAgent(p) \/ PromptOk(p) \/ Finalize(p)
           \/ PromptFail(p)
  BY <1>4 DEF DispatchWait, DispatchFail, DispatchRequestApproval, ParkStep,
              DispatchAgent, PromptOk, Finalize, PromptFail, PrStep
<1>5. CASE \/ AdvanceRead(p) \/ AdvanceSteps(p) \/ AdvanceTask(p) \/ BlockStep(p)
           \/ BlockTask(p) \/ RollbackSteps(p) \/ RollbackTask(p)
  BY <1>5 DEF AdvanceRead, AdvanceSteps, AdvanceTask, BlockStep, BlockTask,
              RollbackSteps, RollbackTask, PrStep
<1>6. CASE \/ ApproveClaim(p) \/ ApproveFail(p) \/ RejectCommit(p) \/ CiCommit(p)
           \/ AutoMergeFail(p) \/ HookNext(p) \/ HookDone(p)
  BY <1>6 DEF ApproveClaim, ApproveFail, RejectCommit, CiCommit, AutoMergeFail,
              HookNext, HookDone, PrStep
<1>7. QED
  BY <1>1, <1>2, <1>3, <1>4, <1>5, <1>6 DEF Continue

LEMMA PrBegin ==
  ASSUME NEW h \in Handlers, Begin(h)
  PROVE  PrStep
<1>1. ASSUME NEW r \in Runs, SubmitMerge(h, r)
      PROVE  PrStep
  BY <1>1 DEF SubmitMerge, PrStep
<1>2. CASE PrMergedHook(h)
  BY <1>2 DEF PrMergedHook, PrStep
<1>3. CASE SyncHook(h) \/ ReviewHook(h) \/ PrOpenedHook(h)
  BY <1>3 DEF SyncHook, ReviewHook, PrOpenedHook, PrStep
<1>4. ASSUME NEW s \in Steps, RollbackRoute(h, s)
      PROVE  PrStep
  BY <1>4 DEF RollbackRoute, PrStep
<1>5. ASSUME NEW s \in Steps, NEW asked \in Executors \cup {"default"},
             StartRoute(h, s, asked)
      PROVE  PrStep
  BY <1>5 DEF StartRoute, PrStep
<1>6. ASSUME NEW r \in Runs,
             \/ SubmitApprove(h, r) \/ SubmitChanges(h, r)
             \/ ApproveRead(h, r) \/ RejectRead(h, r) \/ Resume(h, r)
      PROVE  PrStep
  BY <1>6 DEF SubmitApprove, SubmitChanges, ApproveRead, RejectRead, ApprovalRead,
              Resume, PrStep
<1>7. ASSUME NEW r \in Runs, NEW passed \in BOOLEAN, CiHook(h, r, passed)
      PROVE  PrStep
  BY <1>7 DEF CiHook, PrStep
<1>8. QED
  BY <1>1, <1>2, <1>3, <1>4, <1>5, <1>6, <1>7 DEF Begin

LEMMA PrOutside ==
  ASSUME Outside
  PROVE  PrStep
<1>1. CASE \E r \in Runs : Cancel(r) \/ Complete(r)
  BY <1>1 DEF Cancel, Complete, PrStep
<1>2. CASE \E r \in Runs : CreatePrRoute(r)
  BY <1>2 DEF CreatePrRoute, PrStep
<1>3. CASE OpenPrByHand \/ MergeByHand \/ Crash
  BY <1>3 DEF OpenPrByHand, MergeByHand, Crash, PrStep
<1>4. QED
  BY <1>1, <1>2, <1>3 DEF Outside

LEMMA PrNext ==
  ASSUME [Next]_vars
  PROVE  PrStep
<1>1. CASE AutoPick \/ AutoDrop
  BY <1>1 DEF AutoPick, AutoDrop, PrStep
<1>2. CASE UNCHANGED vars
  BY <1>2 DEF vars, PrStep
<1>3. QED
  BY <1>1, <1>2, PrContinue, PrBegin, PrOutside DEF Next

LEMMA PrKept ==
  ASSUME pr \in PullRequests, pr.open => pr.number # 0, PrStep
  PROVE  /\ pr.merged # 0 => pr'.merged # 0
         /\ pr.accepted => pr'.accepted
         /\ pr'.open => pr'.number # 0
<1>1. CASE pr' = OpenedPr
  <2>1. pr' = [pr EXCEPT !.number = pr.number + 1, !.open = TRUE]
    BY <1>1 DEF OpenedPr
  <2>2. /\ pr'.number = pr.number + 1
        /\ pr'.merged = pr.merged
        /\ pr'.accepted = pr.accepted
    BY <2>1 DEF PullRequests
  <2>3. pr.number + 1 # 0
    BY DEF PullRequests
  <2>4. QED
    BY <2>2, <2>3
<1>2. CASE pr.open /\ pr' = MergedPr
  BY <1>2 DEF MergedPr, PullRequests
<1>3. CASE pr' = [pr EXCEPT !.told = TRUE] \/ pr' = [pr EXCEPT !.accepted = TRUE]
  BY <1>3 DEF PullRequests
<1>4. CASE pr' = pr
  BY <1>4
<1>5. QED
  BY <1>1, <1>2, <1>3, <1>4 DEF PrStep
-----------------------------------------------------------------------------
LEMMA OnwardNext ==
  ASSUME NoReopening, EndsInv, [Next]_vars
  PROVE  Onward /\ (pr'.open => pr'.number # 0)
<1>1. pr \in PullRequests
  BY DEF EndsInv, RowsInv, TypeInv, TypeOK
<1>2. /\ pr.merged # 0 => pr'.merged # 0
      /\ pr.accepted => pr'.accepted
      /\ pr'.open => pr'.number # 0
  BY <1>1, PrNext, PrKept DEF EndsInv
<1>3. ASSUME NEW r \in Runs, Used(r)
      PROVE  /\ run'[r].step = run[r].step
             /\ run[r].status \in EndedStatuses => run'[r].status \in EndedStatuses
  <2>1. CASE RowStep
    BY <1>3, <2>1 DEF RowStep, Keeps, MovesRow
  <2>2. ASSUME NEW p \in Processes, StartCreateRun(p)
        PROVE  run'[r] = run[r]
    <3>1. TypeInv'
      BY RowsStep DEF EndsInv, RowsInv
    <3>2. PICK n \in Runs : /\ \A q \in Runs : Used(q) <=> q < n
                            /\ \A q \in Runs \ {n} : run'[q] = run[q]
      BY <2>2, <3>1, RowsCreate DEF EndsInv
    <3>3. r # n
      BY <1>3, <3>2 DEF Runs
    <3>4. QED
      BY <3>2, <3>3
  <2>3. QED
    BY <2>1, <2>2, RowsStep DEF EndsInv
<1>4. QED
  BY <1>2, <1>3 DEF Onward

LEMMA OverStays ==
  ASSUME Onward
  PROVE  \A s : Over(s) => OverThen(s)
<1>1. \A r \in Runs : run[r].status \in EndedStatuses =>
        /\ run'[r].step = run[r].step
        /\ run'[r].status \in EndedStatuses
  BY DEF Onward, Used, EndedStatuses
<1>2. QED
  BY <1>1 DEF Over, OverThen, Onward

LEMMA EntitledStays ==
  ASSUME EndsInv, Onward, NEW q \in Processes
  PROVE  EntitledThen(pc[q])
<1>1. /\ Entitled(pc[q])
      /\ pc[q].at = "rejecting" => pc[q].run \in Runs /\ Used(pc[q].run)
  BY DEF EndsInv, RowsInv, TypeInv, RunInHand, Handed, Sound, HasRun
<1>2. QED
  BY <1>1, OverStays DEF Entitled, EntitledThen, Onward
-----------------------------------------------------------------------------
(* A step of one process, which becomes an entitled thread and leaves the    *)
(* steps alone or closes one it is entitled to close.                        *)

LEMMA StepsStay ==
  ASSUME EndsInv, Onward, UNCHANGED stepStatus
  PROVE  StepsThen
BY OverStays DEF EndsInv, StepEndsWithRun, Over, StepsThen

LEMMA EndsBecomes ==
  ASSUME EndsInv, Onward, NEW p \in Processes, NEW t, Become(p, t), EntitledThen(t),
         StepsThen
  PROVE  EndsThen
<1>1. \A q \in Processes : pc'[q] = IF q = p THEN t ELSE pc[q]
  BY DEF Become, EndsInv, RowsInv, TypeInv, TypeOK
<1>2. QED
  BY <1>1, EntitledStays DEF EndsThen

LEMMA EndsGoes ==
  ASSUME EndsInv, Onward, NEW p \in Processes, NEW place \in Places \ {"rejecting"},
         place \in Closing => pc[p].at \in Closing,
         place = "hook" => pc[p].then = "hook",
         Goto(p, place), StepsThen
  PROVE  EndsThen
<1>1. pc[p] \in Threads /\ EntitledThen(pc[p])
  BY EntitledStays DEF EndsInv, RowsInv, TypeInv, TypeOK
<1> DEFINE t == [pc[p] EXCEPT !.at = place]
<1>2. t.at = place /\ t.step = pc[p].step /\ t.then = pc[p].then
  BY <1>1 DEF Threads
<1>3. Become(p, t)
  BY DEF Goto
<1> HIDE DEF t
<1>4. EntitledThen(t)
  BY <1>1, <1>2 DEF EntitledThen
<1>5. QED
  BY <1>3, <1>4, EndsBecomes

LEMMA EndsFinishes ==
  ASSUME EndsInv, Onward, NEW p \in Processes, Finish(p), StepsThen
  PROVE  EndsThen
<1>1. EntitledThen(Idle)
  BY DEF Idle, EntitledThen, Closing
<1>2. QED
  BY <1>1, EndsBecomes DEF Finish

LEMMA EndsReturns ==
  ASSUME EndsInv, Onward, NEW p \in Processes, Return(p), StepsThen
  PROVE  EndsThen
<1>1. CASE pc[p].then = "hook" /\ Goto(p, "hook")
  BY <1>1, EndsGoes DEF Places, Closing
<1>2. CASE Goto(p, "automerge")
  BY <1>2, EndsGoes DEF Places, Closing
<1>3. CASE Finish(p)
  BY <1>3, EndsFinishes
<1>4. QED
  BY <1>1, <1>2, <1>3 DEF Return

\* A process that ends a run is entitled to close its step.
LEMMA EndsEnds ==
  ASSUME EndsInv, Onward, NEW p \in Processes, NEW r \in Runs,
         NEW row, row.status \in EndedStatuses, NEW outcome,
         NEW then, then = "hook" => pc[p].then = "hook",
         EndRun(p, r, row, outcome, then), UNCHANGED stepStatus
  PROVE  EndsThen
<1>1. pc[p] \in Threads /\ EntitledThen(pc[p]) /\ run \in [Runs -> RunRows]
  BY EntitledStays DEF EndsInv, RowsInv, TypeInv, TypeOK
<1> DEFINE t == [pc[p] EXCEPT !.at = "advance", !.run = r, !.step = row.step,
                              !.outcome = outcome, !.then = then]
<1>2. t.at = "advance" /\ t.step = row.step /\ t.then = then
  BY <1>1 DEF Threads
<1>3. Become(p, t) /\ run'[r] = row
  BY <1>1 DEF EndRun
<1> HIDE DEF t
<1>4. EntitledThen(t)
  BY <1>1, <1>2, <1>3 DEF EntitledThen, OverThen
<1>5. QED
  BY <1>3, <1>4, StepsStay, EndsBecomes
-----------------------------------------------------------------------------
LEMMA EndsContinue ==
  ASSUME EndsInv, Onward, NEW p \in Processes, Continue(p)
  PROVE  EndsThen
<1> USE DEF At
<1>0. /\ pc[p] \in Threads
      /\ Entitled(pc[p])
      /\ EntitledThen(pc[p])
      /\ pc[p].at \in HasRun => pc[p].run \in Runs
      /\ run \in [Runs -> RunRows]
      /\ stepStatus \in [Steps -> StepStatuses]
  BY EntitledStays DEF EndsInv, RowsInv, TypeInv, TypeOK, RunInHand, Handed
<1>s. UNCHANGED stepStatus => StepsThen
  BY StepsStay
<1>o. \A s \in Steps :
        stepStatus[s] \in {"completed", "failed", "blocked"} => OverThen(s)
  BY OverStays DEF EndsInv, StepEndsWithRun, Over
<1>g. ASSUME StepsThen, NEW place \in Places \ (Closing \cup {"rejecting", "hook"}),
             Goto(p, place)
      PROVE  EndsThen
  BY <1>g, EndsGoes
<1>e. ASSUME NEW r \in Runs, NEW row, row.status \in EndedStatuses, NEW outcome,
             NEW then, then = "hook" => pc[p].then = "hook",
             EndRun(p, r, row, outcome, then), UNCHANGED stepStatus
      PROVE  EndsThen
  BY <1>e, EndsEnds
<1>1. CASE StartRead(p)
  <2> DEFINE t == [pc[p] EXCEPT !.at = "start", !.branch = workspace,
                     !.exec = IF pc[p].asked = "default" THEN executor[pc[p].step]
                                                         ELSE pc[p].asked]
  <2>1. t.at = "start" /\ t.then = pc[p].then
    BY <1>0 DEF Threads
  <2>2. Become(p, t) \/ Finish(p)
    BY <1>1 DEF StartRead
  <2>3. StepsThen
    BY <1>1, <1>s DEF StartRead
  <2> HIDE DEF t
  <2>4. EntitledThen(t)
    BY <1>0, <2>1 DEF EntitledThen, Closing
  <2>5. QED
    BY <2>2, <2>3, <2>4, EndsBecomes, EndsFinishes
<1>2. CASE StartAttempt(p)
  <2>1. PICK a \in Attempts(pc[p].step) \cup {0} :
          Become(p, [pc[p] EXCEPT !.at = "create", !.attempt = a + 1])
    BY <1>2 DEF StartAttempt
  <2> DEFINE t == [pc[p] EXCEPT !.at = "create", !.attempt = a + 1]
  <2>2. t.at = "create" /\ t.then = pc[p].then
    BY <1>0 DEF Threads
  <2>3. Become(p, t) /\ StepsThen
    BY <1>2, <1>s, <2>1 DEF StartAttempt
  <2> HIDE DEF t
  <2>4. EntitledThen(t)
    BY <1>0, <2>2 DEF EntitledThen, Closing
  <2>5. QED
    BY <2>3, <2>4, EndsBecomes
<1>3. CASE StartCreateRun(p)
  <2>1. PICK r \in Runs : Become(p, [pc[p] EXCEPT !.at = "created", !.run = r])
    BY <1>3 DEF StartCreateRun
  <2> DEFINE t == [pc[p] EXCEPT !.at = "created", !.run = r]
  <2>2. t.at = "created" /\ t.then = pc[p].then
    BY <1>0 DEF Threads
  <2>3. Become(p, t) /\ StepsThen
    BY <1>3, <1>s, <2>1 DEF StartCreateRun
  <2> HIDE DEF t
  <2>4. EntitledThen(t)
    BY <1>0, <2>2 DEF EntitledThen, Closing
  <2>5. QED
    BY <2>3, <2>4, EndsBecomes
<1>4. CASE StartMoveStep(p)
  <2>1. StepsThen
    BY <1>4, <1>0, <1>o DEF StartMoveStep, StepsThen
  <2>2. QED
    BY <1>4, <1>g, <2>1 DEF StartMoveStep, Places, Closing
<1>5. CASE StartMoveTask(p)
  BY <1>5, <1>s, <1>g DEF StartMoveTask, Places, Closing
<1>6. CASE DispatchWait(p)
  BY <1>6, <1>s, EndsFinishes DEF DispatchWait
<1>7. CASE DispatchFail(p)
  BY <1>7, <1>0, <1>e DEF DispatchFail, HasRun, RunRows, EndedStatuses
<1>8. CASE DispatchCreatePr(p)
  <2> DEFINE row == [run[pc[p].run] EXCEPT !.status = "completed",
                                           !.pr = PrOf(pc[p].run)]
  <2>1. pc[p].run \in Runs /\ row.status \in EndedStatuses
    BY <1>8, <1>0 DEF DispatchCreatePr, HasRun, RunRows, EndedStatuses
  <2>2. EndRun(p, pc[p].run, row, "completed", pc[p].then) /\ UNCHANGED stepStatus
    BY <1>8 DEF DispatchCreatePr
  <2> HIDE DEF row
  <2>3. QED
    BY <1>e, <2>1, <2>2
<1>9. CASE DispatchRequestApproval(p)
  BY <1>9, <1>s, <1>g DEF DispatchRequestApproval, Places, Closing
<1>10. CASE ParkStep(p)
  <2>1. StepsThen
    BY <1>10, <1>0, <1>o DEF ParkStep, StepsThen
  <2>2. QED
    BY <1>10, <2>1, EndsFinishes DEF ParkStep
<1>11. CASE DispatchAgent(p)
  BY <1>11, <1>s, <1>g DEF DispatchAgent, Places, Closing
<1>12. CASE PromptOk(p)
  BY <1>12, <1>s, <1>g, EndsFinishes DEF PromptOk, Places, Closing
<1>13. CASE Finalize(p)
  BY <1>13, <1>0, <1>e DEF Finalize, HasRun, RunRows, EndedStatuses
<1>14. CASE PromptFail(p)
  <2>1. CASE Finish(p)
    BY <1>14, <2>1, <1>s, EndsFinishes DEF PromptFail
  <2>2. CASE EndRun(p, pc[p].run, [run[pc[p].run] EXCEPT !.status = "failed"],
                    "failed", "none")
    BY <2>2, <1>14, <1>0, <1>e DEF PromptFail, HasRun, RunRows, EndedStatuses
  <2>3. QED
    BY <1>14, <2>1, <2>2 DEF PromptFail
<1>15. CASE AdvanceRead(p)
  <2> DEFINE t == [pc[p] EXCEPT !.at = "advanced",
                     !.nextPending = /\ pc[p].step < NSteps
                                     /\ stepStatus[pc[p].step + 1] = "pending"]
  <2>1. t.at = "advanced" /\ t.step = pc[p].step /\ t.then = pc[p].then
    BY <1>0 DEF Threads
  <2>2. Become(p, t) /\ StepsThen /\ pc[p].at \in Closing
    BY <1>15, <1>s DEF AdvanceRead, Closing
  <2> HIDE DEF t
  <2>3. EntitledThen(t)
    BY <1>0, <2>1, <2>2 DEF EntitledThen, Closing
  <2>4. QED
    BY <2>2, <2>3, EndsBecomes
<1>16. CASE AdvanceSteps(p)
  <2>1. OverThen(pc[p].step)
    BY <1>16, <1>0 DEF AdvanceSteps, EntitledThen, Closing
  <2>2. \A s \in Steps \ {pc[p].step} : stepStatus'[s] \in {"ready", stepStatus[s]}
    BY <1>16 DEF AdvanceSteps
  <2>3. StepsThen
    BY <1>o, <2>1, <2>2 DEF StepsThen
  <2>4. QED
    BY <1>16, <2>3, EndsGoes DEF AdvanceSteps, Places, Closing
<1>17. CASE AdvanceTask(p)
  BY <1>17, <1>s, EndsReturns DEF AdvanceTask
<1>18. CASE BlockStep(p)
  <2>1. OverThen(pc[p].step)
    BY <1>18, <1>0 DEF BlockStep, EntitledThen, Closing
  <2>2. \A s \in Steps \ {pc[p].step} : stepStatus'[s] = stepStatus[s]
    BY <1>18, <1>0 DEF BlockStep
  <2>3. StepsThen
    BY <1>o, <2>1, <2>2 DEF StepsThen
  <2>4. QED
    BY <1>18, <1>g, <2>3 DEF BlockStep, Places, Closing
<1>19. CASE BlockTask(p)
  BY <1>19, <1>s, EndsFinishes DEF BlockTask
<1>20. CASE ApproveClaim(p)
  BY <1>20, <1>s, <1>g DEF ApproveClaim, Places, Closing
<1>21. CASE ApproveExecute(p)
  <2> DEFINE row == [run[pc[p].run] EXCEPT !.status = "completed",
                       !.pr = PrOf(pc[p].run), !.approval = "executed"]
  <2>1. pc[p].run \in Runs /\ row.status \in EndedStatuses
    BY <1>21, <1>0 DEF ApproveExecute, HasRun, RunRows, EndedStatuses
  <2>2. EndRun(p, pc[p].run, row, "completed", "ws") /\ UNCHANGED stepStatus
    BY <1>21 DEF ApproveExecute
  <2> HIDE DEF row
  <2>3. QED
    BY <1>e, <2>1, <2>2
<1>22. CASE ApproveFail(p)
  <2> DEFINE row == [run[pc[p].run] EXCEPT !.status = "failed", !.approval = "failed"]
  <2>1. pc[p].run \in Runs /\ row.status \in EndedStatuses
    BY <1>22, <1>0 DEF ApproveFail, HasRun, RunRows, EndedStatuses
  <2>2. EndRun(p, pc[p].run, row, "failed", "none") /\ UNCHANGED stepStatus
    BY <1>22 DEF ApproveFail
  <2> HIDE DEF row
  <2>3. QED
    BY <1>e, <2>1, <2>2
<1>23. CASE RejectCommit(p)
  <2> DEFINE t == [pc[p] EXCEPT !.at = "block", !.outcome = "blocked"]
  <2>1. t.at = "block" /\ t.step = pc[p].step /\ t.then = pc[p].then
    BY <1>0 DEF Threads
  <2>2. Become(p, t) /\ StepsThen
    BY <1>23, <1>s DEF RejectCommit
  <2>3. pc[p].run \in Runs /\ run[pc[p].run].step = pc[p].step
    BY <1>23, <1>0 DEF RejectCommit, HasRun, Entitled
  <2>4. OverThen(pc[p].step)
    BY <1>23, <1>0, <2>3 DEF RejectCommit, OverThen, RunRows, EndedStatuses
  <2> HIDE DEF t
  <2>5. EntitledThen(t)
    BY <1>0, <2>1, <2>4 DEF EntitledThen, Closing
  <2>6. QED
    BY <2>2, <2>5, EndsBecomes
<1>24. CASE CiCommit(p)
  <2>1. pc[p].outcome \in {"completed", "failed"}
    BY <1>24, <1>0 DEF CiCommit, EndsInv, RowsInv, TypeInv, RunInHand, Handed, Threads
  <2>2. QED
    BY <1>24, <1>0, <1>e, <2>1 DEF CiCommit, HasRun, RunRows, EndedStatuses
<1>25. CASE AutoMergeOk(p)
  BY <1>25, <1>s, EndsFinishes DEF AutoMergeOk
<1>26. CASE AutoMergeFail(p)
  <2>s. PICK s \in Steps :
          ReworkStep(s) /\ Become(p, [pc[p] EXCEPT !.at = "rollback", !.step = s, !.then = "acp"])
    BY <1>26 DEF AutoMergeFail
  <2> DEFINE t == [pc[p] EXCEPT !.at = "rollback", !.step = s, !.then = "acp"]
  <2>1. t.at = "rollback" /\ t.then = "acp"
    BY <1>0 DEF Threads
  <2>2. Become(p, t) /\ StepsThen
    BY <2>s, <1>26, <1>s DEF AutoMergeFail
  <2> HIDE DEF t
  <2>3. EntitledThen(t)
    BY <2>1 DEF EntitledThen, Closing
  <2>4. QED
    BY <2>2, <2>3, EndsBecomes
<1>27. CASE HookNext(p)
  <2>1. PICK r \in pc[p].todo :
          /\ run' = [run EXCEPT ![r].status = "completed"]
          /\ Become(p, [pc[p] EXCEPT !.at = "advance", !.run = r, !.step = run[r].step,
                               !.then = "hook", !.outcome = "completed", !.todo = @ \ {r}])
    BY <1>27 DEF HookNext
  <2> DEFINE t == [pc[p] EXCEPT !.at = "advance", !.run = r, !.step = run[r].step,
                               !.then = "hook", !.outcome = "completed", !.todo = @ \ {r}]
  <2>2. t.at = "advance" /\ t.step = run[r].step /\ r \in Runs
    BY <1>0 DEF Threads
  <2>3. OverThen(run[r].step)
    BY <1>0, <2>1, <2>2 DEF OverThen, RunRows, EndedStatuses
  <2>4. pr'.merged # 0
    BY <1>27, <1>0 DEF HookNext, EntitledThen
  <2>5. Become(p, t) /\ StepsThen
    BY <1>27, <1>s, <2>1 DEF HookNext
  <2> HIDE DEF t
  <2>6. EntitledThen(t)
    BY <2>2, <2>3, <2>4 DEF EntitledThen, Closing
  <2>7. QED
    BY <2>5, <2>6, EndsBecomes
<1>28. CASE HookDone(p)
  <2>1. CASE Finish(p)
    BY <1>28, <2>1, <1>s, EndsFinishes DEF HookDone
  <2>2. CASE ~Finish(p)
    <3> DEFINE t == [pc[p] EXCEPT !.at = "advanced", !.step = task.current]
    <3>1. t.at = "advanced" /\ t.step = task.current /\ t.then = pc[p].then
      BY <1>0 DEF Threads
    <3>2. Kind[task.current] = "pr.merge" /\ Become(p, t) /\ StepsThen
      BY <1>28, <2>2, <1>s DEF HookDone
    <3>3. pr'.merged # 0
      BY <1>28, <1>0 DEF HookDone, EntitledThen
    <3> HIDE DEF t
    <3>4. EntitledThen(t)
      BY <3>1, <3>2, <3>3 DEF EntitledThen, OverThen, Closing
    <3>5. QED
      BY <3>2, <3>4, EndsBecomes
  <2>3. QED
    BY <2>1, <2>2
<1>29. CASE RollbackSteps(p)
  <2>1. StepsThen
    BY <1>29, <1>o DEF RollbackSteps, StepsThen
  <2>2. QED
    BY <1>29, <1>g, <2>1 DEF RollbackSteps, Places, Closing
<1>30. CASE RollbackTask(p)
  BY <1>30, <1>s, EndsReturns DEF RollbackTask
<1>31. QED
  BY <1>1, <1>2, <1>3, <1>4, <1>5, <1>6, <1>7, <1>8, <1>9, <1>10, <1>11, <1>12, <1>13, <1>14, <1>15, <1>16, <1>17, <1>18, <1>19, <1>20, <1>21, <1>22, <1>23, <1>24, <1>25, <1>26, <1>27, <1>28, <1>29, <1>30 DEF Continue

LEMMA EndsAuto ==
  ASSUME EndsInv, Onward, AutoPick \/ AutoDrop
  PROVE  EndsThen
<1>1. AutoQueue \in Processes
  BY DEF Processes
<1>2. StepsThen
  BY StepsStay DEF AutoPick, AutoDrop
<1>3. CASE AutoPick
  <2> DEFINE t == [Idle EXCEPT !.at = "pick", !.step = task.current,
                               !.then = Head(queue)]
  <2>1. Head(queue) \in Deps
    BY <1>3 DEF AutoPick, EndsInv, RowsInv, TypeInv, TypeOK
  <2>2. t.at = "pick" /\ t.then # "hook"
    BY <2>1 DEF Idle, Deps
  <2>3. Become(AutoQueue, t)
    BY <1>3 DEF AutoPick
  <2> HIDE DEF t
  <2>4. EntitledThen(t)
    BY <2>2 DEF EntitledThen, Closing
  <2>5. QED
    BY <1>1, <1>2, <2>3, <2>4, EndsBecomes
<1>4. CASE AutoDrop
  BY <1>2, <1>4, EntitledStays DEF AutoDrop, EndsThen
<1>5. QED
  BY <1>3, <1>4

LEMMA EndsBegin ==
  ASSUME EndsInv, Onward, NEW h \in Handlers, Begin(h)
  PROVE  EndsThen
<1>0. /\ h \in Processes
      /\ pc[h] \in Threads
      /\ EntitledThen(pc[h])
      /\ run \in [Runs -> RunRows]
  BY EntitledStays DEF EndsInv, RowsInv, TypeInv, TypeOK, Processes
<1>s. UNCHANGED stepStatus => StepsThen
  BY StepsStay
<1>b. ASSUME NEW t, UNCHANGED stepStatus, Become(h, t), EntitledThen(t)
      PROVE  EndsThen
  BY <1>0, <1>s, <1>b, EndsBecomes
<1>1. ASSUME NEW s \in Steps, NEW asked \in Executors \cup {"default"},
             StartRoute(h, s, asked)
      PROVE  EndsThen
  <2> DEFINE t == [Idle EXCEPT !.at = "pick", !.step = s, !.asked = asked, !.then = "both"]
  <2>1. t.at = "pick" /\ t.then = "both"
    BY DEF Idle
  <2>2. Become(h, t) /\ UNCHANGED stepStatus
    BY <1>1 DEF StartRoute
  <2> HIDE DEF t
  <2>3. QED
    BY <1>b, <2>1, <2>2 DEF EntitledThen, Closing
<1>2. ASSUME NEW s \in Steps, RollbackRoute(h, s)
      PROVE  EndsThen
  <2> DEFINE t == [pc[h] EXCEPT !.at = "rollback", !.step = s, !.then = "both"]
  <2>1. t.at = "rollback" /\ t.then = "both"
    BY <1>0 DEF Threads
  <2>2. Become(h, t) /\ UNCHANGED stepStatus
    BY <1>2 DEF RollbackRoute
  <2> HIDE DEF t
  <2>3. QED
    BY <1>b, <2>1, <2>2 DEF EntitledThen, Closing
<1>3. ASSUME NEW r \in Runs, SubmitApprove(h, r) \/ SubmitMerge(h, r)
      PROVE  EndsThen
  <2> DEFINE row == [run[r] EXCEPT !.status = "completed"]
  <2>1. row.status \in EndedStatuses
    BY <1>0 DEF RunRows, EndedStatuses
  <2>2. EndRun(h, r, row, "completed", "acp") /\ UNCHANGED stepStatus
    BY <1>3 DEF SubmitApprove, SubmitMerge
  <2> HIDE DEF row
  <2>3. QED
    BY <1>0, <2>1, <2>2, EndsEnds
<1>4. ASSUME NEW r \in Runs, SubmitChanges(h, r)
      PROVE  EndsThen
  <2> DEFINE t == [pc[h] EXCEPT !.at = "block", !.step = run[r].step,
                                !.outcome = "completed"]
  <2>1. t.at = "block" /\ t.step = run[r].step /\ t.then = pc[h].then
    BY <1>0 DEF Threads
  <2>2. Become(h, t) /\ UNCHANGED stepStatus
    BY <1>4 DEF SubmitChanges
  <2> HIDE DEF t
  <2>3. OverThen(run[r].step)
    BY <1>0, <1>4 DEF SubmitChanges, OverThen, RunRows, EndedStatuses
  <2>4. QED
    BY <1>0, <1>b, <2>1, <2>2, <2>3 DEF EntitledThen, Closing
<1>5. ASSUME NEW r \in Runs, ApproveRead(h, r) \/ RejectRead(h, r)
      PROVE  EndsThen
  <2>1. PICK place \in {"approving", "rejecting"} : ApprovalRead(h, r, place)
    BY <1>5 DEF ApproveRead, RejectRead
  <2> DEFINE t == [pc[h] EXCEPT !.at = place, !.run = r, !.step = run[r].step]
  <2>2. t.at = place /\ t.run = r /\ t.step = run[r].step /\ t.then = pc[h].then
    BY <1>0 DEF Threads
  <2>3. Become(h, t) /\ UNCHANGED <<stepStatus, run>>
    BY <2>1 DEF ApprovalRead
  <2> HIDE DEF t
  <2>4. QED
    BY <1>0, <1>b, <2>1, <2>2, <2>3 DEF EntitledThen, Closing
<1>6. ASSUME NEW r \in Runs, Resume(h, r)
      PROVE  EndsThen
  <2> DEFINE t == [pc[h] EXCEPT !.at = "prompt", !.run = r, !.then = "resume"]
  <2>1. t.at = "prompt" /\ t.then = "resume"
    BY <1>0 DEF Threads
  <2>2. Become(h, t) /\ UNCHANGED stepStatus
    BY <1>6 DEF Resume
  <2> HIDE DEF t
  <2>3. QED
    BY <1>b, <2>1, <2>2 DEF EntitledThen, Closing
<1>7. ASSUME NEW r \in Runs, NEW passed \in BOOLEAN, CiHook(h, r, passed)
      PROVE  EndsThen
  <2> DEFINE t == [pc[h] EXCEPT !.at = "ci", !.run = r,
                                !.outcome = IF passed THEN "completed" ELSE "failed"]
  <2>1. t.at = "ci" /\ t.then = pc[h].then
    BY <1>0 DEF Threads
  <2>2. Become(h, t) /\ UNCHANGED stepStatus
    BY <1>7 DEF CiHook
  <2> HIDE DEF t
  <2>3. QED
    BY <1>0, <1>b, <2>1, <2>2 DEF EntitledThen, Closing
<1>8. CASE SyncHook(h)
  <2>s. PICK s \in Steps :
          ReworkStep(s) /\ Become(h, [pc[h] EXCEPT !.at = "rollback", !.step = s])
    BY <1>8 DEF SyncHook
  <2> DEFINE t == [pc[h] EXCEPT !.at = "rollback", !.step = s]
  <2>1. t.at = "rollback" /\ t.then = pc[h].then
    BY <1>0 DEF Threads
  <2>2. Become(h, t) /\ UNCHANGED stepStatus
    BY <2>s, <1>8 DEF SyncHook
  <2> HIDE DEF t
  <2>3. QED
    BY <1>0, <1>b, <2>1, <2>2 DEF EntitledThen, Closing
<1>9. CASE ReviewHook(h)
  <2>1. Goto(h, "blocking") /\ StepsThen
    BY <1>9, <1>s DEF ReviewHook, Goto
  <2>2. QED
    BY <1>0, <2>1, EndsGoes DEF Places, Closing
<1>10. CASE PrOpenedHook(h)
  BY <1>10, <1>s, EntitledStays DEF PrOpenedHook, EndsThen
<1>11. CASE PrMergedHook(h)
  <2> DEFINE t == [pc[h] EXCEPT !.at = "hook", !.todo = MergeRuns]
  <2>1. t.at = "hook" /\ t.then = pc[h].then
    BY <1>0 DEF Threads
  <2>2. Become(h, t) /\ UNCHANGED stepStatus
    BY <1>11 DEF PrMergedHook
  <2>3. pr'.merged # 0
    BY <1>11 DEF PrMergedHook, Onward
  <2> HIDE DEF t
  <2>4. QED
    BY <1>0, <1>b, <2>1, <2>2, <2>3 DEF EntitledThen, Closing
<1>12. QED
  BY <1>1, <1>2, <1>3, <1>4, <1>5, <1>6, <1>7, <1>8, <1>9, <1>10, <1>11 DEF Begin

LEMMA EndsOutside ==
  ASSUME EndsInv, Onward, Outside
  PROVE  EndsThen
<1>1. UNCHANGED stepStatus
  BY DEF Outside, Cancel, Complete, CreatePrRoute, OpenPrByHand, MergeByHand, Crash
<1>2. StepsThen
  BY <1>1, StepsStay
<1>3. CASE UNCHANGED pc
  BY <1>2, <1>3, EntitledStays DEF EndsThen
<1>4. CASE Crash
  <2>1. \A q \in Processes : pc'[q] = Idle
    BY <1>4 DEF Crash
  <2>2. EntitledThen(Idle)
    BY DEF Idle, EntitledThen, Closing
  <2>3. QED
    BY <1>2, <2>1, <2>2 DEF EndsThen
<1>5. QED
  BY <1>3, <1>4 DEF Outside, Cancel, Complete, CreatePrRoute, OpenPrByHand, MergeByHand

LEMMA EndsStep ==
  ASSUME NoReopening, EndsInv, [Next]_vars
  PROVE  EndsInv'
<1>1. Onward /\ (pr'.open => pr'.number # 0)
  BY OnwardNext
<1>2. EndsThen
  <2>1. CASE UNCHANGED vars
    BY <1>1, <2>1, StepsStay, EntitledStays DEF vars, EndsThen
  <2>2. CASE Next
    BY <1>1, <2>2, EndsAuto, EndsContinue, EndsBegin, EndsOutside DEF Next
  <2>3. QED
    BY <2>1, <2>2
<1>3. RowsInv'
  BY RowsStep DEF EndsInv
<1>4. StepEndsWithRun'
  BY <1>2 DEF EndsThen, StepsThen, OverThen, StepEndsWithRun
<1>5. \A q \in Processes : Entitled(pc[q])'
  BY <1>2 DEF EndsThen, EntitledThen, OverThen, Entitled, Over
<1>6. QED
  BY <1>1, <1>3, <1>4, <1>5 DEF EndsInv

LEMMA EndsInit == Init => EndsInv
<1> SUFFICES ASSUME Init PROVE EndsInv
  OBVIOUS
<1>1. StepEndsWithRun
  BY DEF Init, StepEndsWithRun
<1>2. \A p \in Processes : Entitled(pc[p])
  BY DEF Init, Idle, Entitled, Closing
<1>3. ~pr.open
  BY DEF Init
<1>4. QED
  BY <1>1, <1>2, <1>3, RowsInit DEF EndsInv

\* A step is over only when a run of it has ended, or its pull request is merged,
\* however late the handler writes that closes it and whatever was rolled back,
\* cancelled, resubmitted or started again meanwhile.
THEOREM StepEndsWithRunHolds ==
  ASSUME NoReopening
  PROVE  Spec => []StepEndsWithRun
<1>1. EndsInv /\ [Next]_vars => EndsInv'
  BY EndsStep
<1>2. EndsInv => StepEndsWithRun
  BY DEF EndsInv
<1>3. QED
  BY <1>1, <1>2, EndsInit, PTL DEF Spec

-----------------------------------------------------------------------------
(* An issue is done only by a merge, or by the answer to one.  It takes two   *)
(* assumptions: that people merge (no template gives a merge step to anybody *)
(* else, but a start may ask for another executor), and that nobody calls    *)
(* create-pr for a run of the merge step, which the approval or the CI would *)
(* then complete.                                                            *)

PeopleMerge ==
  /\ "createpr" \notin Interventions
  /\ Overrides \subseteq {"human"}
  /\ \A s \in Steps : Kind[s] = "pr.merge" => TemplateExecutor[s] = "human"

\* Runs of a merge step wait for a person, and for nothing else.
Waits(row) ==
  row.status # "none" /\ Kind[row.step] = "pr.merge" =>
    row.executor = "human" /\ row.status # "waiting_ci" /\ row.approval = "none" /\ ~row.bound
MergeRunsWait == \A r \in Runs : Waits(run[r])
Merging(r) == Kind[run[r].step] = "pr.merge"

\* The SCM merged a pull request, or took the request to without an error.
Answered     == pr.merged # 0 \/ pr.accepted
AnsweredThen == pr'.merged # 0 \/ pr'.accepted

\* What a process knows of the merge step: who executes it, that the run it holds is not
\* one of it, and that what it is about to complete is merged.
Starting == {"start", "create", "created", "stepped", "dispatch"}
Knows(t) ==
  /\ t.asked \in {"default", "human"}
  /\ t.at \in Starting /\ Kind[t.step] = "pr.merge" => t.exec = "human"
  /\ t.at \in {"created", "stepped", "dispatch"} => run[t.run].step = t.step
  /\ t.at \in {"prompt", "finalize", "approving", "executing", "rejecting", "ci"} =>
       ~Merging(t.run)
  /\ /\ t.at \in {"advance", "advanced", "moved"} /\ t.outcome = "completed"
     /\ Kind[t.step] = "pr.merge"
     => Answered
  /\ t.outcome = "blocked" => t.at \in {"block", "blocking"}

DoneInv ==
  /\ EndsInv
  /\ \A s \in Steps : Kind[s] = "pr.merge" => executor[s] = "human"
  /\ MergeRunsWait
  /\ \A p \in Processes : Knows(pc[p])
  /\ DoneOnlyByMerge

KnowsThen(t) ==
  /\ t.asked \in {"default", "human"}
  /\ t.at \in Starting /\ Kind[t.step] = "pr.merge" => t.exec = "human"
  /\ t.at \in {"created", "stepped", "dispatch"} => run'[t.run].step = t.step
  /\ t.at \in {"prompt", "finalize", "approving", "executing", "rejecting", "ci"} =>
       Kind[run'[t.run].step] # "pr.merge"
  /\ /\ t.at \in {"advance", "advanced", "moved"} /\ t.outcome = "completed"
     /\ Kind[t.step] = "pr.merge"
     => AnsweredThen
  /\ t.outcome = "blocked" => t.at \in {"block", "blocking"}
KnowAll == \A q \in Processes : KnowsThen(pc'[q])

DoneThen == issue' = "done" => AnsweredThen
PeopleThen == \A s \in Steps : Kind[s] = "pr.merge" => executor'[s] = "human"
MergesThen == KnowAll /\ DoneThen /\ PeopleThen /\ MergeRunsWait'

LEMMA KnowsStays ==
  ASSUME DoneInv, Onward, NEW q \in Processes
  PROVE  /\ KnowsThen(pc[q]) /\ Knows(pc[q]) /\ pc[q] \in Threads
         /\ pc[q].at \in HasRun => pc[q].run \in Runs /\ Used(pc[q].run)
<1>1. /\ Knows(pc[q]) /\ pc[q] \in Threads
      /\ pc[q].at \in HasRun => pc[q].run \in Runs /\ Used(pc[q].run)
  BY DEF DoneInv, EndsInv, RowsInv, TypeInv, TypeOK, RunInHand, Handed, Sound
<1>2. QED
  BY <1>1 DEF Knows, KnowsThen, Onward, Merging, HasRun, Answered, AnsweredThen

LEMMA KnowsBecomes ==
  ASSUME DoneInv, Onward, NEW p \in Processes, NEW t, Become(p, t), KnowsThen(t)
  PROVE  KnowAll
<1>1. \A q \in Processes : pc'[q] = IF q = p THEN t ELSE pc[q]
  BY DEF Become, DoneInv, EndsInv, RowsInv, TypeInv, TypeOK
<1>2. QED
  BY <1>1, KnowsStays DEF KnowAll

HoldsRun == {"prompt", "finalize", "approving", "executing", "rejecting", "ci"}
LEMMA KnowsGoes ==
  ASSUME DoneInv, Onward, NEW p \in Processes, NEW place, Goto(p, place),
         place \in Starting => pc[p].at \in Starting,
         place \in {"created", "stepped", "dispatch"} =>
           pc[p].at \in {"created", "stepped", "dispatch"},
         place \in HoldsRun => Kind[run'[pc[p].run].step] # "pr.merge",
         place \in {"advance", "advanced", "moved"} =>
           pc[p].at \in {"advance", "advanced", "moved"},
         pc[p].at = "block" => place = "blocking", pc[p].at # "blocking"
  PROVE  KnowAll
<1> DEFINE t == [pc[p] EXCEPT !.at = place]
<1>1. pc[p] \in Threads /\ KnowsThen(pc[p])
  BY KnowsStays
<1>2. /\ t.at = place /\ t.step = pc[p].step /\ t.run = pc[p].run /\ t.asked = pc[p].asked
      /\ t.exec = pc[p].exec /\ t.outcome = pc[p].outcome
  BY <1>1 DEF Threads
<1>3. Become(p, t)
  BY DEF Goto
<1> HIDE DEF t
<1>4. KnowsThen(t)
  BY <1>1, <1>2 DEF KnowsThen, HoldsRun
<1>5. QED
  BY <1>3, <1>4, KnowsBecomes

LEMMA KnowsFinishes ==
  ASSUME DoneInv, Onward, NEW p \in Processes, Finish(p)
  PROVE  KnowAll
<1>1. KnowsThen(Idle)
  BY DEF Idle, KnowsThen, Starting
<1>2. QED
  BY <1>1, KnowsBecomes DEF Finish

LEMMA KnowsReturns ==
  ASSUME DoneInv, Onward, NEW p \in Processes, Return(p), pc[p].at \in {"moved", "rolling"}
  PROVE  KnowAll
<1>1. CASE Goto(p, "hook") \/ Goto(p, "automerge")
  BY <1>1, KnowsGoes DEF Starting, HoldsRun
<1>2. CASE Finish(p)
  BY <1>2, KnowsFinishes
<1>3. QED
  BY <1>1, <1>2 DEF Return

\* A process that ends a run knows whether that is the merge.
LEMMA KnowsEnds ==
  ASSUME DoneInv, Onward, NEW p \in Processes, NEW r \in Runs, NEW row \in RunRows,
         NEW outcome, NEW then, EndRun(p, r, row, outcome, then), Waits(row),
         outcome = "completed" /\ Kind[row.step] = "pr.merge" => AnsweredThen,
         outcome # "blocked"
  PROVE  KnowAll /\ MergeRunsWait'
<1> DEFINE t == [pc[p] EXCEPT !.at = "advance", !.run = r, !.step = row.step,
                              !.outcome = outcome, !.then = then]
<1>1. pc[p] \in Threads /\ KnowsThen(pc[p])
  BY KnowsStays
<1>2. t.at = "advance" /\ t.step = row.step /\ t.outcome = outcome /\ t.asked = pc[p].asked
  BY <1>1 DEF Threads
<1>3. Become(p, t) /\ run' = [run EXCEPT ![r] = row]
  BY DEF EndRun
<1> HIDE DEF t
<1>4. KnowsThen(t)
  BY <1>1, <1>2 DEF KnowsThen, Starting
<1>5. MergeRunsWait'
  BY <1>3 DEF DoneInv, EndsInv, RowsInv, TypeInv, TypeOK, MergeRunsWait, Waits
<1>6. QED
  BY <1>3, <1>4, <1>5, KnowsBecomes

\* A row that is changed in what does not matter, or is of another step.
LEMMA RowsWait ==
  ASSUME DoneInv,
         \/ run' = run
         \/ \E r \in Runs, row \in RunRows : run' = [run EXCEPT ![r] = row] /\ Waits(row)
  PROVE  MergeRunsWait'
<1>1. run \in [Runs -> RunRows] /\ \A r \in Runs : Waits(run[r])
  BY DEF DoneInv, EndsInv, RowsInv, TypeInv, TypeOK, MergeRunsWait
<1>2. \A r \in Runs : Waits(run'[r])
  BY <1>1
<1>3. QED
  BY <1>2 DEF MergeRunsWait, Waits

LEMMA MergesContinue ==
  ASSUME DoneInv, Onward, NEW p \in Processes, Continue(p)
  PROVE  MergesThen
<1> DEFINE r == pc[p].run
<1> USE DEF At
<1>0. /\ pc[p] \in Threads /\ Knows(pc[p]) /\ KnowsThen(pc[p])
      /\ pc[p].at \in HasRun => r \in Runs /\ Used(r)
      /\ run \in [Runs -> RunRows] /\ MergeRunsWait /\ DoneOnlyByMerge
      /\ executor \in [Steps -> Executors]
      /\ \A s \in Steps : Kind[s] = "pr.merge" => executor[s] = "human"
  BY KnowsStays DEF DoneInv, EndsInv, RowsInv, TypeInv, TypeOK
<1>d. UNCHANGED issue \/ issue' # "done" => DoneThen
  BY <1>0 DEF DoneThen, DoneOnlyByMerge, Onward, AnsweredThen
<1>x. UNCHANGED executor => PeopleThen
  BY <1>0 DEF PeopleThen
<1>r. UNCHANGED run => MergeRunsWait'
  BY RowsWait
<1>w. \A q \in Runs : Waits(run[q])
  BY <1>0 DEF MergeRunsWait
<1> HIDE DEF r
<1>1. CASE StartRead(p)
  <2> DEFINE t == [pc[p] EXCEPT !.at = "start", !.branch = workspace,
                     !.exec = IF pc[p].asked = "default" THEN executor[pc[p].step]
                                                         ELSE pc[p].asked]
  <2>1. CASE Finish(p)
    BY <1>1, <1>d, <1>x, <1>r, <2>1, KnowsFinishes DEF StartRead, MergesThen
  <2>2. CASE Become(p, t)
    <3>1. t.at = "start" /\ t.asked = pc[p].asked /\ t.step = pc[p].step /\ pc[p].step \in Steps
          /\ t.outcome = pc[p].outcome
          /\ t.exec = IF pc[p].asked = "default" THEN executor[pc[p].step] ELSE pc[p].asked
      BY <1>0 DEF Threads
    <3> HIDE DEF t
    <3>2. KnowsThen(t)
      BY <1>0, <1>1, <3>1 DEF StartRead, KnowsThen, Knows
    <3>3. QED
      BY <1>1, <1>d, <1>x, <1>r, <2>2, <3>2, KnowsBecomes DEF StartRead, MergesThen
  <2>3. QED
    BY <1>1, <2>1, <2>2 DEF StartRead
<1>2. CASE StartAttempt(p)
  <2>1. PICK a : Become(p, [pc[p] EXCEPT !.at = "create", !.attempt = a + 1])
    BY <1>2 DEF StartAttempt
  <2> DEFINE t == [pc[p] EXCEPT !.at = "create", !.attempt = a + 1]
  <2>2. t.at = "create" /\ t.asked = pc[p].asked /\ t.step = pc[p].step /\ t.exec = pc[p].exec
        /\ t.outcome = pc[p].outcome
    BY <1>0 DEF Threads
  <2> HIDE DEF t
  <2>3. KnowsThen(t)
    BY <1>0, <1>2, <2>2 DEF StartAttempt, KnowsThen, Knows, Starting
  <2>4. KnowAll
    BY <2>1, <2>3, KnowsBecomes DEF t
  <2>5. PeopleThen
    BY <1>0, <1>2 DEF StartAttempt, PeopleThen, Knows
  <2>6. QED
    BY <1>2, <1>d, <1>r, <2>4, <2>5 DEF StartAttempt, MergesThen
<1>3. CASE StartCreateRun(p)
  <2>1. PICK n \in Runs :
          /\ run' = [run EXCEPT ![n] =
               [NoRun EXCEPT !.status   = IF pc[p].exec = "ci" THEN "waiting_ci"
                                                               ELSE "running",
                             !.step     = pc[p].step,
                             !.executor = pc[p].exec,
                             !.attempt  = pc[p].attempt,
                             !.branch   = pc[p].branch]]
          /\ Become(p, [pc[p] EXCEPT !.at = "created", !.run = n])
    BY <1>3 DEF StartCreateRun
  <2> DEFINE row == run'[n]
             t == [pc[p] EXCEPT !.at = "created", !.run = n]
  <2>2. /\ row.step = pc[p].step /\ row.executor = pc[p].exec /\ row.approval = "none"
        /\ row.status = (IF pc[p].exec = "ci" THEN "waiting_ci" ELSE "running") /\ ~row.bound
        /\ row \in RunRows
    BY <1>0, <2>1 DEF NoRun, Threads, RunRows, ActiveStatuses, ApprovalStatuses
  <2>3. run' = [run EXCEPT ![n] = row]
    BY <1>0, <2>1
  <2>4. pc[p].at = "create"
    BY <1>3 DEF StartCreateRun
  <2>5. /\ t.at = "created" /\ t.asked = pc[p].asked /\ t.step = pc[p].step /\ t.exec = pc[p].exec
        /\ t.run = n /\ t.outcome = pc[p].outcome /\ Become(p, t)
    BY <1>0, <2>1 DEF Threads
  <2> HIDE DEF t, row
  <2>6. Waits(row)
    BY <1>0, <2>2, <2>4 DEF Waits, Knows, Starting
  <2>7. MergeRunsWait'
    BY <2>2, <2>3, <2>6, RowsWait
  <2>8. KnowsThen(t)
    BY <1>0, <2>2, <2>4, <2>5 DEF row, KnowsThen, Knows, Starting
  <2>9. QED
    BY <1>3, <1>d, <1>x, <2>5, <2>7, <2>8, KnowsBecomes DEF StartCreateRun, MergesThen
<1>4. CASE StartMoveStep(p) \/ StartMoveTask(p)
  <2>1. KnowAll
    BY <1>4, KnowsGoes DEF StartMoveStep, StartMoveTask, Starting, HoldsRun
  <2>2. QED
    BY <1>4, <1>d, <1>x, <1>r, <2>1 DEF StartMoveStep, StartMoveTask, MergesThen
<1>5. CASE DispatchWait(p) \/ ParkStep(p) \/ BlockTask(p) \/ AutoMergeOk(p)
  <2>1. KnowAll
    BY <1>5, KnowsFinishes DEF DispatchWait, ParkStep, BlockTask, AutoMergeOk
  <2>2. QED
    BY <1>5, <1>d, <1>x, <1>r, <2>1 DEF DispatchWait, ParkStep, BlockTask, AutoMergeOk, MergesThen
<1>6. CASE DispatchFail(p) \/ PromptFail(p) \/ ApproveFail(p)
  <2>1. CASE Finish(p) /\ UNCHANGED run
    BY <1>6, <1>d, <1>x, <1>r, <2>1, KnowsFinishes
       DEF DispatchFail, PromptFail, ApproveFail, MergesThen
  <2>2. ASSUME NEW row, row \in {[run[r] EXCEPT !.status = "failed"],
                                 [run[r] EXCEPT !.status = "failed", !.approval = "failed"]},
               EndRun(p, r, row, "failed", "none"),
               pc[p].at = "executing" \/ row = [run[r] EXCEPT !.status = "failed"]
        PROVE  MergesThen
    <3>1. r \in Runs /\ Used(r)
      BY <1>0, <1>6 DEF DispatchFail, PromptFail, ApproveFail, HasRun
    <3>2. row \in RunRows /\ row.step = run[r].step /\ row.status = "failed"
          /\ row.executor = run[r].executor /\ row.bound = run[r].bound
          /\ (row.approval = run[r].approval \/ pc[p].at = "executing")
      <4>1. "failed" \in EndedStatuses /\ "failed" \in ApprovalStatuses /\ run[r] \in RunRows
        BY <1>0, <3>1 DEF EndedStatuses, ApprovalStatuses
      <4>2. CASE row = [run[r] EXCEPT !.status = "failed"]
        BY <4>1, <4>2 DEF RunRows
      <4>3. CASE /\ row = [run[r] EXCEPT !.status = "failed", !.approval = "failed"]
                 /\ pc[p].at = "executing"
        BY <4>1, <4>3 DEF RunRows
      <4>4. QED
        BY <2>2, <4>2, <4>3
    <3>3. Waits(row)
      BY <1>0, <1>w, <3>1, <3>2 DEF Waits, Used, Knows, Merging, r
    <3>4. KnowAll /\ MergeRunsWait'
      BY <2>2, <3>1, <3>2, <3>3, KnowsEnds
    <3>5. QED
      BY <1>6, <1>d, <1>x, <3>4 DEF DispatchFail, PromptFail, ApproveFail, MergesThen
  <2>3. QED
    BY <1>6, <2>1, <2>2 DEF DispatchFail, PromptFail, ApproveFail, r
<1>7. CASE DispatchCreatePr(p) \/ ApproveExecute(p) \/ Finalize(p)
  <2>1. r \in Runs /\ Used(r) /\ Kind[run[r].step] # "pr.merge"
    BY <1>0, <1>7 DEF DispatchCreatePr, ApproveExecute, Finalize, HasRun, Knows, Merging, r
  <2>2. \E row \in RunRows :
           row.step = run[r].step /\ \E then : EndRun(p, r, row, "completed", then)
    <3>1. \A n \in Nat, a \in ApprovalStatuses :
            /\ [run[r] EXCEPT !.status = "completed", !.pr = n] \in RunRows
            /\ [run[r] EXCEPT !.status = "completed", !.pr = n].step = run[r].step
            /\ [run[r] EXCEPT !.status = "completed", !.pr = n, !.approval = a] \in RunRows
            /\ [run[r] EXCEPT !.status = "completed", !.pr = n, !.approval = a].step = run[r].step
            /\ [run[r] EXCEPT !.status = "completed"] \in RunRows
            /\ [run[r] EXCEPT !.status = "completed"].step = run[r].step
      BY <1>0, <2>1 DEF RunRows, EndedStatuses
    <3>2. PrOf(r) \in Nat /\ "executed" \in ApprovalStatuses /\ 0 \in Nat
      BY <1>0, <2>1 DEF PrOf, RunRows, ApprovalStatuses, DoneInv, EndsInv, RowsInv, TypeInv, TypeOK,
                        PullRequests
    <3>3. QED
      BY <1>7, <3>1, <3>2 DEF DispatchCreatePr, ApproveExecute, Finalize, r
  <2>3. PICK row \in RunRows :
          row.step = run[r].step /\ \E then : EndRun(p, r, row, "completed", then)
    BY <2>2
  <2>4. PICK then : EndRun(p, r, row, "completed", then)
    BY <2>3
  <2>5. KnowAll /\ MergeRunsWait'
    BY <2>1, <2>3, <2>4, KnowsEnds DEF Waits
  <2>6. QED
    BY <1>7, <1>d, <1>x, <2>5 DEF DispatchCreatePr, ApproveExecute, Finalize, MergesThen
<1>8. CASE DispatchRequestApproval(p) \/ ApproveClaim(p) \/ DispatchAgent(p)
  <2>1. r \in Runs /\ Used(r) /\ Kind[run[r].step] # "pr.merge"
    BY <1>0, <1>8 DEF DispatchRequestApproval, ApproveClaim, DispatchAgent, HasRun, Knows, Merging,
                      Starting, r
  <2>2. PICK row \in RunRows : row.step = run[r].step /\ run' = [run EXCEPT ![r] = row]
    <3>1. \A a \in ApprovalStatuses, b \in BOOLEAN, c \in BOOLEAN :
            /\ [run[r] EXCEPT !.approval = a] \in RunRows
            /\ [run[r] EXCEPT !.approval = a].step = run[r].step
            /\ [run[r] EXCEPT !.bound = b, !.branch = c] \in RunRows
            /\ [run[r] EXCEPT !.bound = b, !.branch = c].step = run[r].step
      BY <1>0, <2>1 DEF RunRows
    <3>2. CASE DispatchRequestApproval(p)
      <4> DEFINE a == IF run[r].approval \in {"pending", "executing"} THEN run[r].approval
                      ELSE "pending"
      <4>1. run' = [run EXCEPT ![r] = [run[r] EXCEPT !.approval = a]] /\ a \in ApprovalStatuses
        BY <1>0, <2>1, <3>2 DEF DispatchRequestApproval, RequestApproval, ApprovalStatuses, r
      <4>2. QED
        BY <3>1, <4>1
    <3>3. CASE ApproveClaim(p)
      <4>1. run' = [run EXCEPT ![r] = [run[r] EXCEPT !.approval = "executing"]]
        BY <1>0, <2>1, <3>3 DEF ApproveClaim, r
      <4>2. QED
        BY <3>1, <4>1 DEF ApprovalStatuses
    <3>4. CASE DispatchAgent(p)
      <4> DEFINE c == run[r].branch \/ ~workspace
      <4>1. run' = [run EXCEPT ![r] = [run[r] EXCEPT !.bound = TRUE, !.branch = c]]
        BY <1>0, <2>1, <3>4 DEF DispatchAgent, r
      <4>2. c \in BOOLEAN /\ TRUE \in BOOLEAN
        BY <1>0, <2>1 DEF RunRows, DoneInv, EndsInv, RowsInv, TypeInv, TypeOK
      <4> HIDE DEF c
      <4> DEFINE row == [run[r] EXCEPT !.bound = TRUE, !.branch = c]
      <4>3. row \in RunRows /\ row.step = run[r].step
        BY <1>0, <2>1, <4>2 DEF RunRows
      <4>4. QED
        BY <4>1, <4>3
    <3>5. QED
      BY <1>8, <3>2, <3>3, <3>4
  <2>3. MergeRunsWait'
    BY <2>1, <2>2, RowsWait DEF Waits
  <2>4. Kind[run'[r].step] # "pr.merge"
    BY <1>0, <2>1, <2>2
  <2>5. KnowAll
    BY <1>8, <2>4, KnowsGoes DEF DispatchRequestApproval, ApproveClaim, DispatchAgent, Starting,
                                 HoldsRun, r
  <2>6. QED
    BY <1>8, <1>d, <1>x, <2>3, <2>5 DEF DispatchRequestApproval, ApproveClaim, DispatchAgent,
                                        MergesThen
<1>9. CASE PromptOk(p)
  <2>1. KnowAll
    BY <1>0, <1>9, KnowsGoes, KnowsFinishes DEF PromptOk, Starting, HoldsRun, KnowsThen
  <2>2. QED
    BY <1>9, <1>d, <1>x, <1>r, <2>1 DEF PromptOk, MergesThen
<1>10. CASE AdvanceRead(p)
  <2> DEFINE t == [pc[p] EXCEPT !.at = "advanced",
                     !.nextPending = /\ pc[p].step < NSteps
                                     /\ stepStatus[pc[p].step + 1] = "pending"]
  <2>1. /\ t.at = "advanced" /\ t.asked = pc[p].asked /\ t.step = pc[p].step
        /\ t.outcome = pc[p].outcome
    BY <1>0 DEF Threads
  <2>2. Become(p, t)
    BY <1>10 DEF AdvanceRead
  <2> HIDE DEF t
  <2>3. KnowsThen(t)
    BY <1>0, <1>10, <2>1 DEF AdvanceRead, KnowsThen, Starting
  <2>4. QED
    BY <1>10, <1>d, <1>x, <1>r, <2>2, <2>3, KnowsBecomes DEF AdvanceRead, MergesThen
<1>11. CASE AdvanceSteps(p) \/ BlockStep(p) \/ RollbackSteps(p)
  <2>1. KnowAll
    BY <1>11, KnowsGoes DEF AdvanceSteps, BlockStep, RollbackSteps, Starting, HoldsRun
  <2>2. QED
    BY <1>11, <1>d, <1>x, <1>r, <2>1 DEF AdvanceSteps, BlockStep, RollbackSteps, MergesThen
<1>12. CASE AdvanceTask(p) \/ RollbackTask(p)
  <2>1. KnowAll
    BY <1>12, KnowsReturns DEF AdvanceTask, RollbackTask
  <2>2. DoneThen
    <3>1. CASE issue' = "done"
      <4>1. /\ AdvanceTask(p) /\ pc[p].outcome # "failed"
            /\ ~(pc[p].outcome = "completed" /\ pc[p].step < NSteps)
            /\ Kind[NSteps] = "pr.merge"
        BY <1>12, <3>1 DEF AdvanceTask, RollbackTask
      <4>2. pc[p].step = NSteps \/ pc[p].outcome = "blocked"
        BY <1>0, <4>1, StepsAssumption DEF Threads, Steps
      <4>3. pc[p].outcome # "blocked" /\ pc[p].at = "moved"
        BY <1>0, <4>1 DEF AdvanceTask, KnowsThen
      <4>4. QED
        BY <1>0, <4>1, <4>2, <4>3 DEF AdvanceTask, KnowsThen, Threads, DoneThen
    <3>2. QED
      BY <3>1 DEF DoneThen
  <2>3. QED
    BY <1>12, <1>x, <1>r, <2>1, <2>2 DEF AdvanceTask, RollbackTask, MergesThen
<1>13. CASE CiCommit(p)
  <2>1. r \in Runs /\ Used(r) /\ Kind[run[r].step] # "pr.merge"
    BY <1>0, <1>13 DEF CiCommit, HasRun, Knows, Merging, r
  <2>2. pc[p].outcome \in {"completed", "failed"}
    BY <1>0, <1>13 DEF CiCommit, Knows, Threads
  <2> DEFINE row == [run[r] EXCEPT !.status = pc[p].outcome]
  <2>3. row \in RunRows /\ row.step = run[r].step
    BY <1>0, <2>1, <2>2 DEF RunRows, EndedStatuses
  <2>4. EndRun(p, r, row, pc[p].outcome, "ci")
    BY <1>13 DEF CiCommit, r
  <2>5. KnowAll /\ MergeRunsWait'
    BY <2>1, <2>2, <2>3, <2>4, KnowsEnds DEF Waits
  <2>6. QED
    BY <1>13, <1>d, <1>x, <2>5 DEF CiCommit, MergesThen
<1>14. CASE RejectCommit(p)
  <2>1. r \in Runs /\ Used(r) /\ Kind[run[r].step] # "pr.merge"
    BY <1>0, <1>14 DEF RejectCommit, HasRun, Knows, Merging, r
  <2> DEFINE row == [run[r] EXCEPT !.status = "completed", !.approval = "rejected"]
             t == [pc[p] EXCEPT !.at = "block", !.outcome = "blocked"]
  <2>2. row \in RunRows /\ row.step = run[r].step
    BY <1>0, <2>1 DEF RunRows, EndedStatuses, ApprovalStatuses
  <2>3. run' = [run EXCEPT ![r] = row]
    BY <1>0, <1>14, <2>1 DEF RejectCommit, r
  <2>4. t.at = "block" /\ t.asked = pc[p].asked /\ Become(p, t)
    BY <1>0, <1>14 DEF RejectCommit, Threads
  <2> HIDE DEF t
  <2>5. KnowsThen(t)
    BY <1>0, <2>4 DEF KnowsThen, Starting
  <2>6. MergeRunsWait'
    BY <2>1, <2>2, <2>3, RowsWait DEF Waits
  <2>7. QED
    BY <1>14, <1>d, <1>x, <2>4, <2>5, <2>6, KnowsBecomes DEF RejectCommit, MergesThen
<1>15. CASE AutoMergeFail(p)
  <2>s. PICK s \in Steps :
          ReworkStep(s) /\ Become(p, [pc[p] EXCEPT !.at = "rollback", !.step = s, !.then = "acp"])
    BY <1>15 DEF AutoMergeFail
  <2> DEFINE t == [pc[p] EXCEPT !.at = "rollback", !.step = s, !.then = "acp"]
  <2>1. t.at = "rollback" /\ t.asked = pc[p].asked /\ t.outcome = pc[p].outcome /\ Become(p, t)
    BY <2>s, <1>0, <1>15 DEF AutoMergeFail, Threads
  <2> HIDE DEF t
  <2>2. KnowsThen(t)
    BY <1>0, <1>15, <2>1 DEF AutoMergeFail, KnowsThen, Starting
  <2>3. QED
    BY <1>15, <1>d, <1>x, <1>r, <2>1, <2>2, KnowsBecomes DEF AutoMergeFail, MergesThen
<1>16. CASE HookNext(p)
  <2>1. PICK n \in pc[p].todo :
          /\ run' = [run EXCEPT ![n].status = "completed"]
          /\ Become(p, [pc[p] EXCEPT !.at = "advance", !.run = n, !.step = run[n].step,
                                     !.then = "hook", !.outcome = "completed",
                                     !.todo = @ \ {n}])
    BY <1>16 DEF HookNext
  <2> DEFINE row == [run[n] EXCEPT !.status = "completed"]
             t == [pc[p] EXCEPT !.at = "advance", !.run = n, !.step = run[n].step,
                                !.then = "hook", !.outcome = "completed", !.todo = @ \ {n}]
  <2>2. n \in Runs /\ Used(n)
    BY <1>0, <2>1 DEF Threads, DoneInv, EndsInv, RowsInv, Sound
  <2>3. row \in RunRows /\ run' = [run EXCEPT ![n] = row]
    BY <1>0, <2>1, <2>2 DEF RunRows, EndedStatuses
  <2>4. Waits(row)
    BY <1>0, <1>w, <2>2 DEF Waits, RunRows, Used
  <2>5. t.at = "advance" /\ t.asked = pc[p].asked /\ t.outcome = "completed" /\ Become(p, t)
    BY <1>0, <2>1 DEF Threads
  <2> HIDE DEF t
  <2>6. AnsweredThen
    BY <1>16 DEF HookNext, DoneInv, EndsInv, Entitled, AnsweredThen
  <2>7. KnowsThen(t)
    BY <1>0, <2>5, <2>6 DEF KnowsThen, Starting
  <2>8. MergeRunsWait'
    BY <2>2, <2>3, <2>4, RowsWait
  <2>9. QED
    BY <1>16, <1>d, <1>x, <2>5, <2>7, <2>8, KnowsBecomes DEF HookNext, MergesThen
<1>17. CASE HookDone(p)
  <2> DEFINE t == [pc[p] EXCEPT !.at = "advanced", !.step = task.current]
  <2>1. CASE Finish(p)
    BY <1>17, <1>d, <1>x, <1>r, <2>1, KnowsFinishes DEF HookDone, MergesThen
  <2>2. CASE Become(p, t)
    <3>1. t.at = "advanced" /\ t.asked = pc[p].asked /\ t.outcome = pc[p].outcome
      BY <1>0 DEF Threads
    <3> HIDE DEF t
    <3>2. AnsweredThen /\ pc[p].at = "hook"
      BY <1>17 DEF HookDone, DoneInv, EndsInv, Entitled, AnsweredThen
    <3>3. KnowsThen(t)
      BY <1>0, <3>1, <3>2 DEF KnowsThen, Starting
    <3>4. QED
      BY <1>17, <1>d, <1>x, <1>r, <2>2, <3>3, KnowsBecomes DEF HookDone, MergesThen
  <2>3. QED
    BY <1>17, <2>1, <2>2 DEF HookDone
<1>18. QED
  BY <1>1, <1>2, <1>3, <1>4, <1>5, <1>6, <1>7, <1>8, <1>9, <1>10, <1>11, <1>12, <1>13, <1>14,
     <1>15, <1>16, <1>17 DEF Continue

\* A link changes the number a run knows, and nothing a merge waits for.
LEMMA LinksWait ==
  ASSUME DoneInv, NEW n, LinkPr(n)
  PROVE  MergeRunsWait'
<1>0. run \in [Runs -> RunRows] /\ MergeRunsWait
  BY DEF DoneInv, EndsInv, RowsInv, TypeInv, TypeOK
<1>1. ASSUME NEW r \in Runs
      PROVE  Waits(run'[r])
  <2>1. run'[r] = run[r] \/ run'[r] = [run[r] EXCEPT !.pr = n]
    BY DEF LinkPr
  <2>2. /\ run'[r].status = run[r].status /\ run'[r].step = run[r].step
        /\ run'[r].executor = run[r].executor /\ run'[r].approval = run[r].approval
        /\ run'[r].bound = run[r].bound
    BY <1>0, <2>1 DEF RunRows
  <2>3. QED
    BY <1>0, <2>2 DEF MergeRunsWait, Waits
<1>2. QED
  BY <1>1 DEF MergeRunsWait

LEMMA MergesBegin ==
  ASSUME DoneInv, Onward, PeopleMerge, NEW h \in Handlers, Begin(h)
  PROVE  MergesThen
<1> USE DEF At, Free
<1>0. /\ h \in Processes /\ pc[h] \in Threads /\ Knows(pc[h]) /\ KnowsThen(pc[h])
      /\ run \in [Runs -> RunRows] /\ MergeRunsWait /\ DoneOnlyByMerge
      /\ \A s \in Steps : Kind[s] = "pr.merge" => executor[s] = "human"
      /\ pr \in PullRequests /\ (pr.open => pr.number # 0)
  BY KnowsStays DEF DoneInv, EndsInv, RowsInv, TypeInv, TypeOK, Processes
<1>d. UNCHANGED issue \/ issue' # "done" => DoneThen
  BY <1>0 DEF DoneThen, DoneOnlyByMerge, Onward, AnsweredThen
<1>x. UNCHANGED executor => PeopleThen
  BY <1>0 DEF PeopleThen
<1>r. UNCHANGED run => MergeRunsWait'
  BY RowsWait
<1>w. \A q \in Runs : Waits(run[q])
  BY <1>0 DEF MergeRunsWait
<1>l. \A n : LinkPr(n) => MergeRunsWait'
  BY LinksWait
<1>i. pc[h].at = "idle" => pc[h].outcome # "blocked"
  BY <1>0 DEF Knows
<1>1. ASSUME NEW s \in Steps, NEW asked \in Executors \cup {"default"}, StartRoute(h, s, asked)
      PROVE  MergesThen
  <2> DEFINE t == [Idle EXCEPT !.at = "pick", !.step = s, !.asked = asked, !.then = "both"]
  <2>1. t.at = "pick" /\ t.asked = asked /\ t.outcome = "completed"
    BY DEF Idle
  <2>2. asked \in {"default", "human"} /\ Become(h, t)
    BY <1>1 DEF StartRoute, PeopleMerge
  <2> HIDE DEF t
  <2>3. KnowsThen(t)
    BY <2>1, <2>2 DEF KnowsThen, Starting
  <2>4. QED
    BY <1>0, <1>1, <1>d, <1>x, <1>r, <2>2, <2>3, KnowsBecomes DEF StartRoute, MergesThen
<1>2. ASSUME NEW s \in Steps, RollbackRoute(h, s)
      PROVE  MergesThen
  <2> DEFINE t == [pc[h] EXCEPT !.at = "rollback", !.step = s, !.then = "both"]
  <2>1. t.at = "rollback" /\ t.asked = pc[h].asked /\ t.outcome = pc[h].outcome
    BY <1>0 DEF Threads
  <2>2. Become(h, t) /\ pc[h].at = "idle"
    BY <1>2 DEF RollbackRoute
  <2> HIDE DEF t
  <2>3. KnowsThen(t)
    BY <1>0, <1>i, <2>1, <2>2 DEF KnowsThen, Starting
  <2>4. QED
    BY <1>0, <1>2, <1>d, <1>x, <1>r, <2>2, <2>3, KnowsBecomes DEF RollbackRoute, MergesThen
<1>3. ASSUME NEW r \in Runs, SubmitApprove(h, r)
      PROVE  MergesThen
  <2> DEFINE row == [run[r] EXCEPT !.status = "completed"]
  <2>1. row \in RunRows /\ row.step = run[r].step
    BY <1>0 DEF RunRows, EndedStatuses
  <2>2. EndRun(h, r, row, "completed", "acp") /\ Kind[run[r].step] # "pr.merge"
    BY <1>3 DEF SubmitApprove
  <2> HIDE DEF row
  <2>3. KnowAll /\ MergeRunsWait'
    BY <1>0, <2>1, <2>2, KnowsEnds DEF Waits
  <2>4. QED
    BY <1>3, <1>d, <1>x, <2>3 DEF SubmitApprove, MergesThen
<1>4. ASSUME NEW r \in Runs, SubmitMerge(h, r)
      PROVE  MergesThen
  <2> DEFINE row == [run[r] EXCEPT !.status = "completed"]
  <2>1. /\ row \in RunRows /\ row.step = run[r].step /\ row.executor = run[r].executor
        /\ row.status = "completed" /\ row.approval = run[r].approval
        /\ row.bound = run[r].bound
    BY <1>0 DEF RunRows, EndedStatuses
  <2>2. EndRun(h, r, row, "completed", "acp") /\ run[r].status # "none"
    BY <1>4 DEF SubmitMerge, Submittable, Used
  <2> HIDE DEF row
  <2>3. AnsweredThen
    <3>1. MergedPr.merged # 0 /\ [pr EXCEPT !.accepted = TRUE].accepted
      BY <1>0, <1>4 DEF SubmitMerge, MergedPr, PullRequests
    <3>2. QED
      BY <1>4, <3>1 DEF SubmitMerge, AnsweredThen
  <2>4. Waits(row)
    BY <1>w, <2>1, <2>2 DEF Waits
  <2>5. KnowAll /\ MergeRunsWait'
    BY <1>0, <2>1, <2>2, <2>3, <2>4, KnowsEnds
  <2>6. QED
    BY <1>4, <1>x, <2>3, <2>5 DEF SubmitMerge, MergesThen, DoneThen
<1>5. ASSUME NEW r \in Runs, SubmitChanges(h, r)
      PROVE  MergesThen
  <2> DEFINE row == [run[r] EXCEPT !.status = "completed"]
             t == [pc[h] EXCEPT !.at = "block", !.step = run[r].step, !.outcome = "completed"]
  <2>1. row \in RunRows /\ row.step = run[r].step /\ run' = [run EXCEPT ![r] = row]
    BY <1>0, <1>5 DEF RunRows, EndedStatuses, SubmitChanges
  <2>2. t.at = "block" /\ t.asked = pc[h].asked /\ t.outcome = "completed" /\ Become(h, t)
    BY <1>0, <1>5 DEF SubmitChanges, Threads
  <2>3. Waits(row)
    BY <1>5, <2>1 DEF SubmitChanges, Waits
  <2> HIDE DEF t, row
  <2>4. KnowsThen(t)
    BY <1>0, <2>2 DEF KnowsThen, Starting
  <2>5. MergeRunsWait'
    BY <2>1, <2>3, RowsWait
  <2>6. QED
    BY <1>0, <1>5, <1>d, <1>x, <2>2, <2>4, <2>5, KnowsBecomes DEF SubmitChanges, MergesThen
<1>6. ASSUME NEW r \in Runs, ApproveRead(h, r) \/ RejectRead(h, r)
      PROVE  MergesThen
  <2>1. PICK place \in {"approving", "rejecting"} : ApprovalRead(h, r, place)
    BY <1>6 DEF ApproveRead, RejectRead
  <2> DEFINE t == [pc[h] EXCEPT !.at = place, !.run = r, !.step = run[r].step]
  <2>2. /\ t.at = place /\ t.run = r /\ t.asked = pc[h].asked /\ t.outcome = pc[h].outcome
    BY <1>0 DEF Threads
  <2>3. Become(h, t) /\ run' = run /\ run[r].approval = "pending" /\ pc[h].at = "idle"
    BY <2>1 DEF ApprovalRead
  <2> HIDE DEF t
  <2>4. Kind[run'[r].step] # "pr.merge"
    <3>1. run[r].status # "none"
      BY <2>3 DEF DoneInv, EndsInv, RowsInv, Used
    <3>2. QED
      BY <1>w, <2>3, <3>1 DEF Waits
  <2>5. KnowsThen(t)
    BY <1>0, <1>i, <2>2, <2>3, <2>4 DEF KnowsThen, Starting
  <2>6. QED
    BY <1>0, <1>d, <1>x, <1>r, <2>1, <2>3, <2>5, KnowsBecomes DEF ApprovalRead, MergesThen
<1>7. ASSUME NEW r \in Runs, Resume(h, r)
      PROVE  MergesThen
  <2> DEFINE t == [pc[h] EXCEPT !.at = "prompt", !.run = r, !.then = "resume"]
  <2>1. t.at = "prompt" /\ t.run = r /\ t.asked = pc[h].asked /\ t.outcome = pc[h].outcome
    BY <1>0 DEF Threads
  <2>2. /\ Become(h, t) /\ run' = run /\ pc[h].at = "idle"
        /\ run[r].bound /\ run[r].status = "running"
    BY <1>7 DEF Resume
  <2> HIDE DEF t
  <2>3. Kind[run'[r].step] # "pr.merge"
    BY <1>w, <2>2 DEF Waits
  <2>4. KnowsThen(t)
    BY <1>0, <1>i, <2>1, <2>2, <2>3 DEF KnowsThen, Starting
  <2>5. QED
    BY <1>0, <1>7, <1>d, <1>x, <1>r, <2>2, <2>4, KnowsBecomes DEF Resume, MergesThen
<1>8. ASSUME NEW r \in Runs, NEW passed \in BOOLEAN, CiHook(h, r, passed)
      PROVE  MergesThen
  <2> DEFINE t == [pc[h] EXCEPT !.at = "ci", !.run = r,
                                !.outcome = IF passed THEN "completed" ELSE "failed"]
  <2>1. t.at = "ci" /\ t.run = r /\ t.asked = pc[h].asked /\ t.outcome # "blocked"
    BY <1>0 DEF Threads
  <2>2. Become(h, t) /\ run' = run /\ run[r].status = "waiting_ci"
    BY <1>8 DEF CiHook, CiRun, Latest, WaitingCi
  <2> HIDE DEF t
  <2>3. Kind[run'[r].step] # "pr.merge"
    BY <1>w, <2>2 DEF Waits
  <2>4. KnowsThen(t)
    BY <1>0, <2>1, <2>3 DEF KnowsThen, Starting
  <2>5. QED
    BY <1>0, <1>8, <1>d, <1>x, <1>r, <2>2, <2>4, KnowsBecomes DEF CiHook, MergesThen
<1>9. CASE SyncHook(h)
  <2>s. PICK s \in Steps :
          ReworkStep(s) /\ Become(h, [pc[h] EXCEPT !.at = "rollback", !.step = s])
    BY <1>9 DEF SyncHook
  <2> DEFINE t == [pc[h] EXCEPT !.at = "rollback", !.step = s]
  <2>1. t.at = "rollback" /\ t.asked = pc[h].asked /\ t.outcome = pc[h].outcome
    BY <1>0 DEF Threads
  <2>2. Become(h, t) /\ pc[h].at = "idle"
    BY <2>s, <1>9 DEF SyncHook
  <2> HIDE DEF t
  <2>3. KnowsThen(t)
    BY <1>0, <1>i, <2>1, <2>2 DEF KnowsThen, Starting
  <2>4. QED
    BY <1>0, <1>9, <1>d, <1>x, <1>l, <2>2, <2>3, KnowsBecomes DEF SyncHook, MergesThen
<1>10. CASE ReviewHook(h)
  <2>1. Goto(h, "blocking") /\ pc[h].at = "idle"
    BY <1>10 DEF ReviewHook, Goto
  <2>2. KnowAll
    BY <1>0, <2>1, KnowsGoes DEF Starting, HoldsRun
  <2>3. QED
    BY <1>10, <1>d, <1>x, <1>l, <2>2 DEF ReviewHook, MergesThen
<1>11. CASE PrOpenedHook(h)
  <2>1. KnowAll
    BY <1>11, KnowsStays DEF PrOpenedHook, KnowAll
  <2>2. QED
    BY <1>11, <1>d, <1>x, <1>l, <2>1 DEF PrOpenedHook, MergesThen
<1>12. CASE PrMergedHook(h)
  <2> DEFINE t == [pc[h] EXCEPT !.at = "hook", !.todo = MergeRuns]
  <2>1. t.at = "hook" /\ t.asked = pc[h].asked /\ t.outcome = pc[h].outcome
    BY <1>0 DEF Threads
  <2>2. Become(h, t) /\ pc[h].at = "idle"
    BY <1>12 DEF PrMergedHook
  <2> HIDE DEF t
  <2>3. KnowsThen(t)
    BY <1>0, <1>i, <2>1, <2>2 DEF KnowsThen, Starting
  <2>4. QED
    BY <1>0, <1>12, <1>d, <1>x, <1>l, <2>2, <2>3, KnowsBecomes DEF PrMergedHook, MergesThen
<1>13. QED
  BY <1>1, <1>2, <1>3, <1>4, <1>5, <1>6, <1>7, <1>8, <1>9, <1>10, <1>11, <1>12 DEF Begin

LEMMA MergesAuto ==
  ASSUME DoneInv, Onward, AutoPick \/ AutoDrop
  PROVE  MergesThen
<1>1. DoneThen /\ PeopleThen
  BY DEF AutoPick, AutoDrop, DoneInv, DoneThen, PeopleThen, DoneOnlyByMerge, Onward,
         AnsweredThen
<1>2. MergeRunsWait'
  BY RowsWait DEF AutoPick, AutoDrop
<1>3. CASE AutoPick
  <2> DEFINE t == [Idle EXCEPT !.at = "pick", !.step = task.current, !.then = Head(queue)]
  <2>1. t.at = "pick" /\ t.asked = "default" /\ t.outcome = "completed"
    BY DEF Idle
  <2>2. Become(AutoQueue, t)
    BY <1>3 DEF AutoPick
  <2> HIDE DEF t
  <2>3. KnowsThen(t)
    BY <2>1 DEF KnowsThen, Starting
  <2>4. QED
    BY <1>1, <1>2, <2>2, <2>3, KnowsBecomes DEF MergesThen, Processes
<1>4. CASE AutoDrop
  BY <1>1, <1>2, <1>4, KnowsStays DEF AutoDrop, KnowAll, MergesThen
<1>5. QED
  BY <1>3, <1>4

LEMMA MergesOutside ==
  ASSUME DoneInv, Onward, PeopleMerge, Outside
  PROVE  MergesThen
<1>0. run \in [Runs -> RunRows] /\ MergeRunsWait
  BY DEF DoneInv, EndsInv, RowsInv, TypeInv, TypeOK
<1>1. \A r \in Runs : ~CreatePrRoute(r)
  BY DEF PeopleMerge, CreatePrRoute, Intervene
<1>2. DoneThen /\ PeopleThen
  BY <1>1 DEF Outside, Cancel, Complete, OpenPrByHand, MergeByHand, Crash, DoneInv, DoneThen,
              PeopleThen, DoneOnlyByMerge, Onward, AnsweredThen
<1>3. ASSUME NEW r \in Runs, Cancel(r) \/ Complete(r)
      PROVE  MergesThen
  <2>1. PICK status \in {"cancelled", "completed"} :
          run' = [run EXCEPT ![r].status = status] /\ run[r].status # "none" /\ pc' = pc
    BY <1>3 DEF Cancel, Complete, Used
  <2> DEFINE row == [run[r] EXCEPT !.status = status]
  <2>2. /\ row \in RunRows /\ row.step = run[r].step /\ row.executor = run[r].executor
        /\ row.status = status /\ row.approval = run[r].approval /\ row.bound = run[r].bound
        /\ run' = [run EXCEPT ![r] = row]
    BY <1>0, <2>1 DEF RunRows, EndedStatuses
  <2> HIDE DEF row
  <2>3. Waits(row)
    BY <1>0, <2>1, <2>2 DEF MergeRunsWait, Waits
  <2>4. MergeRunsWait'
    BY <2>2, <2>3, RowsWait
  <2>5. QED
    BY <1>2, <2>1, <2>4, KnowsStays DEF KnowAll, MergesThen
<1>4. CASE OpenPrByHand \/ MergeByHand
  BY <1>2, <1>4, RowsWait, KnowsStays DEF OpenPrByHand, MergeByHand, KnowAll, MergesThen
<1>5. CASE Crash
  <2>1. KnowsThen(Idle)
    BY DEF Idle, KnowsThen, Starting
  <2>2. QED
    BY <1>2, <1>5, <2>1, RowsWait DEF Crash, KnowAll, MergesThen
<1>6. QED
  BY <1>1, <1>3, <1>4, <1>5 DEF Outside

LEMMA DoneStep ==
  ASSUME PeopleMerge, DoneInv, [Next]_vars
  PROVE  DoneInv'
<1>1. EndsInv' /\ Onward
  BY EndsStep, OnwardNext DEF PeopleMerge, NoReopening, DoneInv
<1>2. MergesThen
  <2>1. CASE UNCHANGED vars
    BY <1>1, <2>1, RowsWait, KnowsStays
       DEF vars, MergesThen, KnowAll, DoneInv, DoneThen, PeopleThen, DoneOnlyByMerge,
           AnsweredThen
  <2>2. CASE Next
    BY <1>1, <2>2, MergesAuto, MergesContinue, MergesBegin, MergesOutside DEF Next
  <2>3. QED
    BY <2>1, <2>2
<1>3. \A q \in Processes : Knows(pc[q])'
  BY <1>2 DEF MergesThen, KnowAll, KnowsThen, Knows, Merging, Answered, AnsweredThen
<1>4. QED
  BY <1>1, <1>2, <1>3 DEF MergesThen, DoneInv, DoneThen, PeopleThen, DoneOnlyByMerge,
                          AnsweredThen

LEMMA DoneInit == PeopleMerge /\ Init => DoneInv
<1> SUFFICES ASSUME PeopleMerge, Init PROVE DoneInv
  OBVIOUS
<1>1. \A r \in Runs : run[r].status = "none"
  BY DEF Init, NoRun
<1>2. MergeRunsWait
  BY <1>1 DEF MergeRunsWait, Waits
<1>3. Knows(Idle)
  BY DEF Idle, Knows, Starting
<1>4. \A p \in Processes : Knows(pc[p])
  BY <1>3 DEF Init
<1>5. QED
  BY <1>2, <1>4, EndsInit DEF Init, PeopleMerge, DoneInv, DoneOnlyByMerge

\* An issue is done only when a pull request of its branch was merged, or the SCM took a
\* person's request to without an error, whichever of the submit route, the merge
\* webhook and a late advance says so, when people execute the merge steps and nobody
\* calls create-pr for one.
THEOREM DoneOnlyByMergeHolds ==
  ASSUME PeopleMerge
  PROVE  Spec => []DoneOnlyByMerge
<1>1. DoneInv /\ [Next]_vars => DoneInv'
  BY DoneStep
<1>2. DoneInv => DoneOnlyByMerge
  BY DEF DoneInv
<1>3. Init => DoneInv
  BY DoneInit
<1>4. QED
  BY <1>1, <1>2, <1>3, PTL DEF Spec

-----------------------------------------------------------------------------
(***************************************************************************)
(* One run at a time, of handlers that come one at a time.  Something that *)
(* lets the task go on is passed from hand to hand: a step that is ready,  *)
(* the run that was started for it, the handler that ends the run and      *)
(* opens the next step.  There is only one of it.                          *)
(***************************************************************************)

\* Handlers do not overlap, and nothing reopens a step while its run goes on: nobody
\* rolls back, submits an old run again or calls create-pr, the backend does not stop,
\* and a review that blocks the task is not followed by a push that restarts it.  A
\* refused merge or a push, if there may be one, sends the task back to its first step:
\* a template's dev.implement step, if it has one, comes first.
ReworksFirst == \A s \in Steps : ReworkStep(s) => s = 1
Undisturbed ==
  /\ ~Overlap
  /\ AutoMerge \/ "github" \in Interventions => ReworksFirst
  /\ Interventions \subseteq {"cancel", "complete", "resume", "github", "openpr"}
  /\ "github" \in Interventions => MaxInterventions <= 1

Resting  == {"idle", "prompt"}
Alone(p) == \A q \in Processes \ {p} : pc[q].at \in Resting

\* A run that somebody is going to end: it is active, or its approval is.
Open(row) == row.status \in ActiveStatuses \/ row.approval \in {"pending", "executing"}
NoneOpen(rows)    == \A r \in Runs : ~Open(rows[r])
OnlyOpen(rows, r) == \A q \in Runs : Open(rows[q]) => q = r
NoneReady(steps)  == \A s \in Steps : steps[s] # "ready"

\* A push cannot restart a blocked task.
Stuck(left) == "github" \notin Interventions \/ left = 0

\* Between the end of a run and the step that it opens.
Closes(t) ==
  \/ t.at = "advance" /\ t.outcome = "completed"
  \/ /\ t.at = "advanced" /\ t.outcome = "completed"
     /\ t.then = "ci" \/ (t.nextPending /\ t.step < NSteps)

\* ... and what may come of it: the merge that fails, and opens the rework step instead.
Leads(t) ==
  \/ Closes(t)
  \/ t.at = "moved" /\ t.outcome = "completed" /\ t.then = "ci"
  \/ t.at \in {"automerge", "rollback"}

HasOpen == HasRun \ {"prompt"}

\* The process has what lets the task go on.
Holds(t) ==
  \/ Leads(t)
  \/ t.at \in {"start", "create"}
  \/ t.at \in HasOpen
  \/ t.at = "hook" /\ t.todo # {}

\* Who executes the run it has in hand, which says how it will end.
Fits(t, row) ==
  /\ t.at \in {"created", "stepped", "dispatch"} =>
       row.executor = t.exec /\ row.approval = "none"
  /\ t.at = "finalize" => row.executor = "agent"
  /\ t.at = "ci" => row.executor = "ci"
  /\ t.at \in {"requested", "approving", "executing", "rejecting"} => row.executor = "system"

\* What is true when t is the only process that is not at rest, if any is.
Turn(t, steps, rows, status, left) ==
  /\ \A q, r \in Runs : Open(rows[q]) /\ Open(rows[r]) => q = r
  /\ \A q, s \in Steps : steps[q] = "ready" /\ steps[s] = "ready" => q = s
  /\ NoneOpen(rows) \/ NoneReady(steps) \/ t.at = "created"
  /\ t.at \in {"start", "create"} => steps[t.step] = "ready"
  /\ t.at \in HasOpen => OnlyOpen(rows, t.run) /\ Fits(t, rows[t.run])
  /\ t.at \in HasOpen \ {"created"} => NoneReady(steps)
  /\ t.at = "created" => \A s \in Steps : steps[s] = "ready" => s = t.step
  /\ t.at = "hook" =>
       /\ t.then # "ci"
       /\ \A r \in t.todo : rows[r].executor = "human" /\ OnlyOpen(rows, r) /\ t.todo = {r}
       /\ t.todo # {} => NoneReady(steps)
  /\ Leads(t) => NoneOpen(rows)
  /\ Closes(t) => NoneReady(steps)
  /\ t.at = "automerge" => AutoMerge
  /\ t.at \in {"rollback", "rolling"} => t.step = 1 /\ t.then # "ci"
  /\ status = "blocked" \/ t.at \in {"block", "blocking"} =>
       Stuck(left) \/ (NoneOpen(rows) /\ NoneReady(steps) /\ ~Holds(t))

\* What a process at rest knows, too.
Rests(t, rows) ==
  /\ t.at = "idle" => t.then = "none"
  /\ t.then = "hook" => t.todo = {}
  /\ t.at = "prompt" => rows[t.run].executor = "agent"

Executed(row) ==
  /\ row.approval \in {"pending", "executing"} => row.executor = "system"
  /\ row.status = "waiting_ci" => row.executor = "ci"
  /\ row.bound => row.executor = "agent"

SoloInv ==
  /\ RowsInv
  /\ \A p \in Processes : pc[p].at \notin Resting => Alone(p)
  /\ \A p \in Processes : Rests(pc[p], run)
  /\ \A r \in Runs : Executed(run[r])
  /\ \A p \in Processes : Alone(p) => Turn(pc[p], stepStatus, run, task.status, budget)
  /\ "github" \in Interventions => budget <= 1

\* A step of p, in the same terms.
SameExecutors ==
  \A r \in Runs : Used(r) => run'[r].executor = run[r].executor
TurnThen(t) ==
  /\ Turn(t, stepStatus', run', task'.status, budget')
  /\ Rests(t, run')
  /\ \A r \in Runs : Executed(run'[r])
  /\ SameExecutors

\* What p may rely on when it moves.
HasTurn(p) ==
  /\ Undisturbed /\ RowsInv
  /\ Turn(pc[p], stepStatus, run, task.status, budget)
  /\ Rests(pc[p], run)
  /\ \A r \in Runs : Executed(run[r])
  /\ "github" \in Interventions => budget <= 1

LEMMA FailsToFirst ==
  ASSUME NEW p \in Processes, HasTurn(p), AutoMergeFail(p)
  PROVE  Become(p, [pc[p] EXCEPT !.at = "rollback", !.step = 1, !.then = "acp"])
<1>1. PICK s \in Steps :
        ReworkStep(s) /\ Become(p, [pc[p] EXCEPT !.at = "rollback", !.step = s, !.then = "acp"])
  BY DEF AutoMergeFail
<1>2. AutoMerge
  BY DEF AutoMergeFail, At, HasTurn, Turn
<1>3. s = 1
  BY <1>1, <1>2 DEF HasTurn, Undisturbed, ReworksFirst
<1>4. QED
  BY <1>1, <1>3

LEMMA SyncsToFirst ==
  ASSUME NEW h, Undisturbed, SyncHook(h)
  PROVE  Become(h, [pc[h] EXCEPT !.at = "rollback", !.step = 1])
<1>1. PICK s \in Steps :
        ReworkStep(s) /\ Become(h, [pc[h] EXCEPT !.at = "rollback", !.step = s])
  BY DEF SyncHook
<1>2. s = 1
  BY <1>1 DEF SyncHook, Intervene, Undisturbed, ReworksFirst
<1>3. QED
  BY <1>1, <1>2

LEMMA TurnPasses ==
  ASSUME NEW t, NEW u, t.at \in Resting, u.at \in Resting,
         NEW steps, NEW rows, NEW status, NEW left,
         Turn(t, steps, rows, status, left)
  PROVE  Turn(u, steps, rows, status, left)
BY DEF Turn, Resting, HasOpen, HasRun, Leads, Closes, Holds

\* The others keep their rest, and what they know.
LEMMA SoloMoves ==
  ASSUME SoloInv, NEW p \in Processes, Alone(p), RowsInv',
         \A q \in Processes : q # p => pc'[q] = pc[q],
         TurnThen(pc'[p]),
         budget' = budget \/ budget' = budget - 1
  PROVE  SoloInv'
<1>1. \A q \in Processes : q # p => pc'[q] = pc[q] /\ pc[q].at \in Resting
  BY DEF Alone
<1>2. \A q \in Processes : pc'[q].at \notin Resting => q = p
  BY <1>1
<1>3. \A q \in Processes : pc'[q].at \notin Resting => Alone(q)'
  BY <1>1, <1>2 DEF Alone
<1>4. \A q \in Processes : Rests(pc'[q], run')
  <2> SUFFICES ASSUME NEW q \in Processes, q # p PROVE Rests(pc'[q], run')
    BY DEF TurnThen
  <2>1. Rests(pc[q], run) /\ pc'[q] = pc[q]
    BY <1>1 DEF SoloInv
  <2>2. pc[q].at = "prompt" => pc[q].run \in Runs /\ Used(pc[q].run)
    BY DEF SoloInv, RowsInv, Sound, TypeInv, RunInHand, Handed, HasRun
  <2>3. QED
    BY <2>1, <2>2 DEF Rests, TurnThen, SameExecutors
<1>5. \A q \in Processes : Alone(q)' => Turn(pc'[q], stepStatus', run', task'.status, budget')
  <2> SUFFICES ASSUME NEW q \in Processes, Alone(q)', q # p
               PROVE  Turn(pc'[q], stepStatus', run', task'.status, budget')
    BY DEF TurnThen
  <2>1. pc'[p].at \in Resting /\ pc'[q].at \in Resting
    BY <1>1 DEF Alone
  <2>2. Turn(pc'[p], stepStatus', run', task'.status, budget')
    BY DEF TurnThen
  <2>3. QED
    BY <2>1, <2>2, TurnPasses
<1>6. "github" \in Interventions => budget' <= 1
  <2>1. budget \in Nat /\ ("github" \in Interventions => budget <= 1)
    BY DEF SoloInv, RowsInv, TypeInv, TypeOK
  <2>2. QED
    BY <2>1
<1>7. \A r \in Runs : Executed(run'[r])
  BY DEF TurnThen
<1>8. QED
  BY <1>3, <1>4, <1>5, <1>6, <1>7 DEF SoloInv

\* t is u in another place.
Same(t, u) ==
  /\ t.step = u.step /\ t.exec = u.exec /\ t.run = u.run /\ t.outcome = u.outcome
  /\ t.nextPending = u.nextPending /\ t.then = u.then /\ t.todo = u.todo

LEMMA TurnGoes ==
  ASSUME RowsInv, NEW p \in Processes, NEW place, Goto(p, place)
  PROVE  /\ pc'[p].at = place /\ Same(pc'[p], pc[p])
         /\ \A q \in Processes : q # p => pc'[q] = pc[q]
<1>1. pc \in [Processes -> Threads]
  BY DEF RowsInv, TypeInv, TypeOK
<1>2. \A t \in Threads : [t EXCEPT !.at = place].at = place /\ Same([t EXCEPT !.at = place], t)
  BY DEF Threads, Same
<1>3. QED
  BY <1>1, <1>2 DEF Goto, Become

LEMMA TurnFinishes ==
  ASSUME RowsInv, NEW p \in Processes, Finish(p)
  PROVE  /\ pc'[p].at = "idle" /\ pc'[p].then = "none" /\ pc'[p].todo = {}
         /\ \A q \in Processes : q # p => pc'[q] = pc[q]
BY DEF Finish, Become, Idle, RowsInv, TypeInv, TypeOK

LEMMA TurnEnds ==
  ASSUME RowsInv, NEW p \in Processes, NEW r \in Runs, NEW row, NEW outcome, NEW then,
         EndRun(p, r, row, outcome, then)
  PROVE  /\ pc'[p].at = "advance" /\ pc'[p].run = r /\ pc'[p].step = row.step
         /\ pc'[p].outcome = outcome /\ pc'[p].then = then /\ pc'[p].todo = pc[p].todo
         /\ run' = [run EXCEPT ![r] = row]
         /\ \A q \in Processes : q # p => pc'[q] = pc[q]
<1>1. pc \in [Processes -> Threads]
  BY DEF RowsInv, TypeInv, TypeOK
<1>2. \A t \in Threads :
        LET u == [t EXCEPT !.at = "advance", !.run = r, !.step = row.step,
                           !.outcome = outcome, !.then = then]
        IN /\ u.at = "advance" /\ u.run = r /\ u.step = row.step
           /\ u.outcome = outcome /\ u.then = then /\ u.todo = t.todo
  BY DEF Threads
<1>3. QED
  BY <1>1, <1>2 DEF EndRun, Become

\* A thread that comes to rest asks for nothing more.
LEMMA TurnRests ==
  ASSUME NEW p \in Processes, HasTurn(p), Finish(p), pc[p].at # "created",
         UNCHANGED <<stepStatus, run>>,
         task'.status = "blocked" => task.status = "blocked",
         budget' = budget
  PROVE  TurnThen(pc'[p])
<1>1. pc'[p].at = "idle" /\ pc'[p].then = "none" /\ pc'[p].todo = {}
  BY TurnFinishes DEF HasTurn
<1>2. QED
  BY <1>1 DEF HasTurn, TurnThen, Turn, Rests, SameExecutors, HasOpen, HasRun, Leads, Closes, Holds

\* Rows of which no more are open, with the executors they had.
Fewer ==
  /\ \A r \in Runs : Open(run'[r]) => Open(run[r])
  /\ \A r \in Runs : Executed(run'[r])
  /\ SameExecutors

LEMMA FewerRow ==
  ASSUME RowsInv, \A r \in Runs : Executed(run[r]), NEW r \in Runs, NEW row,
         run' = [run EXCEPT ![r] = row],
         Open(row) => Open(run[r]), Executed(row), row.executor = run[r].executor
  PROVE  Fewer /\ (OnlyOpen(run, r) /\ ~Open(row) => NoneOpen(run'))
<1>1. \A q \in Runs : run'[q] = IF q = r THEN row ELSE run[q]
  BY DEF RowsInv, TypeInv, TypeOK
<1>2. QED
  BY <1>1 DEF Fewer, SameExecutors, OnlyOpen, NoneOpen

\* The run in hand ends, and it was the only one: the way is free for the next step.
LEMMA TurnCloses ==
  ASSUME NEW p \in Processes, HasTurn(p), NEW r \in Runs, NEW row, NEW then,
         EndRun(p, r, row, "completed", then), UNCHANGED <<stepStatus, task>>,
         OnlyOpen(run, r), ~Open(row), Executed(row), row.executor = run[r].executor,
         NoneReady(stepStatus), then = "hook" => pc[p].todo = {},
         task.status = "blocked" => Stuck(budget')
  PROVE  TurnThen(pc'[p])
<1>1. /\ pc'[p].at = "advance" /\ pc'[p].then = then /\ pc'[p].todo = pc[p].todo
      /\ run' = [run EXCEPT ![r] = row]
  BY TurnEnds DEF HasTurn
<1>2. Fewer /\ NoneOpen(run')
  BY <1>1, FewerRow DEF HasTurn
<1>3. Turn(pc'[p], stepStatus', run', task'.status, budget')
  BY <1>1, <1>2 DEF Turn, NoneReady, NoneOpen, HasOpen, HasRun
<1>4. QED
  BY <1>1, <1>2, <1>3 DEF TurnThen, Rests, Fewer

\* A run that fails opens nothing.
LEMMA TurnFails ==
  ASSUME NEW p \in Processes, HasTurn(p), NEW r \in Runs, NEW row, NEW then, NEW outcome,
         EndRun(p, r, row, outcome, then), UNCHANGED <<stepStatus, task>>,
         Open(row) => Open(run[r]), Executed(row), row.executor = run[r].executor,
         outcome # "completed", then # "hook", pc[p].at # "created", budget' = budget
  PROVE  TurnThen(pc'[p])
<1>1. /\ pc'[p].at = "advance" /\ pc'[p].then = then /\ pc'[p].outcome = outcome
      /\ run' = [run EXCEPT ![r] = row]
  BY TurnEnds DEF HasTurn
<1>2. Fewer
  BY <1>1, FewerRow DEF HasTurn
<1>3. Turn(pc'[p], stepStatus', run', task'.status, budget')
  BY <1>1, <1>2 DEF Turn, HasTurn, Fewer, NoneOpen, HasOpen, HasRun, Leads, Closes, Holds
<1>4. QED
  BY <1>1, <1>2, <1>3 DEF TurnThen, Rests, Fewer

LEMMA TurnStarts ==
  ASSUME NEW p \in Processes, HasTurn(p), pc[p].at \notin {"idle", "prompt"},
         \/ StartRead(p) \/ StartAttempt(p) \/ StartCreateRun(p) \/ StartMoveStep(p)
         \/ StartMoveTask(p)
  PROVE  TurnThen(pc'[p])
<1> USE DEF At
<1>0. /\ pc \in [Processes -> Threads] /\ pc[p] \in Threads /\ pc[p].step \in Steps
      /\ Turn(pc[p], stepStatus, run, task.status, budget) /\ Rests(pc[p], run)
      /\ \A r \in Runs : Executed(run[r])
  BY DEF HasTurn, RowsInv, TypeInv, TypeOK, Threads
<1>1. CASE StartRead(p)
  <2>1. CASE Finish(p)
    BY <1>1, <2>1, TurnRests DEF StartRead
  <2>2. CASE ~Finish(p)
    <3> DEFINE e == IF pc[p].asked = "default" THEN executor[pc[p].step] ELSE pc[p].asked
    <3>0. /\ Become(p, [pc[p] EXCEPT !.at = "start", !.branch = workspace, !.exec = e])
          /\ stepStatus[pc[p].step] = "ready"
      BY <1>1, <2>2 DEF StartRead
    <3> HIDE DEF e
    <3>1. /\ pc'[p].at = "start" /\ pc'[p].step = pc[p].step /\ pc'[p].then = pc[p].then
          /\ pc'[p].todo = pc[p].todo /\ stepStatus[pc[p].step] = "ready"
      BY <1>0, <3>0 DEF Become, Threads
    <3>2. NoneOpen(run) /\ (task.status = "blocked" => Stuck(budget))
      BY <1>0, <1>1, <3>1 DEF StartRead, Turn, NoneReady
    <3>3. Turn(pc'[p], stepStatus, run, task.status, budget)
      BY <1>0, <3>1, <3>2 DEF Turn, HasOpen, HasRun, Leads, Closes
    <3>4. QED
      BY <1>0, <1>1, <3>1, <3>3 DEF StartRead, TurnThen, Rests, SameExecutors
  <2>3. QED
    BY <2>1, <2>2
<1>2. CASE StartAttempt(p)
  <2>0. PICK a : Become(p, [pc[p] EXCEPT !.at = "create", !.attempt = a])
    BY <1>2 DEF StartAttempt
  <2>1. /\ pc'[p].at = "create" /\ pc'[p].step = pc[p].step /\ pc'[p].then = pc[p].then
        /\ pc'[p].todo = pc[p].todo
    BY <1>0, <2>0 DEF Become, Threads
  <2>2. Turn(pc'[p], stepStatus, run, task.status, budget)
    BY <1>0, <1>2, <2>1 DEF StartAttempt, Turn, HasOpen, HasRun, Leads, Closes, Holds
  <2>3. QED
    BY <1>0, <1>2, <2>1, <2>2 DEF StartAttempt, TurnThen, Rests, SameExecutors
<1>3. CASE StartCreateRun(p)
  <2> DEFINE row == [NoRun EXCEPT !.status   = IF pc[p].exec = "ci" THEN "waiting_ci"
                                               ELSE "running",
                                  !.step     = pc[p].step,
                                  !.executor = pc[p].exec,
                                  !.attempt  = pc[p].attempt,
                                  !.branch   = pc[p].branch]
  <2>1. PICK r \in Runs : /\ \A q \in Runs : Used(q) <=> q < r
                          /\ run' = [run EXCEPT ![r] = row]
                          /\ Become(p, [pc[p] EXCEPT !.at = "created", !.run = r])
    BY <1>3 DEF StartCreateRun
  <2>2. /\ pc'[p].at = "created" /\ pc'[p].step = pc[p].step /\ pc'[p].then = pc[p].then
        /\ pc'[p].todo = pc[p].todo /\ pc'[p].run = r /\ pc'[p].exec = pc[p].exec
    BY <1>0, <2>1 DEF Become, Threads
  <2>3. Executed(row) /\ row.executor = pc[p].exec /\ row.approval = "none"
    BY DEF NoRun, Executed
  <2> HIDE DEF row
  <2>4. ~Used(r) /\ r \in Nat
    BY <2>1 DEF Runs
  <2>5. \A q \in Runs : run'[q] = IF q = r THEN row ELSE run[q]
    BY <2>1 DEF HasTurn, RowsInv, TypeInv, TypeOK
  <2>6. SameExecutors /\ \A q \in Runs : Executed(run'[q])
    BY <1>0, <2>3, <2>4, <2>5 DEF SameExecutors
  <2>7. /\ stepStatus[pc[p].step] = "ready" /\ NoneOpen(run)
        /\ task.status = "blocked" => Stuck(budget)
    BY <1>0, <1>3 DEF StartCreateRun, Turn, NoneReady
  <2>8. OnlyOpen(run', r)
    BY <2>5, <2>7 DEF NoneOpen, OnlyOpen
  <2>9. UNCHANGED <<task, stepStatus, budget>>
    BY <1>3 DEF StartCreateRun
  <2>10. Turn(pc'[p], stepStatus, run', task.status, budget)
    BY <1>0, <2>2, <2>3, <2>5, <2>7, <2>8 DEF Turn, OnlyOpen, Fits, HasOpen, HasRun, Leads, Closes
  <2>11. QED
    BY <1>0, <2>2, <2>6, <2>9, <2>10 DEF TurnThen, Rests
<1>4. CASE StartMoveStep(p)
  <2>1. pc'[p].at = "stepped" /\ Same(pc'[p], pc[p]) /\ pc[p].at = "created"
    BY <1>4, TurnGoes DEF StartMoveStep, HasTurn
  <2>2. \A s \in Steps : stepStatus'[s] # "ready"
    BY <1>0, <1>4, <2>1 DEF StartMoveStep, Turn, HasTurn, RowsInv, TypeInv, TypeOK
  <2>3. Turn(pc'[p], stepStatus', run, task.status, budget)
    BY <1>0, <2>1, <2>2 DEF Turn, NoneReady, Same, HasOpen, HasRun, Fits, Leads, Closes, Holds
  <2>4. QED
    BY <1>0, <1>4, <2>1, <2>3 DEF StartMoveStep, TurnThen, Same, Rests, SameExecutors
<1>5. CASE StartMoveTask(p)
  <2>1. pc'[p].at = "dispatch" /\ Same(pc'[p], pc[p]) /\ task'.status = "running"
    BY <1>5, TurnGoes DEF StartMoveTask, HasTurn
  <2>2. Turn(pc'[p], stepStatus, run, "running", budget)
    BY <1>0, <1>5, <2>1 DEF StartMoveTask, Turn, Same, HasOpen, HasRun, Fits, Leads, Closes
  <2>3. QED
    BY <1>0, <1>5, <2>1, <2>2 DEF StartMoveTask, TurnThen, Same, Rests, SameExecutors
<1>6. QED
  BY <1>1, <1>2, <1>3, <1>4, <1>5

\* The rows and fields that a process with the turn may use.
TurnFacts(p) ==
  /\ pc \in [Processes -> Threads] /\ pc[p] \in Threads /\ pc[p].step \in Steps
  /\ run \in [Runs -> RunRows] /\ stepStatus \in [Steps -> StepStatuses] /\ budget \in Nat
  /\ Turn(pc[p], stepStatus, run, task.status, budget) /\ Rests(pc[p], run)
  /\ \A r \in Runs : Executed(run[r])
  /\ pc[p].at \in HasRun =>
       /\ pc[p].run \in Runs /\ Used(pc[p].run) /\ run[pc[p].run] \in RunRows
       /\ Executed(run[pc[p].run])

LEMMA TurnHas ==
  ASSUME NEW p \in Processes, HasTurn(p)
  PROVE  TurnFacts(p)
<1>1. /\ pc \in [Processes -> Threads] /\ run \in [Runs -> RunRows] /\ Sound(pc[p])
      /\ stepStatus \in [Steps -> StepStatuses] /\ Handed(pc[p]) /\ budget \in Nat
  BY DEF HasTurn, RowsInv, TypeInv, TypeOK, RunInHand
<1>2. pc[p] \in Threads /\ pc[p].step \in Steps
  BY <1>1 DEF Threads
<1>3. pc[p].at \in HasRun =>
        pc[p].run \in Runs /\ Used(pc[p].run) /\ run[pc[p].run] \in RunRows
  BY <1>1 DEF Handed, Sound
<1>4. QED
  BY <1>1, <1>2, <1>3 DEF HasTurn, TurnFacts

LEMMA RowFields ==
  \A row \in RunRows : \A status \in {"completed", "failed", "cancelled"} :
    LET ended == [row EXCEPT !.status = status]
    IN /\ ended.status = status /\ ended.approval = row.approval
       /\ ended.executor = row.executor /\ ended.bound = row.bound
       /\ Executed(row) => Executed(ended)
       /\ Open(ended) => Open(row)
       /\ row.approval \notin {"pending", "executing"} => ~Open(ended)
BY DEF RunRows, Executed, Open, ActiveStatuses

LEMMA TurnDispatches ==
  ASSUME NEW p \in Processes, HasTurn(p), pc[p].at \notin {"idle", "prompt"},
         \/ DispatchWait(p) \/ DispatchFail(p) \/ DispatchCreatePr(p)
         \/ DispatchRequestApproval(p) \/ ParkStep(p) \/ DispatchAgent(p)
  PROVE  TurnThen(pc'[p])
<1> USE DEF At
<1> DEFINE r == pc[p].run
<1>0. TurnFacts(p)
  BY TurnHas
<1>1. CASE DispatchWait(p)
  BY <1>1, TurnRests DEF DispatchWait
<1>2. CASE DispatchFail(p)
  <2>1. r \in Runs /\ run[r] \in RunRows /\ Executed(run[r]) /\ pc[p].at = "dispatch"
    BY <1>0, <1>2 DEF DispatchFail, TurnFacts, HasRun
  <2> DEFINE row == [run[r] EXCEPT !.status = "failed"]
  <2>2. (Open(row) => Open(run[r])) /\ Executed(row) /\ row.executor = run[r].executor
    BY <2>1, RowFields
  <2>3. EndRun(p, r, row, "failed", "none") /\ UNCHANGED <<stepStatus, task, budget>>
    BY <1>2 DEF DispatchFail
  <2> HIDE DEF row, r
  <2>4. QED
    BY <2>1, <2>2, <2>3, TurnFails
<1>3. CASE DispatchCreatePr(p)
  <2>1. /\ r \in Runs /\ run[r] \in RunRows /\ Executed(run[r]) /\ pc[p].at = "dispatch"
        /\ OnlyOpen(run, r) /\ Fits(pc[p], run[r]) /\ NoneReady(stepStatus)
        /\ task.status = "blocked" => Stuck(budget)
    BY <1>0, <1>3 DEF DispatchCreatePr, TurnFacts, HasRun, HasOpen, Turn, Holds
  <2>2. pc[p].then = "hook" => pc[p].todo = {}
    BY <1>0 DEF TurnFacts, Rests
  <2> DEFINE row == [run[r] EXCEPT !.status = "completed", !.pr = PrOf(r)]
  <2>3. row.status = "completed" /\ row.approval = "none" /\ row.executor = run[r].executor
        /\ row.bound = run[r].bound
    BY <2>1 DEF Fits, RunRows
  <2>4. EndRun(p, r, row, "completed", pc[p].then) /\ UNCHANGED <<stepStatus, task, budget>>
    BY <1>3 DEF DispatchCreatePr
  <2> HIDE DEF row, r
  <2>5. ~Open(row) /\ Executed(row)
    BY <2>1, <2>3 DEF Open, Executed, ActiveStatuses
  <2>6. QED
    BY <2>1, <2>2, <2>3, <2>4, <2>5, TurnCloses
<1>4. CASE DispatchRequestApproval(p)
  <2>1. /\ r \in Runs /\ run[r] \in RunRows /\ Executed(run[r]) /\ pc[p].at = "dispatch"
        /\ OnlyOpen(run, r) /\ Fits(pc[p], run[r]) /\ NoneReady(stepStatus)
        /\ task.status = "blocked" => Stuck(budget)
    BY <1>0, <1>4 DEF DispatchRequestApproval, TurnFacts, HasRun, HasOpen, Turn, Holds
  <2>2. pc'[p].at = "requested" /\ Same(pc'[p], pc[p])
    BY <1>4, TurnGoes DEF DispatchRequestApproval, HasTurn
  <2>3. run[r].executor = "system"
    BY <1>4, <2>1 DEF DispatchRequestApproval, Fits
  <2>4. \A q \in Runs : /\ q # r => run'[q] = run[q]
                        /\ run'[q].executor = run[q].executor
                        /\ run'[q].status = run[q].status /\ run'[q].bound = run[q].bound
    BY <1>0, <1>4, <2>1 DEF DispatchRequestApproval, RequestApproval, RunRows, TurnFacts
  <2> HIDE DEF r
  <2>5. OnlyOpen(run', r) /\ Executed(run'[r]) /\ run'[r].executor = "system"
    BY <2>1, <2>3, <2>4 DEF OnlyOpen, Executed
  <2>6. \A q \in Runs : Executed(run'[q])
    BY <1>0, <2>4, <2>5 DEF TurnFacts
  <2>7. UNCHANGED <<stepStatus, task, budget>>
    BY <1>4 DEF DispatchRequestApproval
  <2>8. pc'[p].run = r
    BY <2>2 DEF Same, r
  <2>9. Turn(pc'[p], stepStatus, run', task.status, budget)
    BY <1>0, <2>1, <2>2, <2>5, <2>8
       DEF TurnFacts, Turn, OnlyOpen, Fits, HasOpen, HasRun, Leads, Closes
  <2>10. QED
    BY <1>0, <2>2, <2>4, <2>6, <2>7, <2>9 DEF TurnFacts, TurnThen, Rests, Same, SameExecutors
<1>5. CASE ParkStep(p)
  <2>1. pc'[p].at = "idle" /\ pc'[p].then = "none" /\ pc'[p].todo = {}
    BY <1>5, TurnFinishes DEF ParkStep, HasTurn
  <2>2. NoneReady(stepStatus) /\ (task.status = "blocked" => Stuck(budget))
    BY <1>0, <1>5 DEF ParkStep, TurnFacts, Turn, HasOpen, HasRun, Holds
  <2>3. NoneReady(stepStatus')
    BY <1>0, <1>5, <2>2 DEF ParkStep, TurnFacts, NoneReady
  <2>4. Turn(pc'[p], stepStatus', run, task.status, budget)
    BY <1>0, <2>1, <2>2, <2>3 DEF TurnFacts, Turn, NoneReady, HasOpen, HasRun, Leads, Closes
  <2>5. QED
    BY <1>0, <1>5, <2>1, <2>4 DEF ParkStep, TurnFacts, TurnThen, Rests, SameExecutors
<1>6. CASE DispatchAgent(p)
  <2>1. /\ r \in Runs /\ run[r] \in RunRows /\ Executed(run[r]) /\ pc[p].at = "dispatch"
        /\ OnlyOpen(run, r) /\ Fits(pc[p], run[r]) /\ NoneReady(stepStatus)
        /\ task.status = "blocked" => Stuck(budget)
    BY <1>0, <1>6 DEF DispatchAgent, TurnFacts, HasRun, HasOpen, Turn, Holds
  <2>2. pc'[p].at = "prompt" /\ Same(pc'[p], pc[p])
    BY <1>6, TurnGoes DEF DispatchAgent, HasTurn
  <2>3. run[r].executor = "agent"
    BY <1>6, <2>1 DEF DispatchAgent, Fits
  <2>4. \A q \in Runs : /\ q # r => run'[q] = run[q]
                        /\ run'[q].executor = run[q].executor
                        /\ run'[q].status = run[q].status /\ run'[q].approval = run[q].approval
    BY <1>0, <1>6, <2>1 DEF DispatchAgent, RunRows, TurnFacts
  <2> HIDE DEF r
  <2>5. OnlyOpen(run', r) /\ Executed(run'[r]) /\ run'[r].executor = "agent"
    BY <2>1, <2>3, <2>4 DEF OnlyOpen, Executed, Open
  <2>6. \A q \in Runs : Executed(run'[q])
    BY <1>0, <2>4, <2>5 DEF TurnFacts
  <2>7. UNCHANGED <<stepStatus, task, budget>>
    BY <1>6 DEF DispatchAgent
  <2>8. pc'[p].run = r
    BY <2>2 DEF Same, r
  <2>9. Turn(pc'[p], stepStatus, run', task.status, budget)
    BY <1>0, <2>1, <2>2, <2>5
       DEF TurnFacts, Turn, OnlyOpen, HasOpen, HasRun, Leads, Closes
  <2>10. QED
    BY <1>0, <2>2, <2>4, <2>5, <2>6, <2>7, <2>8, <2>9 DEF TurnFacts, TurnThen, Rests, Same, SameExecutors
<1>7. QED
  BY <1>1, <1>2, <1>3, <1>4, <1>5, <1>6

LEMMA TurnReturns ==
  ASSUME NEW p \in Processes, HasTurn(p), Return(p), pc[p].at \in {"moved", "rolling"},
         UNCHANGED <<stepStatus, run, budget>>,
         task'.status = "blocked" => task.status = "blocked"
  PROVE  TurnThen(pc'[p])
<1>0. TurnFacts(p)
  BY TurnHas
<1>1. CASE Finish(p)
  BY <1>1, TurnRests
<1>2. CASE ~Finish(p)
  <2>1. PICK place : /\ Goto(p, place)
                     /\ \/ place = "hook" /\ pc[p].then = "hook"
                        \/ /\ place = "automerge" /\ pc[p].then = "ci"
                           /\ pc[p].outcome = "completed" /\ AutoMerge
    BY <1>2 DEF Return, AutoMerges
  <2>2. pc'[p].at = place /\ Same(pc'[p], pc[p])
    BY <2>1, TurnGoes DEF HasTurn
  <2>3. Turn(pc'[p], stepStatus, run, task'.status, budget)
    <3>1. CASE place = "hook"
      BY <1>0, <2>1, <2>2, <3>1
         DEF TurnFacts, Turn, Rests, Same, HasOpen, HasRun, Leads, Closes, Holds
    <3>2. CASE place = "automerge"
      BY <1>0, <2>1, <2>2, <3>2
         DEF TurnFacts, Turn, Rests, Same, HasOpen, HasRun, Leads, Closes, Holds
    <3>3. QED
      BY <2>1, <3>1, <3>2
  <2>4. QED
    BY <1>0, <2>1, <2>2, <2>3 DEF TurnFacts, TurnThen, Rests, Same, SameExecutors
<1>3. QED
  BY <1>1, <1>2

LEMMA TurnPrompts ==
  ASSUME NEW p \in Processes, HasTurn(p), PromptOk(p) \/ Finalize(p) \/ PromptFail(p)
  PROVE  TurnThen(pc'[p])
<1> USE DEF At
<1> DEFINE r == pc[p].run
<1>0. TurnFacts(p)
  BY TurnHas
<1>r. r \in Runs /\ run[r] \in RunRows /\ Executed(run[r])
  BY <1>0 DEF PromptOk, Finalize, PromptFail, TurnFacts, HasRun
<1>1. CASE PromptOk(p)
  <2>1. CASE Finish(p)
    BY <1>1, <2>1, TurnRests DEF PromptOk
  <2>2. CASE ~Finish(p)
    <3>1. /\ Goto(p, "finalize") /\ run[r].status = "running" /\ pc[p].at = "prompt"
          /\ UNCHANGED <<run, stepStatus, task, budget>>
      BY <1>1, <2>2 DEF PromptOk
    <3>2. pc'[p].at = "finalize" /\ Same(pc'[p], pc[p])
      BY <3>1, TurnGoes DEF HasTurn
    <3>3. Open(run[r]) /\ run[r].executor = "agent"
      BY <1>0, <3>1 DEF Open, ActiveStatuses, TurnFacts, Rests
    <3>4. OnlyOpen(run, r) /\ NoneReady(stepStatus) /\ (task.status = "blocked" => Stuck(budget))
      BY <1>0, <1>r, <3>1, <3>3 DEF TurnFacts, Turn, OnlyOpen, NoneOpen
    <3>5. Turn(pc'[p], stepStatus, run, task.status, budget)
      BY <1>0, <3>2, <3>3, <3>4 DEF TurnFacts, Turn, Fits, Same, HasOpen, HasRun, Leads, Closes
    <3>6. QED
      BY <1>0, <3>1, <3>2, <3>5 DEF TurnFacts, TurnThen, Rests, Same, SameExecutors
  <2>3. QED
    BY <2>1, <2>2
<1>2. CASE Finalize(p)
  <2>1. /\ pc[p].at = "finalize" /\ OnlyOpen(run, r) /\ Fits(pc[p], run[r])
        /\ NoneReady(stepStatus) /\ (task.status = "blocked" => Stuck(budget))
    BY <1>0, <1>2 DEF Finalize, TurnFacts, HasRun, HasOpen, Turn, Holds
  <2> DEFINE row == [run[r] EXCEPT !.status = "completed"]
  <2>2. run[r].approval \notin {"pending", "executing"}
    BY <1>r, <2>1 DEF Fits, Executed
  <2>3. ~Open(row) /\ Executed(row) /\ row.executor = run[r].executor
    BY <1>r, <2>2, RowFields
  <2>4. EndRun(p, r, row, "completed", "none") /\ UNCHANGED <<stepStatus, task, budget>>
    BY <1>2 DEF Finalize
  <2> HIDE DEF row, r
  <2>5. QED
    BY <1>r, <2>1, <2>3, <2>4, TurnCloses
<1>3. CASE PromptFail(p)
  <2>1. CASE Finish(p) /\ UNCHANGED run
    BY <1>3, <2>1, TurnRests DEF PromptFail
  <2>2. CASE ~(Finish(p) /\ UNCHANGED run)
    <3> DEFINE row == [run[r] EXCEPT !.status = "failed"]
    <3>1. /\ EndRun(p, r, row, "failed", "none") /\ UNCHANGED <<stepStatus, task, budget>>
          /\ pc[p].at = "prompt"
      BY <1>3, <2>2 DEF PromptFail
    <3> HIDE DEF r
    <3>2. (Open(row) => Open(run[r])) /\ Executed(row) /\ row.executor = run[r].executor
      BY <1>r, RowFields
    <3> HIDE DEF row
    <3>3. QED
      BY <1>r, <3>1, <3>2, TurnFails
  <2>3. QED
    BY <2>1, <2>2
<1>4. QED
  BY <1>1, <1>2, <1>3

LEMMA TurnAdvances ==
  ASSUME NEW p \in Processes, HasTurn(p),
         \/ AdvanceRead(p) \/ AdvanceSteps(p) \/ AdvanceTask(p) \/ BlockStep(p) \/ BlockTask(p)
  PROVE  TurnThen(pc'[p])
<1> USE DEF At
<1> DEFINE s == pc[p].step
<1>0. TurnFacts(p) /\ s \in Steps
  BY TurnHas DEF TurnFacts
<1>1. CASE AdvanceRead(p)
  <2>0. PICK b \in BOOLEAN : Become(p, [pc[p] EXCEPT !.at = "advanced", !.nextPending = b])
    BY <1>1 DEF AdvanceRead
  <2>1. /\ pc'[p].at = "advanced" /\ pc'[p].step = pc[p].step /\ pc'[p].then = pc[p].then
        /\ pc'[p].todo = pc[p].todo /\ pc'[p].outcome = pc[p].outcome
    BY <1>0, <2>0 DEF Become, Threads, TurnFacts
  <2>2. pc[p].at = "advance" /\ UNCHANGED <<run, stepStatus, task, budget>>
    BY <1>1 DEF AdvanceRead
  <2>3. Turn(pc'[p], stepStatus, run, task.status, budget)
    BY <1>0, <2>1, <2>2 DEF TurnFacts, Turn, HasOpen, HasRun, Leads, Closes, Holds
  <2>4. QED
    BY <1>0, <2>1, <2>2, <2>3 DEF TurnFacts, TurnThen, Rests, SameExecutors
<1>2. CASE AdvanceSteps(p)
  <2>1. pc'[p].at = "moved" /\ Same(pc'[p], pc[p])
    BY <1>2, TurnGoes DEF AdvanceSteps, HasTurn
  <2>2. pc[p].at = "advanced" /\ UNCHANGED <<run, task, budget>>
    BY <1>2 DEF AdvanceSteps
  <2>3. \A q \in Steps : stepStatus'[q] = "ready" =>
          \/ stepStatus[q] = "ready"
          \/ q = s + 1 /\ pc[p].outcome = "completed" /\ pc[p].nextPending
    BY <1>0, <1>2 DEF AdvanceSteps, TurnFacts, Threads
  <2>4. \A q \in Steps : q = s + 1 => s < NSteps
    BY <1>0, StepsAssumption DEF Steps
  <2>5. CASE Closes(pc[p])
    <3>1. NoneReady(stepStatus) /\ NoneOpen(run) /\ (task.status = "blocked" => Stuck(budget))
      BY <1>0, <2>5 DEF TurnFacts, Turn, Leads, Holds
    <3>2. \A q, u \in Steps : stepStatus'[q] = "ready" /\ stepStatus'[u] = "ready" => q = u
      BY <2>3, <3>1 DEF NoneReady
    <3>3. Turn(pc'[p], stepStatus', run, task.status, budget)
      BY <1>0, <2>1, <2>2, <3>1, <3>2
         DEF TurnFacts, Turn, Same, HasOpen, HasRun, Leads, Closes, NoneOpen
    <3>4. QED
      BY <1>0, <2>1, <2>2, <3>3 DEF TurnFacts, TurnThen, Rests, Same, SameExecutors
  <2>6. CASE ~Closes(pc[p])
    <3>1. \A q \in Steps : stepStatus'[q] = "ready" => stepStatus[q] = "ready"
      BY <2>2, <2>3, <2>4, <2>6 DEF Closes
    <3>2. NoneReady(stepStatus) => NoneReady(stepStatus')
      BY <3>1 DEF NoneReady
    <3>3. Turn(pc'[p], stepStatus', run, task.status, budget)
      BY <1>0, <2>1, <2>2, <2>6, <3>1, <3>2
         DEF TurnFacts, Turn, Same, HasOpen, HasRun, Leads, Closes, Holds
    <3>4. QED
      BY <1>0, <2>1, <2>2, <3>3 DEF TurnFacts, TurnThen, Rests, Same, SameExecutors
  <2>7. QED
    BY <2>5, <2>6
<1>3. CASE AdvanceTask(p)
  <2>1. task \in [status : TaskStatuses, current : Steps]
    BY DEF HasTurn, RowsInv, TypeInv, TypeOK
  <2>2. task'.status # "blocked"
    BY <1>3, <2>1 DEF AdvanceTask
  <2>3. Return(p) /\ pc[p].at = "moved" /\ UNCHANGED <<stepStatus, run, budget>>
    BY <1>3 DEF AdvanceTask
  <2>4. QED
    BY <2>2, <2>3, TurnReturns
<1>4. CASE BlockStep(p)
  <2>1. pc'[p].at = "blocking" /\ Same(pc'[p], pc[p])
    BY <1>4, TurnGoes DEF BlockStep, HasTurn
  <2>2. pc[p].at = "block" /\ UNCHANGED <<run, task, budget>>
    BY <1>4 DEF BlockStep
  <2>3. pc[p].outcome # "ready"
    BY <1>0 DEF TurnFacts, Threads
  <2>4. \A q \in Steps : stepStatus'[q] = "ready" => stepStatus[q] = "ready"
    BY <1>0, <1>4, <2>3 DEF BlockStep, TurnFacts
  <2>5. NoneReady(stepStatus) => NoneReady(stepStatus')
    BY <2>4 DEF NoneReady
  <2>6. Turn(pc'[p], stepStatus', run, task.status, budget)
    BY <1>0, <2>1, <2>2, <2>4, <2>5
       DEF TurnFacts, Turn, Same, HasOpen, HasRun, Leads, Closes, Holds
  <2>7. QED
    BY <1>0, <2>1, <2>2, <2>6 DEF TurnFacts, TurnThen, Rests, Same, SameExecutors
<1>5. CASE BlockTask(p)
  <2>1. pc'[p].at = "idle" /\ pc'[p].then = "none" /\ pc'[p].todo = {}
    BY <1>5, TurnFinishes DEF BlockTask, HasTurn
  <2>2. pc[p].at = "blocking" /\ UNCHANGED <<run, stepStatus, budget>>
    BY <1>5 DEF BlockTask
  <2>3. Turn(pc'[p], stepStatus, run, task'.status, budget)
    BY <1>0, <2>1, <2>2 DEF TurnFacts, Turn, HasOpen, HasRun, Leads, Closes, Holds
  <2>4. QED
    BY <1>0, <2>1, <2>2, <2>3 DEF TurnFacts, TurnThen, Rests, SameExecutors
<1>6. QED
  BY <1>1, <1>2, <1>3, <1>4, <1>5

LEMMA TurnDecides ==
  ASSUME NEW p \in Processes, HasTurn(p),
         \/ ApproveClaim(p) \/ ApproveExecute(p) \/ ApproveFail(p) \/ RejectCommit(p)
         \/ CiCommit(p)
  PROVE  TurnThen(pc'[p])
<1> USE DEF At
<1> DEFINE r == pc[p].run
<1>0. TurnFacts(p)
  BY TurnHas
<1>r. /\ r \in Runs /\ run[r] \in RunRows /\ Executed(run[r])
      /\ OnlyOpen(run, r) /\ Fits(pc[p], run[r]) /\ NoneReady(stepStatus)
      /\ task.status = "blocked" => Stuck(budget)
      /\ pc[p].then = "hook" => pc[p].todo = {}
  BY <1>0 DEF ApproveClaim, ApproveExecute, ApproveFail, RejectCommit, CiCommit,
              TurnFacts, HasRun, HasOpen, Turn, Holds, Rests
<1>1. CASE ApproveClaim(p)
  <2>1. pc'[p].at = "executing" /\ Same(pc'[p], pc[p]) /\ pc[p].at = "approving"
    BY <1>1, TurnGoes DEF ApproveClaim, HasTurn
  <2>2. run[r].executor = "system"
    BY <1>r, <2>1 DEF Fits
  <2>3. \A q \in Runs : /\ q # r => run'[q] = run[q]
                        /\ run'[q].executor = run[q].executor
                        /\ run'[q].status = run[q].status /\ run'[q].bound = run[q].bound
    BY <1>0, <1>1, <1>r DEF ApproveClaim, RunRows, TurnFacts
  <2> HIDE DEF r
  <2>4. OnlyOpen(run', r) /\ Executed(run'[r]) /\ run'[r].executor = "system"
    BY <1>r, <2>2, <2>3 DEF OnlyOpen, Executed
  <2>5. \A q \in Runs : Executed(run'[q])
    BY <1>0, <2>3, <2>4 DEF TurnFacts
  <2>6. UNCHANGED <<stepStatus, task, budget>>
    BY <1>1 DEF ApproveClaim
  <2>7. pc'[p].run = r
    BY <2>1 DEF Same, r
  <2>8. Turn(pc'[p], stepStatus, run', task.status, budget)
    BY <1>0, <1>r, <2>1, <2>4, <2>7
       DEF TurnFacts, Turn, OnlyOpen, Fits, HasOpen, HasRun, Leads, Closes
  <2>9. QED
    BY <1>0, <2>1, <2>3, <2>5, <2>6, <2>8 DEF TurnFacts, TurnThen, Rests, Same, SameExecutors
<1>2. CASE ApproveExecute(p)
  <2> DEFINE n == PrOf(r)
             row == [run[r] EXCEPT !.status = "completed", !.pr = n, !.approval = "executed"]
  <2>1. EndRun(p, r, row, "completed", "ws") /\ UNCHANGED <<stepStatus, task, budget>>
    BY <1>2 DEF ApproveExecute
  <2> HIDE DEF n
  <2>2. /\ row.status = "completed" /\ row.approval = "executed"
        /\ row.executor = run[r].executor /\ row.bound = run[r].bound
    BY <1>r DEF RunRows
  <2> HIDE DEF row, r
  <2>3. ~Open(row) /\ Executed(row)
    BY <1>r, <2>2 DEF Open, Executed, ActiveStatuses
  <2>4. QED
    BY <1>r, <2>1, <2>2, <2>3, TurnCloses
<1>3. CASE ApproveFail(p)
  <2> DEFINE row == [run[r] EXCEPT !.status = "failed", !.approval = "failed"]
  <2>1. EndRun(p, r, row, "failed", "none") /\ UNCHANGED <<stepStatus, task, budget>>
        /\ pc[p].at = "executing"
    BY <1>3 DEF ApproveFail
  <2>2. /\ row.status = "failed" /\ row.approval = "failed"
        /\ row.executor = run[r].executor /\ row.bound = run[r].bound
    BY <1>r DEF RunRows
  <2> HIDE DEF row, r
  <2>3. ~Open(row) /\ Executed(row)
    BY <1>r, <2>2 DEF Open, Executed, ActiveStatuses
  <2>4. QED
    BY <1>r, <2>1, <2>2, <2>3, TurnFails
<1>4. CASE RejectCommit(p)
  <2> DEFINE row == [run[r] EXCEPT !.status = "completed", !.approval = "rejected"]
  <2>1. /\ run' = [run EXCEPT ![r] = row] /\ UNCHANGED <<stepStatus, task, budget>>
        /\ Become(p, [pc[p] EXCEPT !.at = "block", !.outcome = "blocked"])
    BY <1>4, <1>r, <1>0 DEF RejectCommit, TurnFacts
  <2>2. pc'[p].at = "block" /\ pc'[p].then = pc[p].then /\ pc'[p].todo = pc[p].todo
    BY <1>0, <2>1 DEF TurnFacts, Become, Threads
  <2>3. /\ row.status = "completed" /\ row.approval = "rejected"
        /\ row.executor = run[r].executor /\ row.bound = run[r].bound
    BY <1>r DEF RunRows
  <2> HIDE DEF row, r
  <2>4. ~Open(row) /\ Executed(row)
    BY <1>r, <2>3 DEF Open, Executed, ActiveStatuses
  <2>5. Fewer /\ NoneOpen(run')
    BY <1>0, <1>r, <2>1, <2>3, <2>4, FewerRow DEF HasTurn, TurnFacts
  <2>6. Turn(pc'[p], stepStatus, run', task.status, budget)
    BY <1>0, <1>r, <2>2, <2>5
       DEF TurnFacts, Turn, NoneOpen, NoneReady, HasOpen, HasRun, Leads, Closes, Holds
  <2>7. QED
    BY <1>r, <2>1, <2>2, <2>5, <2>6 DEF TurnThen, Rests, Fewer
<1>5. CASE CiCommit(p)
  <2>1. /\ pc[p].at = "ci" /\ UNCHANGED <<stepStatus, task, budget>>
        /\ EndRun(p, r, [run[r] EXCEPT !.status = pc[p].outcome], pc[p].outcome, "ci")
    BY <1>5 DEF CiCommit
  <2>2. pc[p].outcome \in {"completed", "failed"}
    BY <1>0, <2>1 DEF HasTurn, RowsInv, TypeInv, RunInHand, Handed, TurnFacts, Threads
  <2> DEFINE outcome == pc[p].outcome
             row == [run[r] EXCEPT !.status = outcome]
  <2>3. run[r].approval \notin {"pending", "executing"}
    BY <1>r, <2>1 DEF Fits, Executed
  <2>5. EndRun(p, r, row, outcome, "ci")
    BY <2>1
  <2>6. outcome \in {"completed", "failed"}
    BY <2>2
  <2> HIDE DEF r, outcome
  <2>4. ~Open(row) /\ Executed(row) /\ row.executor = run[r].executor
    <3>1. /\ row.status \in {"completed", "failed"} /\ row.approval = run[r].approval
          /\ row.executor = run[r].executor /\ row.bound = run[r].bound
      BY <1>r, <2>6 DEF RunRows
    <3> HIDE DEF row
    <3>2. QED
      BY <1>r, <2>3, <3>1 DEF Open, Executed, ActiveStatuses
  <2> HIDE DEF row
  <2>7. CASE outcome = "completed"
    BY <1>r, <2>1, <2>4, <2>5, <2>7, TurnCloses
  <2>8. CASE outcome = "failed"
    BY <1>r, <2>1, <2>4, <2>5, <2>8, TurnFails
  <2>9. QED
    BY <2>6, <2>7, <2>8
<1>6. QED
  BY <1>1, <1>2, <1>3, <1>4, <1>5

LEMMA TurnRolls ==
  ASSUME NEW p \in Processes, HasTurn(p),
         \/ AutoMergeOk(p) \/ AutoMergeFail(p) \/ RollbackSteps(p) \/ RollbackTask(p)
  PROVE  TurnThen(pc'[p])
<1> USE DEF At
<1>0. TurnFacts(p)
  BY TurnHas
<1>1. CASE AutoMergeOk(p)
  BY <1>1, TurnRests DEF AutoMergeOk
<1>2. CASE AutoMergeFail(p)
  <2>1. pc[p].at = "automerge" /\ UNCHANGED <<run, stepStatus, task, budget>>
    BY <1>2 DEF AutoMergeFail
  <2>r. Become(p, [pc[p] EXCEPT !.at = "rollback", !.step = 1, !.then = "acp"])
    BY <1>2, FailsToFirst
  <2>2. pc'[p].at = "rollback" /\ pc'[p].step = 1 /\ pc'[p].then = "acp"
    BY <1>0, <2>r DEF Become, Threads, TurnFacts
  <2>3. Turn(pc'[p], stepStatus, run, task.status, budget)
    BY <1>0, <2>1, <2>2 DEF TurnFacts, Turn, HasOpen, HasRun, Leads, Closes, Holds
  <2>4. QED
    BY <1>0, <2>1, <2>2, <2>3 DEF TurnFacts, TurnThen, Rests, SameExecutors
<1>3. CASE RollbackSteps(p)
  <2>1. pc'[p].at = "rolling" /\ Same(pc'[p], pc[p])
    BY <1>3, TurnGoes DEF RollbackSteps, HasTurn
  <2>2. pc[p].at = "rollback" /\ UNCHANGED <<run, task, budget>>
    BY <1>3 DEF RollbackSteps
  <2>3. pc[p].step = 1 /\ NoneOpen(run) /\ pc[p].then # "ci" /\ (task.status = "blocked" => Stuck(budget))
    BY <1>0, <2>2 DEF TurnFacts, Turn, Leads, Holds
  <2>4. \A q \in Steps : stepStatus'[q] = "ready" => q = 1
    BY <1>3, <2>3 DEF RollbackSteps, Steps
  <2>5. Turn(pc'[p], stepStatus', run, task.status, budget)
    BY <1>0, <2>1, <2>2, <2>3, <2>4
       DEF TurnFacts, Turn, Same, HasOpen, HasRun, Leads, Closes, NoneOpen
  <2>6. QED
    BY <1>0, <2>1, <2>2, <2>5 DEF TurnFacts, TurnThen, Rests, Same, SameExecutors
<1>4. CASE RollbackTask(p)
  BY <1>4, TurnReturns DEF RollbackTask
<1>5. QED
  BY <1>1, <1>2, <1>3, <1>4

LEMMA TurnHooks ==
  ASSUME NEW p \in Processes, HasTurn(p), HookNext(p) \/ HookDone(p)
  PROVE  TurnThen(pc'[p])
<1> USE DEF At
<1>0. TurnFacts(p) /\ pc[p].at = "hook"
  BY TurnHas DEF HookNext, HookDone
<1>1. CASE HookNext(p)
  <2>1. PICK r \in pc[p].todo :
          /\ run' = [run EXCEPT ![r].status = "completed"]
          /\ Become(p, [pc[p] EXCEPT !.at = "advance", !.run = r, !.step = run[r].step,
                                     !.then = "hook", !.outcome = "completed",
                                     !.todo = @ \ {r}])
    BY <1>1 DEF HookNext
  <2>2. /\ r \in Runs /\ run[r] \in RunRows /\ Executed(run[r])
        /\ run[r].executor = "human" /\ OnlyOpen(run, r) /\ pc[p].todo = {r}
        /\ NoneReady(stepStatus) /\ (task.status = "blocked" => Stuck(budget))
    BY <1>0, <2>1 DEF TurnFacts, Turn, Holds, Threads
  <2> DEFINE row == [run[r] EXCEPT !.status = "completed"]
  <2>3. run[r].approval \notin {"pending", "executing"}
    BY <2>2 DEF Executed
  <2>4. ~Open(row) /\ Executed(row) /\ row.executor = run[r].executor
    BY <2>2, <2>3, RowFields
  <2>5. run' = [run EXCEPT ![r] = row]
    BY <2>1
  <2>6. pc'[p].at = "advance" /\ pc'[p].then = "hook" /\ pc'[p].todo = pc[p].todo \ {r}
    BY <1>0, <2>1 DEF TurnFacts, Become, Threads
  <2>7. pc'[p].todo = {}
    BY <2>2, <2>6
  <2>8. UNCHANGED <<stepStatus, task, budget>>
    BY <1>1 DEF HookNext
  <2> HIDE DEF row
  <2>9. Fewer /\ NoneOpen(run')
    BY <1>0, <2>2, <2>4, <2>5, FewerRow DEF TurnFacts, HasTurn
  <2>10. Turn(pc'[p], stepStatus, run', task.status, budget)
    BY <1>0, <2>2, <2>6, <2>9 DEF TurnFacts, Turn, NoneOpen, NoneReady, HasOpen, HasRun
  <2>11. QED
    BY <2>6, <2>7, <2>8, <2>9, <2>10 DEF TurnThen, Rests, Fewer
<1>2. CASE HookDone(p)
  <2>1. CASE Finish(p)
    BY <1>2, <2>1, TurnRests DEF HookDone
  <2>2. CASE ~Finish(p)
    <3>1. /\ Become(p, [pc[p] EXCEPT !.at = "advanced", !.step = task.current])
          /\ Kind[task.current] = "pr.merge" /\ pc[p].todo = {}
          /\ UNCHANGED <<run, stepStatus, task, budget>>
      BY <1>2, <2>2 DEF HookDone
    <3>2. /\ pc'[p].at = "advanced" /\ pc'[p].step = task.current /\ pc'[p].todo = {}
          /\ pc'[p].then = pc[p].then
      BY <1>0, <3>1 DEF TurnFacts, Become, Threads
    <3>3. task.current = NSteps /\ NSteps \in Nat
      BY <3>1, StepsAssumption DEF HasTurn, RowsInv, TypeInv, TypeOK
    <3>4. ~Leads(pc'[p]) /\ ~Holds(pc'[p])
      BY <1>0, <3>2, <3>3 DEF Leads, Closes, Holds, HasOpen, HasRun, TurnFacts, Turn
    <3>5. Turn(pc'[p], stepStatus, run, task.status, budget)
      BY <1>0, <3>1, <3>2, <3>4 DEF TurnFacts, Turn, HasOpen, HasRun, Leads
    <3>6. QED
      BY <1>0, <3>1, <3>2, <3>5 DEF TurnFacts, TurnThen, Rests, SameExecutors
  <2>3. QED
    BY <2>1, <2>2
<1>3. QED
  BY <1>1, <1>2

\* A run that is open is the only one, no step is ready, and a push is of no use.
LEMMA TurnIdle ==
  ASSUME NEW h \in Processes, HasTurn(h), pc[h].at = "idle"
  PROVE  /\ TurnFacts(h) /\ pc[h].then = "none" /\ pc[h].todo \subseteq Runs
         /\ \A r \in Runs : Open(run[r]) =>
              /\ OnlyOpen(run, r) /\ NoneReady(stepStatus)
              /\ task.status = "blocked" => Stuck(budget)
<1>1. TurnFacts(h)
  BY TurnHas
<1>2. pc[h].then = "none" /\ pc[h].todo \subseteq Runs
  BY <1>1 DEF TurnFacts, Rests, Threads
<1>3. \A r \in Runs : Open(run[r]) =>
        /\ OnlyOpen(run, r) /\ NoneReady(stepStatus)
        /\ task.status = "blocked" => Stuck(budget)
  BY <1>1 DEF TurnFacts, Turn, NoneOpen, OnlyOpen
<1>4. QED
  BY <1>1, <1>2, <1>3

LEMMA LinkKeeps ==
  ASSUME RowsInv, NEW n, LinkPr(n)
  PROVE  \A r \in Runs :
           /\ run'[r].status = run[r].status /\ run'[r].approval = run[r].approval
           /\ run'[r].executor = run[r].executor /\ run'[r].bound = run[r].bound
           /\ Open(run'[r]) = Open(run[r])
           /\ Executed(run[r]) => Executed(run'[r])
<1>1. \A row \in RunRows :
        LET new == [row EXCEPT !.pr = n] IN
          /\ new.status = row.status /\ new.approval = row.approval
          /\ new.executor = row.executor /\ new.bound = row.bound
  BY DEF RunRows
<1>2. run \in [Runs -> RunRows]
  BY DEF RowsInv, TypeInv, TypeOK
<1>3. \A r \in Runs : run'[r] = run[r] \/ run'[r] = [run[r] EXCEPT !.pr = n]
  BY DEF LinkPr
<1>4. \A r \in Runs :
        /\ run'[r].status = run[r].status /\ run'[r].approval = run[r].approval
        /\ run'[r].executor = run[r].executor /\ run'[r].bound = run[r].bound
  BY <1>1, <1>2, <1>3
<1>5. QED
  BY <1>4 DEF Open, Executed

LEMMA TurnSubmits ==
  ASSUME NEW h \in Handlers, HasTurn(h), pc[h].at = "idle", NEW r \in Runs,
         \/ SubmitApprove(h, r) \/ SubmitMerge(h, r) \/ SubmitChanges(h, r)
  PROVE  TurnThen(pc'[h])
<1>p. h \in Processes
  BY DEF Processes
<1>0. /\ TurnFacts(h) /\ pc[h].then = "none"
      /\ run[r] \in RunRows /\ Executed(run[r])
      /\ Open(run[r]) =>
              /\ OnlyOpen(run, r) /\ NoneReady(stepStatus)
              /\ task.status = "blocked" => Stuck(budget)
  BY <1>p, TurnIdle DEF TurnFacts
<1> DEFINE row == [run[r] EXCEPT !.status = "completed"]
<1>1. run[r].status = "running" /\ run[r].executor = "human" /\ budget' = budget
  BY DEF SubmitApprove, SubmitMerge, SubmitChanges, Submittable, Intervene, HasTurn, Undisturbed
<1>2. /\ OnlyOpen(run, r) /\ NoneReady(stepStatus) /\ (task.status = "blocked" => Stuck(budget))
      /\ run[r].approval \notin {"pending", "executing"}
  BY <1>0, <1>1 DEF Open, Executed, ActiveStatuses
<1>3. ~Open(row) /\ Executed(row) /\ row.executor = run[r].executor
  BY <1>0, <1>2, RowFields
<1>4. CASE SubmitApprove(h, r) \/ SubmitMerge(h, r)
  <2>1. EndRun(h, r, row, "completed", "acp") /\ UNCHANGED <<stepStatus, task>>
    BY <1>4 DEF SubmitApprove, SubmitMerge
  <2> HIDE DEF row
  <2>2. QED
    BY <1>p, <1>1, <1>2, <1>3, <2>1, TurnCloses
<1>5. CASE SubmitChanges(h, r)
  <2>0. PICK s : Become(h, [pc[h] EXCEPT !.at = "block", !.step = s, !.outcome = "completed"])
    BY <1>5 DEF SubmitChanges
  <2>1. run' = [run EXCEPT ![r] = row] /\ UNCHANGED <<stepStatus, task>>
    BY <1>5 DEF SubmitChanges
  <2>2. pc'[h].at = "block" /\ pc'[h].then = "none"
    BY <1>p, <1>0, <2>0 DEF TurnFacts, Become, Threads
  <2> HIDE DEF row
  <2>3. Fewer /\ NoneOpen(run')
    BY <1>0, <1>2, <1>3, <2>1, FewerRow DEF TurnFacts, HasTurn
  <2>4. Turn(pc'[h], stepStatus', run', task'.status, budget')
    BY <1>2, <2>1, <2>2, <2>3
       DEF Turn, NoneOpen, NoneReady, HasOpen, HasRun, Leads, Closes, Holds
  <2>5. QED
    BY <2>1, <2>2, <2>3, <2>4 DEF TurnThen, Rests, Fewer
<1>6. QED
  BY <1>4, <1>5

LEMMA StuckStays ==
  ASSUME NEW p, HasTurn(p), Stuck(budget), budget' = budget \/ (budget > 0 /\ budget' = budget - 1)
  PROVE  Stuck(budget')
BY DEF Stuck, HasTurn, RowsInv, TypeInv, TypeOK

LEMMA TurnTakes ==
  ASSUME NEW h \in Handlers, HasTurn(h), pc[h].at = "idle", NEW r \in Runs,
         \/ ApproveRead(h, r) \/ RejectRead(h, r) \/ Resume(h, r)
         \/ \E passed \in BOOLEAN : CiHook(h, r, passed)
  PROVE  TurnThen(pc'[h])
<1>p. h \in Processes
  BY DEF Processes
<1>0. /\ TurnFacts(h) /\ pc[h].then = "none"
      /\ run[r] \in RunRows /\ Executed(run[r])
      /\ Open(run[r]) =>
              /\ OnlyOpen(run, r) /\ NoneReady(stepStatus)
              /\ task.status = "blocked" => Stuck(budget)
  BY <1>p, TurnIdle DEF TurnFacts
<1>1. CASE ApproveRead(h, r) \/ RejectRead(h, r)
  <2>1. PICK place \in {"approving", "rejecting"} :
          /\ Become(h, [pc[h] EXCEPT !.at = place, !.run = r, !.step = run[r].step])
          /\ run[r].approval = "pending"
          /\ UNCHANGED <<run, stepStatus, task, budget>>
    BY <1>1 DEF ApproveRead, RejectRead, ApprovalRead
  <2>2. pc'[h].at = place /\ pc'[h].run = r /\ pc'[h].then = "none"
    BY <1>p, <1>0, <2>1 DEF TurnFacts, Become, Threads
  <2>3. Open(run[r]) /\ run[r].executor = "system"
    BY <1>0, <2>1 DEF Open, Executed
  <2>4. Turn(pc'[h], stepStatus, run, task.status, budget)
    BY <1>0, <2>2, <2>3 DEF TurnFacts, Turn, Fits, HasOpen, HasRun, Leads, Closes
  <2>5. QED
    BY <1>0, <2>1, <2>2, <2>4 DEF TurnFacts, TurnThen, Rests, SameExecutors
<1>2. CASE Resume(h, r)
  <2>1. /\ Become(h, [pc[h] EXCEPT !.at = "prompt", !.run = r, !.then = "resume"])
        /\ run[r].bound /\ UNCHANGED <<run, stepStatus, task>>
        /\ budget > 0 /\ budget' = budget - 1
    BY <1>2 DEF Resume, Intervene
  <2>2. pc'[h].at = "prompt" /\ pc'[h].run = r /\ pc'[h].then = "resume"
    BY <1>p, <1>0, <2>1 DEF TurnFacts, Become, Threads
  <2>3. run[r].executor = "agent" /\ (Stuck(budget) => Stuck(budget'))
    BY <1>0, <2>1, StuckStays DEF Executed
  <2>4. Turn(pc'[h], stepStatus, run, task.status, budget')
    BY <1>0, <2>2, <2>3 DEF TurnFacts, Turn, HasOpen, HasRun, Leads, Closes, Holds
  <2>5. QED
    BY <1>0, <2>1, <2>2, <2>3, <2>4 DEF TurnFacts, TurnThen, Rests, SameExecutors
<1>3. ASSUME NEW passed \in BOOLEAN, CiHook(h, r, passed) PROVE TurnThen(pc'[h])
  <2>1. PICK outcome : /\ Become(h, [pc[h] EXCEPT !.at = "ci", !.run = r, !.outcome = outcome])
                       /\ UNCHANGED <<run, stepStatus, task, budget>>
    BY <1>3 DEF CiHook
  <2>2. pc'[h].at = "ci" /\ pc'[h].run = r /\ pc'[h].then = "none"
    BY <1>p, <1>0, <2>1 DEF TurnFacts, Become, Threads
  <2>3. run[r].status = "waiting_ci"
    BY <1>3 DEF CiHook, CiRun, Latest, WaitingCi
  <2>4. Open(run[r]) /\ run[r].executor = "ci"
    BY <1>0, <2>3 DEF Open, Executed, ActiveStatuses
  <2>5. Turn(pc'[h], stepStatus, run, task.status, budget)
    BY <1>0, <2>2, <2>4 DEF TurnFacts, Turn, Fits, HasOpen, HasRun, Leads, Closes
  <2>6. QED
    BY <1>0, <2>1, <2>2, <2>5 DEF TurnFacts, TurnThen, Rests, SameExecutors
<1>4. QED
  BY <1>1, <1>2, <1>3

LEMMA TurnDelivers ==
  ASSUME NEW h \in Handlers, HasTurn(h), pc[h].at = "idle",
         SyncHook(h) \/ ReviewHook(h) \/ PrOpenedHook(h) \/ PrMergedHook(h)
  PROVE  TurnThen(pc'[h])
<1>p. h \in Processes
  BY DEF Processes
<1>0. /\ TurnFacts(h) /\ pc[h].then = "none" /\ pc[h].todo \subseteq Runs
      /\ \A r \in Runs : Open(run[r]) =>
           /\ OnlyOpen(run, r) /\ NoneReady(stepStatus)
           /\ task.status = "blocked" => Stuck(budget)
  BY <1>p, TurnIdle
<1>1. \A r \in Runs :
        /\ run'[r].status = run[r].status /\ run'[r].approval = run[r].approval
        /\ run'[r].executor = run[r].executor /\ run'[r].bound = run[r].bound
        /\ Open(run'[r]) = Open(run[r])
        /\ Executed(run[r]) => Executed(run'[r])
  BY LinkKeeps DEF HasTurn, SyncHook, ReviewHook, PrOpenedHook, PrMergedHook
<1>2. /\ NoneOpen(run) = NoneOpen(run')
      /\ \A r \in Runs : OnlyOpen(run, r) => OnlyOpen(run', r)
      /\ SameExecutors /\ \A r \in Runs : Executed(run'[r])
  BY <1>0, <1>1 DEF NoneOpen, OnlyOpen, SameExecutors, TurnFacts
<1>t. Turn(pc[h], stepStatus, run', task.status, budget)
  BY <1>0, <1>1, <1>2 DEF TurnFacts, Turn, HasOpen, HasRun, Leads, Closes, Holds
<1>3. CASE SyncHook(h)
  <2>1. /\ "github" \in Interventions /\ budget > 0 /\ budget' = budget - 1
        /\ task.status = "blocked" /\ UNCHANGED <<stepStatus, task>>
    BY <1>3 DEF SyncHook, Intervene
  <2>r. Become(h, [pc[h] EXCEPT !.at = "rollback", !.step = 1])
    BY <1>3, SyncsToFirst DEF HasTurn
  <2>2. pc'[h].at = "rollback" /\ pc'[h].step = 1 /\ pc'[h].then = "none"
    BY <1>p, <1>0, <2>r DEF TurnFacts, Become, Threads
  <2>3. budget \in Nat /\ budget <= 1
    BY <1>0, <2>1 DEF TurnFacts, HasTurn
  <2>4. ~Stuck(budget) /\ Stuck(budget')
    BY <2>1, <2>3 DEF Stuck
  <2>5. NoneOpen(run')
    BY <1>2, <1>t, <2>1, <2>4 DEF Turn
  <2>6. Turn(pc'[h], stepStatus, run', task.status, budget')
    BY <1>t, <2>2, <2>4, <2>5 DEF Turn, HasOpen, HasRun, Leads, Closes
  <2>7. QED
    BY <1>2, <2>1, <2>2, <2>6 DEF TurnThen, Rests
<1>4. CASE ReviewHook(h)
  <2>1. /\ Become(h, [pc[h] EXCEPT !.at = "blocking"])
        /\ "github" \in Interventions /\ budget > 0 /\ budget' = budget - 1
        /\ UNCHANGED <<stepStatus, task>>
    BY <1>4 DEF ReviewHook, Intervene
  <2>2. pc'[h].at = "blocking" /\ pc'[h].then = "none"
    BY <1>p, <1>0, <2>1 DEF TurnFacts, Become, Threads
  <2>3. budget \in Nat /\ budget <= 1
    BY <1>0, <2>1 DEF TurnFacts, HasTurn
  <2>4. Stuck(budget')
    BY <2>1, <2>3 DEF Stuck
  <2>5. Turn(pc'[h], stepStatus, run', task.status, budget')
    BY <1>0, <1>t, <2>2, <2>4 DEF Turn, HasOpen, HasRun, Leads, Closes
  <2>6. QED
    BY <1>2, <2>1, <2>2, <2>5 DEF TurnThen, Rests
<1>5. CASE PrOpenedHook(h)
  <2>1. UNCHANGED <<stepStatus, task, budget, pc>>
    BY <1>5 DEF PrOpenedHook
  <2>2. QED
    BY <1>0, <1>2, <1>t, <2>1 DEF TurnThen, Rests
<1>6. CASE PrMergedHook(h)
  <2>1. /\ Become(h, [pc[h] EXCEPT !.at = "hook", !.todo = MergeRuns])
        /\ UNCHANGED <<stepStatus, task>>
        /\ budget' = budget \/ (budget > 0 /\ budget' = budget - 1)
    BY <1>6 DEF PrMergedHook, Intervene
  <2>2. pc'[h].at = "hook" /\ pc'[h].then = "none" /\ pc'[h].todo = MergeRuns
    BY <1>p, <1>0, <2>1 DEF TurnFacts, Become, Threads
  <2>3. \A r \in MergeRuns : /\ r \in Runs /\ Open(run[r]) /\ run[r].executor = "human"
    BY DEF MergeRuns, Open, ActiveStatuses
  <2>4. /\ \A r \in MergeRuns :
             /\ run'[r].executor = "human" /\ OnlyOpen(run', r) /\ NoneReady(stepStatus)
             /\ task.status = "blocked" => Stuck(budget)
        /\ \A q, r \in MergeRuns : q = r
    BY <1>0, <1>1, <1>2, <2>3 DEF OnlyOpen
  <2>5. \A r \in MergeRuns : MergeRuns = {r}
    BY <2>4
  <2>6. Stuck(budget) => Stuck(budget')
    BY <2>1, StuckStays
  <2>7. Turn(pc'[h], stepStatus, run', task.status, budget')
    BY <1>0, <1>t, <2>2, <2>4, <2>5, <2>6 DEF Turn, HasOpen, HasRun, Leads, Closes, Holds
  <2>8. QED
    BY <1>2, <2>1, <2>2, <2>7 DEF TurnThen, Rests
<1>7. QED
  BY <1>3, <1>4, <1>5, <1>6

LEMMA TurnPicks ==
  ASSUME NEW p \in Processes, HasTurn(p), pc[p].at = "idle",
         \/ AutoPick /\ p = AutoQueue
         \/ \E s \in Steps, asked \in Executors \cup {"default"} : StartRoute(p, s, asked)
  PROVE  TurnThen(pc'[p])
<1>1. PICK t : Become(p, t) /\ t.at = "pick" /\ t.todo = {}
  <2>1. CASE AutoPick /\ p = AutoQueue
    <3> DEFINE t == [Idle EXCEPT !.at = "pick", !.step = task.current, !.then = Head(queue)]
    <3>1. Become(p, t) /\ t.at = "pick" /\ t.todo = {}
      BY <2>1 DEF AutoPick, Idle
    <3> HIDE DEF t
    <3>2. QED
      BY <3>1
  <2>2. ASSUME NEW s \in Steps, NEW asked \in Executors \cup {"default"}, StartRoute(p, s, asked)
        PROVE  \E t : Become(p, t) /\ t.at = "pick" /\ t.todo = {}
    <3> DEFINE t == [Idle EXCEPT !.at = "pick", !.step = s, !.asked = asked, !.then = "both"]
    <3>1. Become(p, t) /\ t.at = "pick" /\ t.todo = {}
      BY <2>2 DEF StartRoute, Idle
    <3> HIDE DEF t
    <3>2. QED
      BY <3>1
  <2>3. QED
    BY <2>1, <2>2
<1>2. UNCHANGED <<run, stepStatus, task, budget>>
  BY DEF AutoPick, StartRoute
<1>3. TurnFacts(p)
  BY TurnHas
<1>4. pc'[p].at = "pick" /\ pc'[p].todo = {}
  BY <1>1, <1>3 DEF TurnFacts, Become
<1>5. Turn(pc'[p], stepStatus, run, task.status, budget)
  BY <1>3, <1>4 DEF TurnFacts, Turn, HasOpen, HasRun, Leads, Closes, Holds
<1>6. QED
  BY <1>2, <1>3, <1>4, <1>5 DEF TurnFacts, TurnThen, Rests, SameExecutors

\* A handler that goes on moves nobody else, and is no intervention.
LEMMA OthersWait ==
  ASSUME RowsInv, NEW p \in Processes, Continue(p)
  PROVE  (\A q \in Processes : q # p => pc'[q] = pc[q]) /\ budget' = budget
<1>1. pc \in [Processes -> Threads]
  BY DEF RowsInv, TypeInv, TypeOK
<1>2. ASSUME NEW t, Become(p, t) PROVE \A q \in Processes : q # p => pc'[q] = pc[q]
  BY <1>1, <1>2 DEF Become
<1>3. ASSUME Return(p) PROVE \E t : Become(p, t)
  BY <1>3 DEF Return, Goto, Finish
<1>4. \E t : Become(p, t)
  <2>1. CASE StartRead(p) \/ StartAttempt(p) \/ StartCreateRun(p) \/ StartMoveStep(p)
             \/ StartMoveTask(p)
    BY <2>1 DEF StartRead, StartAttempt, StartCreateRun, StartMoveStep, StartMoveTask, Goto, Finish
  <2>2. CASE DispatchWait(p) \/ DispatchFail(p) \/ DispatchCreatePr(p)
             \/ DispatchRequestApproval(p) \/ ParkStep(p) \/ DispatchAgent(p)
    BY <2>2 DEF DispatchWait, DispatchFail, DispatchCreatePr, DispatchRequestApproval, ParkStep,
                DispatchAgent, Goto, Finish, EndRun
  <2>3. CASE PromptOk(p) \/ Finalize(p) \/ PromptFail(p)
    BY <2>3 DEF PromptOk, Finalize, PromptFail, Goto, Finish, EndRun
  <2>4. CASE AdvanceRead(p) \/ AdvanceSteps(p) \/ AdvanceTask(p) \/ BlockStep(p) \/ BlockTask(p)
    BY <1>3, <2>4 DEF AdvanceRead, AdvanceSteps, AdvanceTask, BlockStep, BlockTask, Goto, Finish
  <2>5. CASE ApproveClaim(p) \/ ApproveExecute(p) \/ ApproveFail(p) \/ RejectCommit(p)
             \/ CiCommit(p)
    BY <2>5 DEF ApproveClaim, ApproveExecute, ApproveFail, RejectCommit, CiCommit, Goto, EndRun
  <2>6. CASE AutoMergeOk(p) \/ AutoMergeFail(p) \/ RollbackSteps(p) \/ RollbackTask(p)
    BY <1>3, <2>6 DEF AutoMergeOk, AutoMergeFail, RollbackSteps, RollbackTask, Goto, Finish
  <2>7. CASE HookNext(p) \/ HookDone(p)
    BY <2>7 DEF HookNext, HookDone, Finish
  <2>8. QED
    BY <2>1, <2>2, <2>3, <2>4, <2>5, <2>6, <2>7 DEF Continue
<1>5. budget' = budget
  BY DEF Continue, StartRead, StartAttempt, StartCreateRun, StartMoveStep,
         StartMoveTask, DispatchWait, DispatchFail, DispatchCreatePr,
         DispatchRequestApproval, ParkStep, DispatchAgent, PromptOk, Finalize, PromptFail,
         AdvanceRead, AdvanceSteps, AdvanceTask, BlockStep, BlockTask, ApproveClaim,
         ApproveExecute, ApproveFail, RejectCommit, CiCommit, AutoMergeOk, AutoMergeFail,
         HookNext, HookDone, RollbackSteps, RollbackTask
<1>6. QED
  BY <1>2, <1>4, <1>5

\* Nor does one that begins, which begins when it is free.
LEMMA Begins ==
  ASSUME RowsInv, NEW h \in Handlers, Begin(h)
  PROVE  /\ Free(h)
         /\ \A q \in Processes : q # h => pc'[q] = pc[q]
         /\ budget' = budget \/ budget' = budget - 1
<1>1. pc \in [Processes -> Threads]
  BY DEF RowsInv, TypeInv, TypeOK
<1>2. ASSUME NEW t, Become(h, t) PROVE \A q \in Processes : q # h => pc'[q] = pc[q]
  BY <1>1, <1>2 DEF Become
<1>3. ASSUME NEW s \in Steps, NEW asked \in Executors \cup {"default"},
             StartRoute(h, s, asked) \/ RollbackRoute(h, s)
      PROVE  /\ Free(h) /\ \E t : Become(h, t)
             /\ budget' = budget \/ budget' = budget - 1
  BY <1>3 DEF StartRoute, RollbackRoute, Intervene
<1>4. ASSUME NEW r \in Runs, SubmitApprove(h, r) \/ SubmitMerge(h, r) \/ SubmitChanges(h, r)
      PROVE  /\ Free(h) /\ \E t : Become(h, t)
             /\ budget' = budget \/ budget' = budget - 1
  BY <1>4 DEF SubmitApprove, SubmitMerge, SubmitChanges, Submittable, EndRun, Intervene
<1>5. ASSUME NEW r \in Runs, \/ ApproveRead(h, r) \/ RejectRead(h, r) \/ Resume(h, r)
                             \/ \E passed \in BOOLEAN : CiHook(h, r, passed)
      PROVE  /\ Free(h) /\ \E t : Become(h, t)
             /\ budget' = budget \/ budget' = budget - 1
  BY <1>5 DEF ApproveRead, RejectRead, ApprovalRead, Resume, CiHook, Intervene
<1>6. CASE SyncHook(h) \/ ReviewHook(h) \/ PrMergedHook(h)
  <2>1. /\ Free(h) /\ \E t : Become(h, t)
        /\ budget' = budget \/ budget' = budget - 1
    BY <1>6 DEF SyncHook, ReviewHook, PrMergedHook, Intervene
  <2>2. QED
    BY <1>2, <2>1
<1>7. CASE PrOpenedHook(h)
  BY <1>7 DEF PrOpenedHook
<1>8. QED
  BY <1>2, <1>3, <1>4, <1>5, <1>6, <1>7 DEF Begin

\* Something happens outside: no process moves, and rows at most end.
LEMMA SoloAside ==
  ASSUME SoloInv, RowsInv', pc' = pc, UNCHANGED <<stepStatus, task>>, Fewer,
         budget' = budget \/ (budget > 0 /\ budget' = budget - 1),
         \A r \in Runs : /\ run'[r].executor = run[r].executor
                         /\ run[r].approval = "none" => run'[r].approval = "none"
  PROVE  SoloInv'
<1>1. /\ NoneOpen(run) => NoneOpen(run')
      /\ \A r : OnlyOpen(run, r) => OnlyOpen(run', r)
  BY DEF Fewer, NoneOpen, OnlyOpen
<1>2. Stuck(budget) => Stuck(budget')
  BY DEF Stuck, SoloInv, RowsInv, TypeInv, TypeOK
<1>3. \A p \in Processes : Rests(pc'[p], run') /\ (Alone(p)' => Alone(p))
  <2>1. SUFFICES ASSUME NEW p \in Processes PROVE Rests(pc[p], run')
    BY DEF Alone
  <2>2. Rests(pc[p], run) /\ (pc[p].at = "prompt" => pc[p].run \in Runs)
    BY DEF SoloInv, RowsInv, TypeInv, RunInHand, Handed, HasRun
  <2>3. QED
    BY <2>2 DEF Rests
<1>4. ASSUME NEW p \in Processes, Alone(p)
      PROVE  Turn(pc[p], stepStatus, run', task.status, budget')
  <2>1. Turn(pc[p], stepStatus, run, task.status, budget)
    BY <1>4 DEF SoloInv
  <2>2. pc[p].at \in HasOpen => pc[p].run \in Runs
    BY DEF SoloInv, RowsInv, TypeInv, RunInHand, Handed, HasOpen
  <2>3. pc[p].todo \subseteq Runs
    BY DEF SoloInv, RowsInv, TypeInv, TypeOK, Threads
  <2>4. pc[p].at \in HasOpen /\ Fits(pc[p], run[pc[p].run]) => Fits(pc[p], run'[pc[p].run])
    BY <2>2 DEF Fits
  <2>5. \A q, r \in Runs : Open(run'[q]) /\ Open(run'[r]) => q = r
    BY <2>1 DEF Fewer, Turn
  <2>6. QED
    BY <1>1, <1>2, <2>1, <2>3, <2>4, <2>5 DEF Turn
<1>5. QED
  BY <1>2, <1>3, <1>4 DEF SoloInv, Fewer, Alone, RowsInv, TypeInv, TypeOK

LEMMA SoloOutside ==
  ASSUME Undisturbed, SoloInv, RowsInv', Outside \/ AutoDrop
  PROVE  SoloInv'
<1>0. /\ run \in [Runs -> RunRows] /\ \A r \in Runs : Executed(run[r]) /\ run[r] \in RunRows
  BY DEF SoloInv, RowsInv, TypeInv, TypeOK
<1>1. CASE OpenPrByHand \/ MergeByHand \/ AutoDrop
  <2>1. UNCHANGED <<run, stepStatus, task, pc>>
        /\ (budget' = budget \/ (budget > 0 /\ budget' = budget - 1))
    BY <1>1 DEF OpenPrByHand, MergeByHand, AutoDrop, Intervene
  <2>2. Fewer
    BY <1>0, <2>1 DEF Fewer, SameExecutors
  <2>3. QED
    BY <2>1, <2>2, SoloAside
<1>2. ASSUME NEW r \in Runs, Cancel(r) \/ Complete(r)
      PROVE  SoloInv'
  <2>1. PICK status \in {"completed", "cancelled"} :
          run' = [run EXCEPT ![r].status = status]
    BY <1>2 DEF Cancel, Complete
  <2> DEFINE row == [run[r] EXCEPT !.status = status]
  <2>2. /\ row.status \in {"completed", "cancelled"} /\ row.approval = run[r].approval
        /\ row.executor = run[r].executor /\ row.bound = run[r].bound
    BY <1>0 DEF RunRows
  <2>3. run' = [run EXCEPT ![r] = row]
    BY <2>1
  <2> HIDE DEF row
  <2>4. (Open(row) => Open(run[r])) /\ Executed(row)
    BY <1>0, <2>2 DEF Open, Executed, ActiveStatuses
  <2>5. Fewer
    BY <1>0, <2>2, <2>3, <2>4, FewerRow DEF SoloInv
  <2>6. \A q \in Runs : /\ run'[q].executor = run[q].executor
                        /\ run[q].approval = "none" => run'[q].approval = "none"
    BY <1>0, <2>2, <2>3
  <2>7. UNCHANGED <<stepStatus, task, pc>> /\ budget > 0 /\ budget' = budget - 1
    BY <1>2 DEF Cancel, Complete, Intervene
  <2>8. QED
    BY <2>5, <2>6, <2>7, SoloAside
<1>3. \A r \in Runs : ~CreatePrRoute(r)
  BY DEF CreatePrRoute, Intervene, Undisturbed
<1>4. ~Crash
  BY DEF Crash, Intervene, Undisturbed
<1>5. QED
  BY <1>1, <1>2, <1>3, <1>4 DEF Outside

LEMMA SoloStep ==
  ASSUME Undisturbed, SoloInv, RowsInv', [Next]_vars
  PROVE  SoloInv'
<1>1. \A p \in Processes : Alone(p) => HasTurn(p)
  BY DEF SoloInv, HasTurn
<1>2. \A p \in Processes : Calm(p) => Alone(p)
  BY DEF Calm, Undisturbed, Alone, Resting
<1>3. AutoQueue \in Processes /\ \A h \in Handlers : h \in Processes
  BY DEF Processes
<1>4. ASSUME NEW p \in Processes, Alone(p), TurnThen(pc'[p]),
             \A q \in Processes : q # p => pc'[q] = pc[q],
             budget' = budget \/ budget' = budget - 1
      PROVE  SoloInv'
  BY <1>4, SoloMoves
<1>5. ASSUME NEW p \in Processes, Continue(p) PROVE SoloInv'
  <2>1. Alone(p)
    <3>1. CASE pc[p].at \in Resting
      BY <1>2, <1>5, <3>1
         DEF Continue, Resting, At, StartRead, StartAttempt, StartCreateRun, StartMoveStep,
             StartMoveTask, DispatchWait, DispatchFail, DispatchCreatePr,
             DispatchRequestApproval, ParkStep, DispatchAgent, PromptOk, Finalize, PromptFail,
             AdvanceRead, AdvanceSteps, AdvanceTask, BlockStep, BlockTask, ApproveClaim,
             ApproveExecute, ApproveFail, RejectCommit, CiCommit, AutoMergeOk, AutoMergeFail,
             HookNext, HookDone, RollbackSteps, RollbackTask
    <3>2. CASE pc[p].at \notin Resting
      BY <3>2 DEF SoloInv
    <3>3. QED
      BY <3>1, <3>2
  <2>2. HasTurn(p)
    BY <1>1, <2>1
  <2>3. TurnThen(pc'[p])
    <3>1. CASE StartRead(p) \/ StartAttempt(p) \/ StartCreateRun(p) \/ StartMoveStep(p)
               \/ StartMoveTask(p)
      <4>1. pc[p].at \notin {"idle", "prompt"}
        BY <3>1 DEF At, StartRead, StartAttempt, StartCreateRun, StartMoveStep, StartMoveTask
      <4>2. QED
        BY <2>2, <3>1, <4>1, TurnStarts
    <3>2. CASE DispatchWait(p) \/ DispatchFail(p) \/ DispatchCreatePr(p)
               \/ DispatchRequestApproval(p) \/ ParkStep(p) \/ DispatchAgent(p)
      <4>1. pc[p].at \notin {"idle", "prompt"}
        BY <3>2 DEF At, DispatchWait, DispatchFail, DispatchCreatePr, DispatchRequestApproval,
                    ParkStep, DispatchAgent
      <4>2. QED
        BY <2>2, <3>2, <4>1, TurnDispatches
    <3>3. CASE PromptOk(p) \/ Finalize(p) \/ PromptFail(p)
      BY <2>2, <3>3, TurnPrompts
    <3>4. CASE AdvanceRead(p) \/ AdvanceSteps(p) \/ AdvanceTask(p) \/ BlockStep(p) \/ BlockTask(p)
      BY <2>2, <3>4, TurnAdvances
    <3>5. CASE ApproveClaim(p) \/ ApproveExecute(p) \/ ApproveFail(p) \/ RejectCommit(p)
               \/ CiCommit(p)
      BY <2>2, <3>5, TurnDecides
    <3>6. CASE AutoMergeOk(p) \/ AutoMergeFail(p) \/ RollbackSteps(p) \/ RollbackTask(p)
      BY <2>2, <3>6, TurnRolls
    <3>7. CASE HookNext(p) \/ HookDone(p)
      BY <2>2, <3>7, TurnHooks
    <3>8. QED
      BY <1>5, <3>1, <3>2, <3>3, <3>4, <3>5, <3>6, <3>7 DEF Continue
  <2>4. /\ \A q \in Processes : q # p => pc'[q] = pc[q]
        /\ budget' = budget
    BY <1>5, OthersWait DEF SoloInv
  <2>5. QED
    BY <1>4, <2>1, <2>3, <2>4
<1>6. ASSUME NEW h \in Handlers, Begin(h) PROVE SoloInv'
  <2>1. Alone(h) /\ pc[h].at = "idle"
    BY <1>2, <1>3, <1>6, Begins DEF Free, At, SoloInv
  <2>2. HasTurn(h)
    BY <1>1, <1>3, <2>1
  <2>3. \A s \in Steps : ~RollbackRoute(h, s)
    BY DEF RollbackRoute, Intervene, Undisturbed
  <2>4. TurnThen(pc'[h])
    <3>1. ASSUME NEW s \in Steps, NEW asked \in Executors \cup {"default"}, StartRoute(h, s, asked)
          PROVE  TurnThen(pc'[h])
      BY <1>3, <2>1, <2>2, <3>1, TurnPicks
    <3>2. ASSUME NEW r \in Runs, SubmitApprove(h, r) \/ SubmitMerge(h, r) \/ SubmitChanges(h, r)
          PROVE  TurnThen(pc'[h])
      BY <2>1, <2>2, <3>2, TurnSubmits
    <3>3. ASSUME NEW r \in Runs, \/ ApproveRead(h, r) \/ RejectRead(h, r) \/ Resume(h, r)
                                 \/ \E passed \in BOOLEAN : CiHook(h, r, passed)
          PROVE  TurnThen(pc'[h])
      BY <2>1, <2>2, <3>3, TurnTakes
    <3>4. CASE SyncHook(h) \/ ReviewHook(h) \/ PrOpenedHook(h) \/ PrMergedHook(h)
      BY <2>1, <2>2, <3>4, TurnDelivers
    <3>5. QED
      BY <1>6, <2>3, <3>1, <3>2, <3>3, <3>4 DEF Begin
  <2>5. /\ \A q \in Processes : q # h => pc'[q] = pc[q]
        /\ budget' = budget \/ budget' = budget - 1
    BY <1>6, Begins DEF SoloInv
  <2>6. QED
    BY <1>3, <1>4, <2>1, <2>4, <2>5
<1>7. CASE AutoPick
  <2>1. Alone(AutoQueue) /\ pc[AutoQueue].at = "idle"
    BY <1>2, <1>3, <1>7 DEF AutoPick, Free, At
  <2>2. TurnThen(pc'[AutoQueue])
    BY <1>1, <1>3, <1>7, <2>1, TurnPicks
  <2>3. /\ \A q \in Processes : q # AutoQueue => pc'[q] = pc[q]
        /\ budget' = budget
    BY <1>7 DEF AutoPick, Become, SoloInv, RowsInv, TypeInv, TypeOK
  <2>4. QED
    BY <1>3, <1>4, <2>1, <2>2, <2>3
<1>8. CASE AutoDrop \/ Outside
  BY <1>8, SoloOutside
<1>9. CASE UNCHANGED vars
  BY <1>9 DEF vars, SoloInv, Alone
<1>10. QED
  BY <1>5, <1>6, <1>7, <1>8, <1>9 DEF Next

LEMMA SoloInit ==
  ASSUME Undisturbed, Init, RowsInv
  PROVE  SoloInv
<1>1. /\ \A r \in Runs : run[r] = NoRun
      /\ \A p \in Processes : pc[p] = Idle
      /\ \A s \in Steps : stepStatus[s] = "ready" => s = 1
      /\ task.status = "pending" /\ budget = MaxInterventions
  BY DEF Init
<1>2. /\ \A r \in Runs : ~Open(run[r]) /\ Executed(run[r])
      /\ \A p \in Processes : pc[p].at = "idle" /\ pc[p].then = "none" /\ pc[p].todo = {}
  BY <1>1 DEF NoRun, Idle, Open, Executed, ActiveStatuses
<1>3. \A p \in Processes : Turn(pc[p], stepStatus, run, task.status, budget)
  BY <1>1, <1>2 DEF Turn, NoneOpen, HasOpen, HasRun, Leads, Closes
<1>4. \A p \in Processes : Rests(pc[p], run)
  BY <1>2 DEF Rests
<1>5. QED
  BY <1>1, <1>2, <1>3, <1>4 DEF SoloInv, Undisturbed, Resting

\* A task whose handlers come one at a time has at most one run that is running or waits
\* for the CI, for every policy and number of handlers and runs, and every template whose
\* first step is the one that a refused merge or a push goes back to. taskEngine.ts keeps
\* no lock: this is what Free and the statuses of steps are good for.
THEOREM OneActiveRunHolds ==
  ASSUME Undisturbed
  PROVE  Spec => []OneActiveRun
<1>1. Init => (RowsInv => SoloInv)
  BY SoloInit
<1>2. SoloInv /\ RowsInv' /\ [Next]_vars => SoloInv'
  BY SoloStep
<1>3. SoloInv /\ (\E p \in Processes : Alone(p)) => OneActiveRun
  BY DEF SoloInv, Turn, OneActiveRun, Active, Open
<1>4. SoloInv => \E p \in Processes : Alone(p)
  BY DEF SoloInv, Processes, Alone
<1>5. QED
  BY <1>1, <1>2, <1>3, <1>4, RowsCorrect, PTL DEF Spec

-----------------------------------------------------------------------------
(* Pull requests behind their approvals.  It takes that decisions do not overlap, as the *)
(* claim of one can be overwritten by another's, and that nobody opens a pull request by *)
(* hand, but nothing else: users may roll back, cancel, complete, resubmit and call      *)
(* create-pr, and the backend may stop at any point.                                     *)

Asked == ~Overlap /\ "openpr" \notin Interventions

\* What is being executed was claimed, and is still.
ClaimInv ==
  /\ RowsInv
  /\ \A p \in Processes : pc[p].at \notin Resting => Alone(p)
  /\ \A p \in Processes : At(p, "executing") => run[pc[p].run].approval = "executing"

\* Handlers that come one at a time leave the one that moves alone.
LEMMA MovesAlone ==
  ASSUME ~Overlap, RowsInv, \A p \in Processes : pc[p].at \notin Resting => Alone(p)
  PROVE  /\ \A p \in Processes : Continue(p) => Alone(p)
         /\ \A h \in Handlers : Begin(h) => Alone(h)
         /\ AutoPick => Alone(AutoQueue)
<1>1. \A p \in Processes : Calm(p) => Alone(p)
  BY DEF Calm, Alone, Resting
<1>2. AutoQueue \in Processes /\ \A h \in Handlers : h \in Processes
  BY DEF Processes
<1>3. ASSUME NEW p \in Processes, Continue(p) PROVE Alone(p)
  <2>1. CASE pc[p].at \in Resting
    BY <1>1, <1>3, <2>1
       DEF Continue, Resting, At, StartRead, StartAttempt, StartCreateRun, StartMoveStep,
           StartMoveTask, DispatchWait, DispatchFail, DispatchCreatePr,
           DispatchRequestApproval, ParkStep, DispatchAgent, PromptOk, Finalize, PromptFail,
           AdvanceRead, AdvanceSteps, AdvanceTask, BlockStep, BlockTask, ApproveClaim,
           ApproveExecute, ApproveFail, RejectCommit, CiCommit, AutoMergeOk, AutoMergeFail,
           HookNext, HookDone, RollbackSteps, RollbackTask
  <2>2. CASE pc[p].at \notin Resting
    BY <2>2
  <2>3. QED
    BY <2>1, <2>2
<1>4. ASSUME NEW h \in Handlers, Begin(h) PROVE Alone(h)
  BY <1>1, <1>2, <1>4, Begins DEF Free
<1>5. AutoPick => Alone(AutoQueue)
  BY <1>1, <1>2 DEF AutoPick, Free
<1>6. QED
  BY <1>3, <1>4, <1>5

\* Only the claim itself gets a handler to where it executes an approval, and only a
\* dispatch to where it awaits an agent; a run is dispatched once the task is moved.
LEMMA OnlyClaims ==
  ASSUME RowsInv, NEW p \in Processes, Continue(p)
  PROVE  /\ ApproveClaim(p) \/ pc'[p].at # "executing"
         /\ DispatchAgent(p) \/ pc'[p].at # "prompt"
         /\ StartMoveTask(p) \/ pc'[p].at # "dispatch"
         /\ DispatchRequestApproval(p) \/ pc'[p].at # "requested"
<1>1. pc \in [Processes -> Threads] /\ pc[p] \in Threads
  BY DEF RowsInv, TypeInv, TypeOK
<1>2. ASSUME NEW place, Goto(p, place) PROVE pc'[p].at = place
  BY <1>2, TurnGoes
<1>3. Finish(p) => pc'[p].at = "idle"
  BY TurnFinishes
<1>4. ASSUME NEW r, NEW row, NEW outcome, NEW then, EndRun(p, r, row, outcome, then)
      PROVE  pc'[p].at = "advance"
  BY <1>1, <1>4 DEF EndRun, Become, Threads
<1>5. Return(p) => pc'[p].at \notin {"executing", "prompt", "dispatch", "requested"}
  BY <1>2, <1>3 DEF Return
<1>6. ASSUME NEW t, Become(p, t) PROVE pc'[p].at = t.at
  BY <1>1, <1>6 DEF Become
<1>7. CASE StartRead(p) \/ StartAttempt(p) \/ StartCreateRun(p) \/ StartMoveStep(p)
           \/ StartMoveTask(p)
  <2>1. CASE StartRead(p)
    <3> DEFINE e == IF pc[p].asked = "default" THEN executor[pc[p].step] ELSE pc[p].asked
               t == [pc[p] EXCEPT !.at = "start", !.branch = workspace, !.exec = e]
    <3>1. Become(p, t) \/ Finish(p)
      BY <2>1 DEF StartRead
    <3> HIDE DEF e
    <3>2. t.at = "start"
      BY <1>1 DEF Threads
    <3> HIDE DEF t
    <3>3. QED
      BY <1>3, <1>6, <3>1, <3>2
  <2>2. CASE StartAttempt(p)
    <3>1. PICK a : Become(p, [pc[p] EXCEPT !.at = "create", !.attempt = a])
      BY <2>2 DEF StartAttempt
    <3>2. QED
      BY <1>1, <3>1 DEF Become, Threads
  <2>3. CASE StartCreateRun(p)
    <3>1. PICK r : Become(p, [pc[p] EXCEPT !.at = "created", !.run = r])
      BY <2>3 DEF StartCreateRun
    <3>2. QED
      BY <1>1, <3>1 DEF Become, Threads
  <2>4. CASE StartMoveStep(p) \/ StartMoveTask(p)
    BY <1>2, <2>4 DEF StartMoveStep, StartMoveTask
  <2>5. QED
    BY <1>7, <2>1, <2>2, <2>3, <2>4
<1>8. CASE DispatchWait(p) \/ DispatchFail(p) \/ DispatchCreatePr(p)
           \/ DispatchRequestApproval(p) \/ ParkStep(p) \/ DispatchAgent(p)
  <2>1. CASE DispatchWait(p) \/ DispatchRequestApproval(p) \/ ParkStep(p) \/ DispatchAgent(p)
    BY <1>2, <1>3, <2>1 DEF DispatchWait, DispatchRequestApproval, ParkStep, DispatchAgent
  <2>2. CASE DispatchFail(p) \/ DispatchCreatePr(p)
    <3>1. \E r, row, outcome, then : EndRun(p, r, row, outcome, then)
      BY <2>2 DEF DispatchFail, DispatchCreatePr
    <3>2. QED
      BY <1>4, <3>1
  <2>3. QED
    BY <1>8, <2>1, <2>2
<1>9. CASE PromptOk(p) \/ Finalize(p) \/ PromptFail(p)
  <2>1. CASE \E r, row, outcome, then : EndRun(p, r, row, outcome, then)
    BY <1>4, <2>1
  <2>2. CASE Goto(p, "finalize") \/ Finish(p)
    BY <1>2, <1>3, <2>2
  <2>3. QED
    BY <1>9, <2>1, <2>2 DEF PromptOk, Finalize, PromptFail
<1>10. CASE AdvanceRead(p) \/ AdvanceSteps(p) \/ AdvanceTask(p) \/ BlockStep(p) \/ BlockTask(p)
  <2>1. CASE AdvanceRead(p)
    <3>1. PICK b : Become(p, [pc[p] EXCEPT !.at = "advanced", !.nextPending = b])
      BY <2>1 DEF AdvanceRead
    <3>2. QED
      BY <1>1, <3>1 DEF Become, Threads
  <2>2. CASE AdvanceSteps(p) \/ AdvanceTask(p) \/ BlockStep(p) \/ BlockTask(p)
    BY <1>2, <1>3, <1>5, <2>2 DEF AdvanceSteps, AdvanceTask, BlockStep, BlockTask
  <2>3. QED
    BY <1>10, <2>1, <2>2
<1>11. CASE ApproveExecute(p) \/ ApproveFail(p) \/ RejectCommit(p) \/ CiCommit(p)
  <2>1. CASE RejectCommit(p)
    <3>1. Become(p, [pc[p] EXCEPT !.at = "block", !.outcome = "blocked"])
      BY <2>1 DEF RejectCommit
    <3>2. QED
      BY <1>1, <3>1 DEF Become, Threads
  <2>2. CASE ApproveExecute(p) \/ ApproveFail(p) \/ CiCommit(p)
    <3>1. \E r, row, outcome, then : EndRun(p, r, row, outcome, then)
      BY <2>2 DEF ApproveExecute, ApproveFail, CiCommit
    <3>2. QED
      BY <1>4, <3>1
  <2>3. QED
    BY <1>11, <2>1, <2>2
<1>12. CASE AutoMergeOk(p) \/ AutoMergeFail(p) \/ RollbackSteps(p) \/ RollbackTask(p)
  <2>1. CASE AutoMergeFail(p)
    BY <1>1, <2>1 DEF AutoMergeFail, Become, Threads
  <2>2. CASE AutoMergeOk(p) \/ RollbackSteps(p) \/ RollbackTask(p)
    BY <1>2, <1>3, <1>5, <2>2 DEF AutoMergeOk, RollbackSteps, RollbackTask
  <2>3. QED
    BY <1>12, <2>1, <2>2
<1>13. CASE HookNext(p) \/ HookDone(p)
  <2>1. CASE HookNext(p)
    <3>1. PICK r, s : Become(p, [pc[p] EXCEPT !.at = "advance", !.run = r, !.step = s,
                                             !.then = "hook", !.outcome = "completed",
                                             !.todo = @ \ {r}])
      BY <2>1 DEF HookNext
    <3>2. QED
      BY <1>1, <3>1 DEF Become, Threads
  <2>2. CASE HookDone(p)
    <3>1. Finish(p) \/ Become(p, [pc[p] EXCEPT !.at = "advanced", !.step = task.current])
      BY <2>2 DEF HookDone
    <3>2. QED
      BY <1>1, <1>3, <3>1 DEF Become, Threads
  <2>3. QED
    BY <1>13, <2>1, <2>2
<1>14. ApproveClaim(p) => pc'[p].at = "executing"
  BY <1>2 DEF ApproveClaim
<1>15. QED
  BY <1>7, <1>8, <1>9, <1>10, <1>11, <1>12, <1>13, <1>14 DEF Continue

LEMMA BeginsElsewhere ==
  ASSUME RowsInv, NEW h \in Handlers, Begin(h)
  PROVE  /\ pc'[h].at \notin {"executing", "dispatch", "requested"}
         /\ (\E r \in Runs : Resume(h, r)) \/ pc'[h].at # "prompt"
<1>1. pc \in [Processes -> Threads] /\ pc[h] \in Threads /\ h \in Processes
  BY DEF RowsInv, TypeInv, TypeOK, Processes
<1>2. ASSUME NEW t, Become(h, t) PROVE pc'[h].at = t.at
  BY <1>1, <1>2 DEF Become
<1>3. ASSUME NEW s \in Steps, NEW asked \in Executors \cup {"default"}, StartRoute(h, s, asked)
      PROVE  pc'[h].at = "pick"
  <2>1. Become(h, [Idle EXCEPT !.at = "pick", !.step = s, !.asked = asked, !.then = "both"])
    BY <1>3 DEF StartRoute
  <2>2. QED
    BY <1>1, <2>1 DEF Become, Idle
<1>4. ASSUME NEW s \in Steps, RollbackRoute(h, s) PROVE pc'[h].at = "rollback"
  <2>1. Become(h, [pc[h] EXCEPT !.at = "rollback", !.step = s, !.then = "both"])
    BY <1>4 DEF RollbackRoute
  <2>2. QED
    BY <1>1, <2>1 DEF Become, Threads
<1>5. ASSUME NEW r \in Runs, SubmitApprove(h, r) \/ SubmitMerge(h, r) \/ SubmitChanges(h, r)
      PROVE  pc'[h].at \notin {"executing", "prompt", "dispatch", "requested"}
  <2>1. CASE SubmitApprove(h, r) \/ SubmitMerge(h, r)
    <3>1. PICK s, then : Become(h, [pc[h] EXCEPT !.at = "advance", !.run = r, !.step = s,
                                                !.outcome = "completed", !.then = then])
      BY <2>1 DEF SubmitApprove, SubmitMerge, EndRun
    <3>2. QED
      BY <1>1, <3>1 DEF Become, Threads
  <2>2. CASE SubmitChanges(h, r)
    <3>1. PICK s : Become(h, [pc[h] EXCEPT !.at = "block", !.step = s, !.outcome = "completed"])
      BY <2>2 DEF SubmitChanges
    <3>2. QED
      BY <1>1, <3>1 DEF Become, Threads
  <2>3. QED
    BY <1>5, <2>1, <2>2
<1>6. ASSUME NEW r \in Runs, \/ ApproveRead(h, r) \/ RejectRead(h, r) \/ Resume(h, r)
                             \/ \E passed \in BOOLEAN : CiHook(h, r, passed)
      PROVE  /\ pc'[h].at \notin {"executing", "dispatch", "requested"}
             /\ Resume(h, r) \/ pc'[h].at # "prompt"
  <2>1. CASE ApproveRead(h, r) \/ RejectRead(h, r)
    <3>1. PICK place \in {"approving", "rejecting"} :
            Become(h, [pc[h] EXCEPT !.at = place, !.run = r, !.step = run[r].step])
      BY <2>1 DEF ApproveRead, RejectRead, ApprovalRead
    <3>2. QED
      BY <1>1, <3>1 DEF Become, Threads
  <2>2. CASE Resume(h, r)
    <3>1. Become(h, [pc[h] EXCEPT !.at = "prompt", !.run = r, !.then = "resume"])
      BY <2>2 DEF Resume
    <3>2. QED
      BY <1>1, <2>2, <3>1 DEF Become, Threads
  <2>3. ASSUME NEW passed \in BOOLEAN, CiHook(h, r, passed) PROVE pc'[h].at = "ci"
    <3>1. PICK outcome : Become(h, [pc[h] EXCEPT !.at = "ci", !.run = r, !.outcome = outcome])
      BY <2>3 DEF CiHook
    <3>2. QED
      BY <1>1, <3>1 DEF Become, Threads
  <2>4. QED
    BY <1>6, <2>1, <2>2, <2>3
<1>7. CASE SyncHook(h) \/ ReviewHook(h) \/ PrMergedHook(h)
  <2>1. CASE SyncHook(h)
    <3>1. PICK s \in Steps : Become(h, [pc[h] EXCEPT !.at = "rollback", !.step = s])
      BY <2>1 DEF SyncHook
    <3>2. QED
      BY <1>1, <3>1 DEF Become, Threads
  <2>2. CASE ReviewHook(h)
    <3>1. Become(h, [pc[h] EXCEPT !.at = "blocking"])
      BY <2>2 DEF ReviewHook
    <3>2. QED
      BY <1>1, <3>1 DEF Become, Threads
  <2>3. CASE PrMergedHook(h)
    <3>1. Become(h, [pc[h] EXCEPT !.at = "hook", !.todo = MergeRuns])
      BY <2>3 DEF PrMergedHook
    <3>2. QED
      BY <1>1, <3>1 DEF Become, Threads
  <2>4. QED
    BY <1>7, <2>1, <2>2, <2>3
<1>8. CASE PrOpenedHook(h)
  BY <1>8 DEF PrOpenedHook, Free, At
<1>9. QED
  BY <1>3, <1>4, <1>5, <1>6, <1>7, <1>8 DEF Begin

LEMMA ClaimStep ==
  ASSUME Asked, ClaimInv, RowsInv', [Next]_vars
  PROVE  ClaimInv'
<1>1. ~Overlap /\ RowsInv /\ \A p \in Processes : pc[p].at \notin Resting => Alone(p)
  BY DEF Asked, ClaimInv
<1>2. AutoQueue \in Processes /\ \A h \in Handlers : h \in Processes
  BY DEF Processes
<1>3. pc \in [Processes -> Threads] /\ run \in [Runs -> RunRows]
  BY DEF ClaimInv, RowsInv, TypeInv, TypeOK
<1>4. ASSUME NEW p \in Processes, Alone(p), \A q \in Processes : q # p => pc'[q] = pc[q],
             pc'[p].at = "executing" => run'[pc'[p].run].approval = "executing"
      PROVE  ClaimInv'
  <2>1. \A q \in Processes : q # p => pc'[q].at \in Resting
    BY <1>4 DEF Alone
  <2>2. \A q \in Processes : pc'[q].at \notin Resting => q = p
    BY <2>1
  <2>3. \A q \in Processes : pc'[q].at = "executing" => pc'[q].at \notin Resting
    BY DEF Resting
  <2>4. QED
    BY <1>4, <2>1, <2>2, <2>3 DEF ClaimInv, Alone, At
<1>5. ASSUME NEW p \in Processes, Continue(p) PROVE ClaimInv'
  <2>1. Alone(p)
    BY <1>1, <1>5, MovesAlone
  <2>2. pc'[p].at = "executing" => run'[pc'[p].run].approval = "executing"
    <3>1. CASE ApproveClaim(p)
      <4>1. pc'[p].run = pc[p].run /\ pc[p].run \in Runs
        BY <3>1, TurnGoes DEF ApproveClaim, At, Same, ClaimInv, RowsInv, TypeInv, RunInHand,
                              Handed, HasRun
      <4>2. run'[pc[p].run].approval = "executing"
        BY <1>3, <3>1, <4>1 DEF ApproveClaim, RunRows
      <4>3. QED
        BY <4>1, <4>2
    <3>2. QED
      BY <1>5, <3>1, OnlyClaims DEF ClaimInv
  <2>3. \A q \in Processes : q # p => pc'[q] = pc[q]
    BY <1>5, OthersWait DEF ClaimInv
  <2>4. QED
    BY <1>4, <2>1, <2>2, <2>3
<1>6. ASSUME NEW h \in Handlers, Begin(h) PROVE ClaimInv'
  <2>1. Alone(h) /\ \A q \in Processes : q # h => pc'[q] = pc[q]
    BY <1>1, <1>2, <1>6, MovesAlone, Begins
  <2>2. pc'[h].at # "executing"
    BY <1>6, BeginsElsewhere DEF ClaimInv
  <2>3. QED
    BY <1>2, <1>4, <2>1, <2>2
<1>7. CASE AutoPick
  <2> DEFINE t == [Idle EXCEPT !.at = "pick", !.step = task.current, !.then = Head(queue)]
  <2>1. Alone(AutoQueue) /\ Become(AutoQueue, t) /\ t.at = "pick"
    BY <1>1, <1>2, <1>7, MovesAlone DEF AutoPick, Idle
  <2> HIDE DEF t
  <2>2. (\A q \in Processes : q # AutoQueue => pc'[q] = pc[q]) /\ pc'[AutoQueue].at = "pick"
    BY <1>2, <1>3, <2>1 DEF Become
  <2>3. QED
    BY <1>2, <1>4, <2>1, <2>2
<1>8. CASE Crash
  BY <1>8 DEF Crash, Idle, ClaimInv, Resting, At
<1>9. ASSUME pc' = pc, \A r \in Runs : run[r].approval = "executing" => run'[r].approval = "executing"
      PROVE  ClaimInv'
  <2>1. \A p \in Processes : pc[p].at = "executing" => pc[p].run \in Runs
    BY DEF ClaimInv, RowsInv, TypeInv, RunInHand, Handed, HasRun
  <2>2. QED
    BY <1>9, <2>1 DEF ClaimInv, Alone, At
<1>10. CASE AutoDrop \/ OpenPrByHand \/ MergeByHand \/ UNCHANGED vars
  BY <1>9, <1>10 DEF AutoDrop, OpenPrByHand, MergeByHand, vars
<1>11. ASSUME NEW r \in Runs, Cancel(r) \/ Complete(r) \/ CreatePrRoute(r) PROVE ClaimInv'
  <2>1. pc' = pc
    BY <1>11 DEF Cancel, Complete, CreatePrRoute
  <2>2. \A q \in Runs : run[q].approval = "executing" => run'[q].approval = "executing"
    <3>1. CASE Cancel(r) \/ Complete(r)
      BY <1>3, <3>1 DEF Cancel, Complete, RunRows
    <3>2. CASE CreatePrRoute(r) /\ PrApproval
      BY <1>3, <3>2 DEF CreatePrRoute, RequestApproval, RunRows
    <3>3. CASE CreatePrRoute(r) /\ ~PrApproval
      <4> DEFINE n == PrOf(r)
      <4>1. run' = [run EXCEPT ![r].pr = n, ![r].status = "waiting_ci"]
        BY <3>3 DEF CreatePrRoute
      <4> HIDE DEF n
      <4>2. QED
        BY <1>3, <4>1 DEF RunRows
    <3>4. QED
      BY <1>11, <3>1, <3>2, <3>3
  <2>3. QED
    BY <1>9, <2>1, <2>2
<1>12. QED
  BY <1>5, <1>6, <1>7, <1>8, <1>10, <1>11 DEF Next, Outside

\* The one step that opens a pull request where a policy asks for an approval.
LEMMA OpensBehindClaim ==
  ASSUME Asked, PrApproval, ClaimInv, Next, pr'.number # pr.number
  PROVE  \E r \in Runs : run[r].approval = "executing" /\ run'[r].pr = pr'.number
<1>0. /\ pc \in [Processes -> Threads] /\ run \in [Runs -> RunRows] /\ pr \in PullRequests
      /\ \A p \in Processes : pc[p].at = "executing" => pc[p].run \in Runs
  BY DEF ClaimInv, RowsInv, TypeInv, TypeOK, RunInHand, Handed, HasRun
<1>1. /\ MergedPr.number = pr.number
      /\ [pr EXCEPT !.accepted = TRUE].number = pr.number
      /\ [pr EXCEPT !.told = TRUE].number = pr.number
      /\ OpenedPr.number = pr.number + 1
  BY <1>0 DEF MergedPr, OpenedPr, PullRequests
<1>2. ASSUME NEW p \in Processes, ApproveExecute(p)
      PROVE  \E r \in Runs : run[r].approval = "executing" /\ run'[r].pr = pr'.number
  <2> DEFINE r == pc[p].run
             n == PrOf(r)
  <2>1. r \in Runs /\ run[r].approval = "executing" /\ run[r] \in RunRows
    BY <1>0, <1>2 DEF ApproveExecute, ClaimInv, At
  <2>2. pr' = CreatedPr(r) /\ run' = [run EXCEPT ![r] =
          [run[r] EXCEPT !.status = "completed", !.pr = n, !.approval = "executed"]]
    BY <1>2 DEF ApproveExecute, EndRun
  <2>3. pr' = OpenedPr /\ n = pr.number + 1
    BY <2>2 DEF CreatedPr, PrOf
  <2> HIDE DEF n, r
  <2>4. run'[r].pr = n
    BY <1>0, <2>1, <2>2 DEF RunRows
  <2>5. QED
    BY <1>1, <2>1, <2>3, <2>4
<1>3. ASSUME NEW p \in Processes, Continue(p), ~ApproveExecute(p) PROVE FALSE
  BY <1>1, <1>3
     DEF Continue, At, StartRead, StartAttempt, StartCreateRun, StartMoveStep,
         StartMoveTask, DispatchWait, DispatchFail, DispatchCreatePr,
         DispatchRequestApproval, ParkStep, DispatchAgent, PromptOk, Finalize, PromptFail,
         AdvanceRead, AdvanceSteps, AdvanceTask, BlockStep, BlockTask, ApproveClaim,
         ApproveFail, RejectCommit, CiCommit, AutoMergeOk, AutoMergeFail,
         HookNext, HookDone, RollbackSteps, RollbackTask
<1>4. ASSUME NEW h \in Handlers, Begin(h) PROVE FALSE
  BY <1>1, <1>4 DEF Begin, StartRoute, RollbackRoute, SubmitApprove, SubmitMerge, SubmitChanges,
                    ApproveRead, RejectRead, ApprovalRead, Resume, CiHook, SyncHook, ReviewHook,
                    PrOpenedHook, PrMergedHook
<1>5. ~AutoPick /\ ~AutoDrop /\ ~Outside
  BY <1>1 DEF AutoPick, AutoDrop, Outside, Cancel, Complete, CreatePrRoute, OpenPrByHand,
              MergeByHand, Crash, Intervene, Asked
<1>6. QED
  BY <1>2, <1>3, <1>4, <1>5 DEF Next

\* Where the policy asks for an approval, no pull request is opened without one that is being
\* executed at that time: not by a pr.create step, by an approval that comes late or again
\* (routes/approvals.ts), or by create-pr, across rollbacks and restarts of the backend.
THEOREM PrNeedsApprovalHolds ==
  ASSUME Asked
  PROVE  Spec => PrNeedsApproval
<1>1. Init => (RowsInv => ClaimInv)
  BY DEF Init, ClaimInv, Idle, Resting, At
<1>2. ClaimInv /\ RowsInv' /\ [Next]_vars => ClaimInv'
  BY ClaimStep
<1> DEFINE Behind == PrApproval /\ pr'.number # pr.number =>
                       \E r \in Runs : /\ run[r].approval = "executing"
                                       /\ run'[r].pr = pr'.number
<1>3. ClaimInv /\ [Next]_vars => [Behind]_vars
  BY OpensBehindClaim
<1>4. QED
  BY <1>1, <1>2, <1>3, RowsCorrect, PTL DEF Spec, PrNeedsApproval

-----------------------------------------------------------------------------
(***************************************************************************)
(* The issue follows its task.  Of what users do, cancel and complete set  *)
(* the issue and not the task, and a backend that stops between a merge    *)
(* and the end of its step leaves an issue done whose task is not; nothing *)
(* else needs to be excluded.                                              *)
(***************************************************************************)

Followed ==
  ~Overlap /\ Interventions \cap {"cancel", "complete", "crash"} = {}

Telling == {"advance", "advanced", "moved"}

\* What the issue says of the task, as IssueFollowsTask has it.
Told ==
  /\ task.status = "failed" => issue = "failed"
  /\ task.status = "blocked" => issue = "reviewing"
  /\ task.status = "completed" =>
       issue = IF Kind[NSteps] = "pr.merge" THEN "done" ELSE "pending"
  /\ task.status = "running" => issue \in {"running", "reviewing"}
  /\ issue = "done" => task.status = "completed"

\* The issue is told as soon as the handler that closes a step has moved the task,
\* and a handler that sets the issue alone does so of a task that is running.
FollowInv ==
  /\ RowsInv
  /\ \A p \in Processes : pc[p].at \notin Resting => Alone(p)
  /\ (\A p \in Processes : pc[p].at \notin Telling) => Told
  /\ \A p \in Processes : pc[p].at \in {"dispatch", "requested"} => task.status = "running"

\* A handler that closes a step goes on until it has moved the task.
LEMMA TellsOn ==
  ASSUME RowsInv, NEW p \in Processes, Continue(p), pc[p].at \in Telling
  PROVE  AdvanceTask(p) \/ pc'[p].at \in Telling
<1>1. pc \in [Processes -> Threads] /\ pc[p] \in Threads
  BY DEF RowsInv, TypeInv, TypeOK
<1>2. AdvanceRead(p) \/ AdvanceSteps(p) \/ AdvanceTask(p)
  BY DEF Telling, Continue, At, StartRead, StartAttempt, StartCreateRun, StartMoveStep,
         StartMoveTask, DispatchWait, DispatchFail, DispatchCreatePr,
         DispatchRequestApproval, ParkStep, DispatchAgent, PromptOk, Finalize, PromptFail,
         BlockStep, BlockTask, ApproveClaim,
         ApproveExecute, ApproveFail, RejectCommit, CiCommit, AutoMergeOk, AutoMergeFail,
         HookNext, HookDone, RollbackSteps, RollbackTask
<1>3. CASE AdvanceRead(p)
  <2>1. PICK b : Become(p, [pc[p] EXCEPT !.at = "advanced", !.nextPending = b])
    BY <1>3 DEF AdvanceRead
  <2>2. pc'[p].at = "advanced"
    BY <1>1, <2>1 DEF Become, Threads
  <2>3. QED
    BY <2>2 DEF Telling
<1>4. CASE AdvanceSteps(p)
  BY <1>4, TurnGoes DEF AdvanceSteps, Telling
<1>5. QED
  BY <1>2, <1>3, <1>4

LEMMA FollowStep ==
  ASSUME Followed, FollowInv, RowsInv', [Next]_vars
  PROVE  FollowInv'
<1>1. /\ ~Overlap /\ RowsInv
      /\ \A p \in Processes : pc[p].at \notin Resting => Alone(p)
      /\ task \in [status : TaskStatuses, current : Steps]
  BY DEF Followed, FollowInv, RowsInv, TypeInv, TypeOK
<1>2. AutoQueue \in Processes /\ \A h \in Handlers : h \in Processes
  BY DEF Processes
<1>3. Telling \cap Resting = {} /\ {"dispatch", "requested"} \cap Resting = {}
  BY DEF Telling, Resting
<1>4. ASSUME NEW p \in Processes, Alone(p), \A q \in Processes : q # p => pc'[q] = pc[q],
             pc'[p].at \notin Telling => Told',
             pc'[p].at \in {"dispatch", "requested"} => task'.status = "running"
      PROVE  FollowInv'
  <2>1. \A q \in Processes : q # p => pc'[q].at \in Resting
    BY <1>4 DEF Alone
  <2>2. \A q \in Processes : pc'[q].at \notin Resting => q = p
    BY <2>1
  <2>3. \A q \in Processes : pc'[q].at \notin Resting => Alone(q)'
    BY <2>1, <2>2 DEF Alone
  <2>4. \A q \in Processes : pc'[q].at \in {"dispatch", "requested"} => task'.status = "running"
    BY <1>3, <1>4, <2>2
  <2>5. QED
    BY <1>4, <2>3, <2>4 DEF FollowInv
<1>5. ASSUME NEW p \in Processes, Alone(p), \A q \in Processes : q # p => pc'[q] = pc[q],
             UNCHANGED <<task, issue>>,
             pc[p].at \in Telling => pc'[p].at \in Telling,
             pc'[p].at \in {"dispatch", "requested"} => pc[p].at \in {"dispatch", "requested"}
      PROVE  FollowInv'
  <2>1. \A q \in Processes : q # p => pc[q].at \notin Telling
    BY <1>3, <1>5 DEF Alone
  <2>2. pc'[p].at \notin Telling => Told
    BY <1>5, <2>1 DEF FollowInv
  <2>3. Told => Told'
    BY <1>5 DEF Told
  <2>4. QED
    BY <1>4, <1>5, <2>2, <2>3 DEF FollowInv
<1>6. ASSUME pc' = pc, UNCHANGED <<task, issue>> PROVE FollowInv'
  BY <1>6 DEF FollowInv, Alone, Told
<1>7. ASSUME NEW p \in Processes, Continue(p) PROVE FollowInv'
  <2>1. Alone(p) /\ \A q \in Processes : q # p => pc'[q] = pc[q]
    BY <1>1, <1>7, MovesAlone, OthersWait
  <2>2. CASE StartMoveTask(p) \/ RollbackTask(p) \/ BlockTask(p)
    <3>1. Told'
      BY <1>1, <2>2 DEF StartMoveTask, RollbackTask, BlockTask, Told
    <3>2. BlockTask(p) \/ task'.status = "running"
      BY <2>2 DEF StartMoveTask, RollbackTask
    <3>3. BlockTask(p) => pc'[p].at = "idle"
      BY <1>1, TurnFinishes DEF BlockTask
    <3>4. QED
      BY <1>4, <2>1, <3>1, <3>2, <3>3
  <2>3. CASE AdvanceTask(p)
    <3>1. Told'
      BY <1>1, <2>3 DEF AdvanceTask, Told, Steps
    <3>2. pc'[p].at \notin {"dispatch", "requested"}
      BY <1>1, <1>7, <2>3, OnlyClaims DEF AdvanceTask, StartMoveTask, DispatchRequestApproval, At
    <3>3. QED
      BY <1>4, <2>1, <3>1, <3>2
  <2>4. CASE ParkStep(p) \/ DispatchAgent(p)
    <3>1. task.status = "running" /\ task' = task /\ issue' \in {"running", "reviewing"}
      BY <2>4 DEF ParkStep, DispatchAgent, At, FollowInv
    <3>2. Told'
      BY <3>1 DEF Told
    <3>3. QED
      BY <1>4, <2>1, <3>1, <3>2
  <2>5. CASE /\ ~StartMoveTask(p) /\ ~RollbackTask(p) /\ ~BlockTask(p) /\ ~AdvanceTask(p)
             /\ ~ParkStep(p) /\ ~DispatchAgent(p)
    <3>1. UNCHANGED <<task, issue>>
      BY <1>7, <2>5
         DEF Continue, StartRead, StartAttempt, StartCreateRun, StartMoveStep, DispatchWait,
             DispatchFail, DispatchCreatePr, DispatchRequestApproval, PromptOk, Finalize,
             PromptFail, AdvanceRead, AdvanceSteps, BlockStep, ApproveClaim, ApproveExecute,
             ApproveFail, RejectCommit, CiCommit, AutoMergeOk, AutoMergeFail, HookNext,
             HookDone, RollbackSteps
    <3>2. pc[p].at \in Telling => pc'[p].at \in Telling
      BY <1>1, <1>7, <2>5, TellsOn
    <3>3. pc'[p].at \in {"dispatch", "requested"} => pc[p].at \in {"dispatch", "requested"}
      BY <1>1, <1>7, <2>5, OnlyClaims DEF DispatchRequestApproval, At
    <3>4. QED
      BY <1>5, <2>1, <3>1, <3>2, <3>3
  <2>6. QED
    BY <2>2, <2>3, <2>4, <2>5
<1>8. ASSUME NEW h \in Handlers, Begin(h) PROVE FollowInv'
  <2>1. Alone(h) /\ pc[h].at = "idle" /\ \A q \in Processes : q # h => pc'[q] = pc[q]
    BY <1>1, <1>8, MovesAlone, Begins DEF Free, At
  <2>2. pc'[h].at \notin {"dispatch", "requested"}
    BY <1>1, <1>8, BeginsElsewhere
  <2>3. task' = task
    BY <1>8 DEF Begin, StartRoute, RollbackRoute, SubmitApprove, SubmitMerge, SubmitChanges,
                ApproveRead, RejectRead, ApprovalRead, Resume, CiHook, SyncHook, ReviewHook,
                PrOpenedHook, PrMergedHook
  <2>4. ASSUME NEW r \in Runs, SubmitMerge(h, r) PROVE pc'[h].at = "advance"
    <3>1. pc[h] \in Threads /\ pc \in [Processes -> Threads]
      BY <1>1, <1>2 DEF RowsInv, TypeInv, TypeOK
    <3>2. PICK s, then : Become(h, [pc[h] EXCEPT !.at = "advance", !.run = r, !.step = s,
                                                !.outcome = "completed", !.then = then])
      BY <2>4 DEF SubmitMerge, EndRun
    <3>3. QED
      BY <1>2, <3>1, <3>2 DEF Become, Threads
  <2>5. (\E r \in Runs : SubmitMerge(h, r)) \/ issue' = issue
    BY <1>8 DEF Begin, StartRoute, RollbackRoute, SubmitApprove, SubmitChanges,
                ApproveRead, RejectRead, ApprovalRead, Resume, CiHook, SyncHook, ReviewHook,
                PrOpenedHook, PrMergedHook
  <2>6. CASE \E r \in Runs : SubmitMerge(h, r)
    BY <1>2, <1>4, <2>1, <2>2, <2>4, <2>6 DEF Telling
  <2>7. CASE issue' = issue
    BY <1>2, <1>5, <2>1, <2>2, <2>3, <2>7 DEF Telling
  <2>8. QED
    BY <2>5, <2>6, <2>7
<1>9. CASE AutoPick
  <2> DEFINE t == [Idle EXCEPT !.at = "pick", !.step = task.current, !.then = Head(queue)]
  <2>1. Alone(AutoQueue) /\ Become(AutoQueue, t) /\ t.at = "pick" /\ pc[AutoQueue].at = "idle"
    BY <1>1, <1>9, MovesAlone DEF AutoPick, Free, At, Idle
  <2> HIDE DEF t
  <2>2. (\A q \in Processes : q # AutoQueue => pc'[q] = pc[q]) /\ pc'[AutoQueue].at = "pick"
    BY <1>1, <1>2, <2>1 DEF Become, RowsInv, TypeInv, TypeOK
  <2>3. UNCHANGED <<task, issue>>
    BY <1>9 DEF AutoPick
  <2>4. QED
    BY <1>2, <1>5, <2>1, <2>2, <2>3 DEF Telling
<1>10. CASE AutoDrop \/ UNCHANGED vars
  BY <1>6, <1>10 DEF AutoDrop, vars
<1>11. CASE Outside
  BY <1>6, <1>11 DEF Outside, Cancel, Complete, CreatePrRoute, OpenPrByHand, MergeByHand, Crash,
                     Intervene, Followed
<1>12. QED
  BY <1>7, <1>8, <1>9, <1>10, <1>11 DEF Next

\* Whenever nothing is being handled, an issue says what became of its task: after
\* failures and blocks, rollbacks, old runs submitted again, create-pr, resumed prompts
\* and whatever happens on GitHub.
THEOREM IssueFollowsTaskHolds ==
  ASSUME Followed
  PROVE  Spec => []IssueFollowsTask
<1>1. Init => (RowsInv => FollowInv)
  BY DEF Init, FollowInv, Idle, Resting, Told
<1>2. FollowInv /\ RowsInv' /\ [Next]_vars => FollowInv'
  BY FollowStep
<1>3. FollowInv => IssueFollowsTask
  BY DEF FollowInv, IssueFollowsTask, AllIdle, At, Told, Telling
<1>4. QED
  BY <1>1, <1>2, <1>3, RowsCorrect, PTL DEF Spec

-----------------------------------------------------------------------------

(***************************************************************************)
(* The steps of a task form a pipeline.  On top of one run at a time,    *)
(* each place in a handler says where its step stands: a run that is     *)
(* open is of the step that is worked on, everything before that step is *)
(* completed and everything behind it is pending.                        *)
(***************************************************************************)

\* People merge, and no run is prompted a second time: the prompt that is left behind
\* would fail the step when it times out, however far the task has come.
Straight == Undisturbed /\ PeopleMerge /\ "resume" \notin Interventions

Busy   == {"running", "waiting_human", "waiting_ci"}
NoneBusy(steps) == \A s \in Steps : steps[s] \notin Busy
Merges(s) == Kind[s] = "pr.merge"

Along(steps) ==
  /\ \A q, s \in Steps : q < s /\ steps[s] # "pending" => steps[q] = "completed"
  /\ steps[1] # "pending"
  /\ \A s \in Steps : Merges(s) => steps[s] \notin {"failed", "blocked"}

\* An open run is of the step that is worked on, or is about to be.
Works(t, steps, rows, r) ==
  Open(rows[r]) => \/ steps[rows[r].step] \in Busy
                   \/ t.at = "created" /\ r = t.run
                   \/ Merges(rows[r].step) /\ steps[rows[r].step] = "completed"

Ground(t, steps, rows, now, left) ==
  /\ t.at # "rolling" => steps[now.current] # "pending"
  /\ \A r \in Runs : Works(t, steps, rows, r)
  /\ now.status = "blocked" \/ t.at = "blocking" => Stuck(left) \/ NoneBusy(steps)

\* What a handler may rely on at each place, of the step it acts on.
Sits(t, steps, rows) ==
  /\ t.at = "created" => steps[t.step] = "ready"
  /\ t.at \in HasOpen \ {"created"} => steps[rows[t.run].step] \in Busy
  /\ t.at \in {"requested", "rejecting"} => rows[t.run].step = t.step
  /\ t.at = "hook" => /\ t.outcome = "completed"
                      /\ \A r \in t.todo : /\ Merges(rows[r].step)
                                           /\ steps[rows[r].step] # "pending"
  /\ t.at \in {"advance", "advanced"} =>
       IF Merges(t.step) THEN t.outcome = "completed" /\ steps[t.step] # "pending"
       ELSE steps[t.step] \in Busy /\ NoneOpen(rows)
  /\ t.at = "block" => ~Merges(t.step) /\ steps[t.step] \in Busy /\ NoneOpen(rows)
  /\ t.at = "advanced" /\ t.outcome = "completed" /\ t.step < NSteps => t.nextPending
  /\ t.at = "moved" /\ t.outcome = "completed" =>
       steps[t.step] = "completed" /\ (t.step < NSteps => steps[t.step + 1] = "ready")
  /\ t.at \in {"advance", "advanced", "moved"} /\ t.then = "hook" => t.outcome = "completed"
  /\ t.at \in {"automerge", "rollback"} => NoneBusy(steps) /\ steps[1] # "ready"
  /\ t.at \in {"rollback", "rolling"} => t.then # "hook"

\* While an agent is awaited, nobody else does anything to the steps.
Quiet(t) == t.at \in {"idle", "hook", "blocking"} /\ t.todo = {}
Awaited(p) ==
  /\ stepStatus[run[pc[p].run].step] \in Busy
  /\ OnlyOpen(run, pc[p].run)
  /\ \A q \in Processes \ {p} : Quiet(pc[q])

Blank(t) == t.at = "idle" => t.outcome = "completed" /\ t.todo = {}

PipeInv ==
  /\ Along(stepStatus)
  /\ \A p \in Processes : Alone(p) =>
       Ground(pc[p], stepStatus, run, task, budget) /\ Sits(pc[p], stepStatus, run)
  /\ \A p \in Processes : At(p, "prompt") => Awaited(p)
  /\ \A p \in Processes : Blank(pc[p])

WayThen(t) ==
  /\ Along(stepStatus')
  /\ Ground(t, stepStatus', run', task', budget')
  /\ Sits(t, stepStatus', run')
  /\ Blank(t)

\* What p may rely on when it moves, and keeps.
HasWay(p) ==
  /\ Straight /\ HasTurn(p) /\ DoneInv /\ Onward
  /\ Along(stepStatus) /\ Blank(pc[p])
  /\ Ground(pc[p], stepStatus, run, task, budget)
  /\ Sits(pc[p], stepStatus, run)
  /\ At(p, "prompt") => Awaited(p)

WayFacts(p) ==
  /\ TurnFacts(p) /\ Along(stepStatus) /\ Blank(pc[p])
  /\ Ground(pc[p], stepStatus, run, task, budget) /\ Sits(pc[p], stepStatus, run)
  /\ task \in [status : TaskStatuses, current : Steps]
  /\ NSteps \in Nat /\ 1 \in Steps /\ \A s \in Steps : Merges(s) => s = NSteps
  /\ \A r \in Runs : run[r].step \in Steps /\ Waits(run[r])
                     /\ (Open(run[r]) => Used(r))
                     /\ (Used(r) => run'[r].step = run[r].step)
  /\ Knows(pc[p])

LEMMA WayHas ==
  ASSUME NEW p \in Processes, HasWay(p)
  PROVE  WayFacts(p) /\ RowsInv
<1>1. RowsInv
  BY DEF HasWay, HasTurn
<1>2. /\ task \in [status : TaskStatuses, current : Steps]
      /\ \A r \in Runs : run[r].step \in Steps
  BY <1>1 DEF RowsInv, TypeInv, TypeOK, RunRows
<1>3. NSteps \in Nat /\ 1 \in Steps /\ \A s \in Steps : Merges(s) => s = NSteps
  BY StepsAssumption DEF Steps, Merges
<1>4. \A r \in Runs : Open(run[r]) => Used(r)
  BY <1>1 DEF RowsInv, Open, Used, ActiveStatuses
<1>5. \A r \in Runs : Waits(run[r]) /\ (Used(r) => run'[r].step = run[r].step)
  BY DEF HasWay, DoneInv, MergeRunsWait, Onward
<1>6. TurnFacts(p) /\ Knows(pc[p])
  BY TurnHas DEF HasWay, DoneInv
<1>7. QED
  BY <1>1, <1>2, <1>3, <1>4, <1>5, <1>6 DEF HasWay, WayFacts

LEMMA SitsAnywhere ==
  ASSUME NEW t, NEW steps, NEW rows,
         t.at \in {"idle", "pick", "start", "create", "prompt", "blocking"}
  PROVE  Sits(t, steps, rows)
BY DEF Sits, HasOpen, HasRun

\* A step of the handler that leaves the steps alone, and opens no run.
LEMMA WayGoes ==
  ASSUME NEW p \in Processes, HasWay(p), NEW t,
         stepStatus' = stepStatus, pc[p].at # "created", t.at # "blocking",
         \A r \in Runs : Open(run'[r]) => Open(run[r]),
         \/ UNCHANGED task /\ pc[p].at # "rolling"
         \/ stepStatus[task'.current] # "pending" /\ task'.status # "blocked",
         Stuck(budget) => Stuck(budget'),
         Blank(t), Sits(t, stepStatus, run')
  PROVE  WayThen(t)
<1>1. WayFacts(p)
  BY WayHas
<1>2. \A r \in Runs : Works(t, stepStatus, run', r)
  BY <1>1 DEF WayFacts, Ground, Works
<1>3. stepStatus[task'.current] # "pending"
  BY <1>1 DEF WayFacts, Ground
<1>4. task'.status = "blocked" => Stuck(budget') \/ NoneBusy(stepStatus)
  BY <1>1 DEF WayFacts, Ground
<1>5. QED
  BY <1>1, <1>2, <1>3, <1>4 DEF WayFacts, WayThen, Ground

\* The run in hand ends, with its step to be closed next.
LEMMA WayEnds ==
  ASSUME NEW p \in Processes, HasWay(p), NEW t,
         t.at \in {"advance", "block"}, NoneOpen(run'),
         t.at = "advance" /\ t.then = "hook" => t.outcome = "completed",
         UNCHANGED <<stepStatus, task>>, pc[p].at \notin {"created", "rolling"},
         ~Merges(t.step), stepStatus[t.step] \in Busy,
         Stuck(budget) => Stuck(budget')
  PROVE  WayThen(t)
<1>1. \A q \in Runs : Open(run'[q]) => Open(run[q])
  BY DEF NoneOpen
<1>2. Sits(t, stepStatus, run')
  BY DEF Sits, HasOpen, HasRun
<1>3. Blank(t) /\ t.at # "blocking"
  BY DEF Blank
<1>4. UNCHANGED task /\ stepStatus' = stepStatus
  OBVIOUS
<1>5. QED
  BY <1>1, <1>2, <1>3, <1>4, WayGoes

LEMMA WayFinishes ==
  ASSUME NEW p \in Processes, HasWay(p), Finish(p), pc[p].at # "created",
         stepStatus' = stepStatus, run' = run, budget' = budget,
         \/ UNCHANGED task /\ pc[p].at # "rolling"
         \/ stepStatus[task'.current] # "pending" /\ task'.status # "blocked"
  PROVE  WayThen(pc'[p])
<1>1. pc'[p] = Idle
  BY WayHas DEF Finish, Become, WayFacts, TurnFacts
<1>2. Idle.at = "idle" /\ Blank(Idle)
  BY DEF Idle, Blank
<1>3. Sits(Idle, stepStatus, run)
  BY <1>2, SitsAnywhere
<1>4. QED
  BY <1>1, <1>2, <1>3, WayGoes

LEMMA WayStarts ==
  ASSUME NEW p \in Processes, HasWay(p),
         \/ StartRead(p) \/ StartAttempt(p) \/ StartCreateRun(p) \/ StartMoveStep(p)
         \/ StartMoveTask(p)
  PROVE  WayThen(pc'[p])
<1> USE DEF At
<1>0. WayFacts(p) /\ RowsInv
  BY WayHas
<1>p. pc \in [Processes -> Threads] /\ pc[p] \in Threads /\ pc[p].step \in Steps
  BY <1>0 DEF WayFacts, TurnFacts
<1>1. CASE StartRead(p)
  <2>1. CASE Finish(p)
    BY <1>1, <2>1, WayFinishes DEF StartRead
  <2>2. CASE ~Finish(p)
    <3> DEFINE e == IF pc[p].asked = "default" THEN executor[pc[p].step] ELSE pc[p].asked
    <3>1. Become(p, [pc[p] EXCEPT !.at = "start", !.branch = workspace, !.exec = e])
      BY <1>1, <2>2 DEF StartRead
    <3> HIDE DEF e
    <3>2. pc'[p].at = "start"
      BY <1>p, <3>1 DEF Become, Threads
    <3>3. Sits(pc'[p], stepStatus, run) /\ Blank(pc'[p])
      BY <3>2, SitsAnywhere DEF Blank
    <3>4. QED
      BY <1>1, <3>2, <3>3, WayGoes DEF StartRead
  <2>3. QED
    BY <2>1, <2>2
<1>2. CASE StartAttempt(p)
  <2>1. PICK a : Become(p, [pc[p] EXCEPT !.at = "create", !.attempt = a])
    BY <1>2 DEF StartAttempt
  <2>2. pc'[p].at = "create"
    BY <1>p, <2>1 DEF Become, Threads
  <2>3. Sits(pc'[p], stepStatus, run) /\ Blank(pc'[p])
    BY <2>2, SitsAnywhere DEF Blank
  <2>4. QED
    BY <1>2, <2>2, <2>3, WayGoes DEF StartAttempt
<1>3. CASE StartCreateRun(p)
  <2>1. PICK r \in Runs : /\ Become(p, [pc[p] EXCEPT !.at = "created", !.run = r])
                          /\ \A q \in Runs \ {r} : run'[q] = run[q]
    BY <1>0, <1>3 DEF StartCreateRun, WayFacts, TurnFacts
  <2>2. pc'[p].at = "created" /\ pc'[p].run = r /\ pc'[p].step = pc[p].step
    BY <1>p, <2>1 DEF Become, Threads
  <2>3. stepStatus[pc[p].step] = "ready"
    BY <1>0, <1>3 DEF StartCreateRun, WayFacts, TurnFacts, Turn
  <2>4. Sits(pc'[p], stepStatus, run')
    BY <2>2, <2>3 DEF Sits, HasOpen, HasRun
  <2>5. \A q \in Runs : Works(pc'[p], stepStatus, run', q)
    BY <1>0, <1>3, <2>1, <2>2 DEF StartCreateRun, WayFacts, Ground, Works
  <2>6. Ground(pc'[p], stepStatus, run', task, budget)
    BY <1>0, <1>3, <2>2, <2>5 DEF StartCreateRun, WayFacts, Ground
  <2>7. QED
    BY <1>0, <1>3, <2>2, <2>4, <2>6 DEF StartCreateRun, WayFacts, WayThen, Blank
<1>4. CASE StartMoveStep(p)
  <2> DEFINE s == pc[p].step
             r == pc[p].run
  <2>1. pc'[p].at = "stepped" /\ Same(pc'[p], pc[p]) /\ pc[p].at = "created"
    BY <1>0, <1>4, TurnGoes DEF StartMoveStep
  <2>2. UNCHANGED <<run, task, budget>>
    BY <1>4 DEF StartMoveStep
  <2>3. /\ r \in Runs /\ run[r].step = s /\ OnlyOpen(run, r)
        /\ stepStatus[s] = "ready" /\ (task.status = "blocked" => Stuck(budget))
        /\ stepStatus \in [Steps -> StepStatuses]
    BY <1>0, <2>1 DEF WayFacts, TurnFacts, Turn, Holds, HasOpen, HasRun, Sits, Knows
  <2>4. /\ \A q \in Steps \ {s} : stepStatus'[q] = stepStatus[q]
        /\ stepStatus'[s] \in Busy
    BY <1>p, <1>4, <2>3 DEF StartMoveStep, Busy
  <2> HIDE DEF s
  <2>5. Along(stepStatus')
    BY <1>0, <1>p, <2>3, <2>4 DEF WayFacts, Along, Busy
  <2>6. \A q \in Runs : Works(pc'[p], stepStatus', run, q)
    BY <2>3, <2>4 DEF OnlyOpen, Works
  <2>7. stepStatus'[task.current] # "pending"
    BY <1>0, <2>1, <2>4 DEF WayFacts, Ground, Busy
  <2>8. Sits(pc'[p], stepStatus', run)
    BY <2>1, <2>3, <2>4 DEF Sits, Same, HasOpen, HasRun
  <2>9. Ground(pc'[p], stepStatus', run, task, budget)
    BY <2>1, <2>3, <2>6, <2>7 DEF Ground
  <2>10. QED
    BY <2>1, <2>2, <2>5, <2>8, <2>9 DEF WayThen, Blank
<1>5. CASE StartMoveTask(p)
  <2> DEFINE s == pc[p].step
             r == pc[p].run
  <2>1. pc'[p].at = "dispatch" /\ Same(pc'[p], pc[p]) /\ pc[p].at = "stepped"
    BY <1>0, <1>5, TurnGoes DEF StartMoveTask
  <2>2. UNCHANGED <<run, stepStatus, budget>> /\ task'.current = s /\ task'.status = "running"
    BY <1>5 DEF StartMoveTask
  <2>3. run[r].step = s /\ stepStatus[s] \in Busy
    BY <1>0, <2>1 DEF WayFacts, Sits, Knows, HasOpen, HasRun
  <2>4. Sits(pc'[p], stepStatus, run)
    BY <2>1, <2>3 DEF Sits, Same, HasOpen, HasRun
  <2>5. stepStatus[task'.current] # "pending"
    BY <2>2, <2>3 DEF Busy
  <2>6. QED
    BY <2>1, <2>2, <2>4, <2>5, WayGoes DEF Blank
<1>6. QED
  BY <1>1, <1>2, <1>3, <1>4, <1>5

\* The run in hand, as far as it matters here.
LEMMA WayHolds ==
  ASSUME NEW p \in Processes, HasWay(p), pc[p].at \in HasOpen \ {"created"}
  PROVE  /\ pc[p].run \in Runs /\ run[pc[p].run] \in RunRows /\ Executed(run[pc[p].run])
         /\ OnlyOpen(run, pc[p].run) /\ Fits(pc[p], run[pc[p].run])
         /\ stepStatus[run[pc[p].run].step] \in Busy
         /\ pc[p].at \in {"stepped", "dispatch", "requested", "rejecting"} =>
              run[pc[p].run].step = pc[p].step
         /\ run[pc[p].run].executor # "human" => ~Merges(run[pc[p].run].step)
<1>1. WayFacts(p)
  BY WayHas
<1>2. /\ pc[p].run \in Runs /\ run[pc[p].run] \in RunRows /\ Executed(run[pc[p].run])
      /\ Used(pc[p].run) /\ Waits(run[pc[p].run])
  BY <1>1 DEF WayFacts, TurnFacts, HasOpen
<1>3. OnlyOpen(run, pc[p].run) /\ Fits(pc[p], run[pc[p].run])
  BY <1>1 DEF WayFacts, TurnFacts, Turn
<1>4. /\ stepStatus[run[pc[p].run].step] \in Busy
      /\ pc[p].at \in {"stepped", "dispatch", "requested", "rejecting"} =>
           run[pc[p].run].step = pc[p].step
  BY <1>1 DEF WayFacts, Sits, Knows
<1>5. QED
  BY <1>2, <1>3, <1>4 DEF Waits, Used, Merges

\* EndRun, of the one run that is open.
LEMMA WayCloses ==
  ASSUME NEW p \in Processes, HasWay(p), NEW r \in Runs, NEW row, NEW outcome, NEW then,
         EndRun(p, r, row, outcome, then), UNCHANGED <<stepStatus, task>>,
         pc[p].at \notin {"created", "rolling"},
         OnlyOpen(run, r), ~Open(row), row.step = run[r].step,
         ~Merges(run[r].step), stepStatus[run[r].step] \in Busy,
         Stuck(budget) => Stuck(budget'), then = "hook" => outcome = "completed"
  PROVE  WayThen(pc'[p])
<1>1. /\ pc'[p].at = "advance" /\ pc'[p].step = row.step
      /\ pc'[p].outcome = outcome /\ pc'[p].then = then
      /\ run' = [run EXCEPT ![r] = row]
  BY WayHas, TurnEnds
<1>2. WayFacts(p)
  BY WayHas
<1>3. \A q \in Runs : run'[q] = IF q = r THEN row ELSE run[q]
  BY <1>1, <1>2 DEF WayFacts, TurnFacts
<1>4. NoneOpen(run')
  BY <1>3 DEF NoneOpen, OnlyOpen
<1>5. ~Merges(pc'[p].step) /\ stepStatus[pc'[p].step] \in Busy
  BY <1>1
<1>6. pc'[p].at \in {"advance", "block"} /\ (pc'[p].then = "hook" => pc'[p].outcome = "completed")
  BY <1>1
<1>7. UNCHANGED <<stepStatus, task>> /\ pc[p].at \notin {"created", "rolling"}
  OBVIOUS
<1>8. QED
  BY <1>4, <1>5, <1>6, <1>7, WayEnds

LEMMA WayDispatches ==
  ASSUME NEW p \in Processes, HasWay(p),
         \/ DispatchWait(p) \/ DispatchFail(p) \/ DispatchCreatePr(p)
         \/ DispatchRequestApproval(p) \/ ParkStep(p) \/ DispatchAgent(p)
  PROVE  WayThen(pc'[p])
<1> USE DEF At
<1> DEFINE s == pc[p].step
           r == pc[p].run
<1>0. WayFacts(p) /\ RowsInv
  BY WayHas
<1>p. pc \in [Processes -> Threads] /\ pc[p] \in Threads /\ s \in Steps
      /\ run \in [Runs -> RunRows]
  BY <1>0 DEF WayFacts, TurnFacts
<1>r. /\ r \in Runs /\ run[r] \in RunRows /\ Executed(run[r]) /\ run[r].step = s
      /\ OnlyOpen(run, r) /\ Fits(pc[p], run[r]) /\ stepStatus[s] \in Busy
      /\ run[r].executor # "human" => ~Merges(s)
  BY WayHolds DEF DispatchWait, DispatchFail, DispatchCreatePr, DispatchRequestApproval,
                  ParkStep, DispatchAgent, HasOpen, HasRun
<1>1. CASE DispatchWait(p)
  BY <1>1, WayFinishes DEF DispatchWait
<1>2. CASE DispatchFail(p)
  <2>1. run[r].approval = "none" /\ run[r].executor # "human" /\ pc[p].at = "dispatch"
    BY <1>2, <1>r DEF DispatchFail, Fits
  <2> DEFINE row == [run[r] EXCEPT !.status = "failed"]
  <2>2. row.status = "failed" /\ row.approval = "none" /\ row.step = s
    BY <1>r, <2>1 DEF RunRows
  <2>3. EndRun(p, r, row, "failed", "none") /\ UNCHANGED <<stepStatus, task, budget>>
    BY <1>2 DEF DispatchFail
  <2> HIDE DEF row, r, s
  <2>4. ~Open(row)
    BY <2>2 DEF Open, ActiveStatuses
  <2>5. QED
    BY <1>r, <2>1, <2>2, <2>3, <2>4, WayCloses
<1>3. CASE DispatchCreatePr(p)
  <2>1. run[r].approval = "none" /\ run[r].executor # "human" /\ pc[p].at = "dispatch"
    BY <1>3, <1>r DEF DispatchCreatePr, Fits
  <2> DEFINE n == PrOf(r)
             row == [run[r] EXCEPT !.status = "completed", !.pr = n]
  <2>2. EndRun(p, r, row, "completed", pc[p].then) /\ UNCHANGED <<stepStatus, task, budget>>
    BY <1>3 DEF DispatchCreatePr
  <2> HIDE DEF n
  <2>3. row.status = "completed" /\ row.approval = "none" /\ row.step = s
    BY <1>r, <2>1 DEF RunRows
  <2> HIDE DEF row, r, s
  <2>4. ~Open(row)
    BY <2>3 DEF Open, ActiveStatuses
  <2>5. QED
    BY <1>r, <2>1, <2>2, <2>3, <2>4, WayCloses
<1>4. CASE DispatchRequestApproval(p)
  <2>1. pc'[p].at = "requested" /\ Same(pc'[p], pc[p]) /\ pc[p].at = "dispatch"
    BY <1>0, <1>4, TurnGoes DEF DispatchRequestApproval
  <2>2. run[r].executor # "human" /\ UNCHANGED <<stepStatus, task, budget>>
    BY <1>4, <1>r DEF DispatchRequestApproval, Fits
  <2>3. \A q \in Runs : (q # r => run'[q] = run[q]) /\ run'[q].step = run[q].step
    BY <1>p, <1>4, <1>r DEF DispatchRequestApproval, RequestApproval, RunRows
  <2> HIDE DEF r, s
  <2>4. pc'[p].run = r /\ pc'[p].step = s
    BY <2>1 DEF Same, r, s
  <2>5. Sits(pc'[p], stepStatus, run')
    BY <1>r, <2>1, <2>3, <2>4 DEF Sits, HasOpen, HasRun
  <2>6. \A q \in Runs : Works(pc'[p], stepStatus, run', q)
    BY <1>0, <1>r, <2>1, <2>3 DEF WayFacts, Ground, Works
  <2>7. Ground(pc'[p], stepStatus, run', task, budget)
    BY <1>0, <2>1, <2>6 DEF WayFacts, Ground
  <2>8. QED
    BY <1>0, <2>1, <2>2, <2>5, <2>7 DEF WayFacts, WayThen, Blank
<1>5. CASE ParkStep(p)
  <2>1. pc'[p] = Idle /\ Blank(Idle) /\ Idle.at = "idle" /\ pc[p].at = "requested"
    BY <1>5, <1>p DEF ParkStep, Finish, Become, Idle, Blank
  <2>2. UNCHANGED <<run, task, budget>>
    BY <1>5 DEF ParkStep
  <2>3. \A q \in Steps : IF q = s THEN stepStatus'[q] = "waiting_human"
                                  ELSE stepStatus'[q] = stepStatus[q]
    BY <1>0, <1>5, <1>p DEF ParkStep, WayFacts, TurnFacts
  <2> HIDE DEF r, s
  <2>4. /\ Along(stepStatus') /\ stepStatus'[task.current] # "pending"
        /\ NoneBusy(stepStatus) => NoneBusy(stepStatus')
    BY <1>0, <1>p, <1>r, <2>1, <2>3 DEF WayFacts, Along, Ground, Busy, NoneBusy
  <2>5. \A q \in Runs : Works(Idle, stepStatus', run, q)
    BY <1>0, <2>1, <2>3 DEF WayFacts, Ground, Works, Busy
  <2>6. Ground(Idle, stepStatus', run, task, budget)
    BY <1>0, <2>1, <2>4, <2>5 DEF WayFacts, Ground
  <2>7. QED
    BY <2>1, <2>2, <2>4, <2>6, SitsAnywhere DEF WayThen
<1>6. CASE DispatchAgent(p)
  <2>1. \E t : Become(p, t) /\ t.at = "prompt"
    BY <1>6, <1>p DEF DispatchAgent, Goto, Threads
  <2>2. pc'[p].at = "prompt" /\ pc[p].at = "dispatch"
    BY <1>6, <1>p, <2>1 DEF DispatchAgent, Become
  <2>3. \A q \in Runs : Open(run'[q]) => Open(run[q])
    BY <1>6, <1>p DEF DispatchAgent, RunRows, Open
  <2>4. Sits(pc'[p], stepStatus, run') /\ Blank(pc'[p])
    BY <2>2, SitsAnywhere DEF Blank
  <2>5. QED
    BY <1>6, <2>2, <2>3, <2>4, WayGoes DEF DispatchAgent
<1>7. QED
  BY <1>1, <1>2, <1>3, <1>4, <1>5, <1>6

LEMMA WayPrompts ==
  ASSUME NEW p \in Processes, HasWay(p), PromptOk(p) \/ Finalize(p) \/ PromptFail(p)
  PROVE  WayThen(pc'[p])
<1> USE DEF At
<1> DEFINE r == pc[p].run
<1>0. WayFacts(p) /\ RowsInv
  BY WayHas
<1>p. r \in Runs /\ run[r] \in RunRows /\ Executed(run[r])
  BY <1>0 DEF PromptOk, Finalize, PromptFail, WayFacts, TurnFacts, HasRun
<1>1. CASE PromptOk(p)
  <2>1. CASE Finish(p)
    BY <1>1, <2>1, WayFinishes DEF PromptOk
  <2>2. CASE ~Finish(p)
    <3>1. Goto(p, "finalize") /\ pc[p].at = "prompt" /\ UNCHANGED <<run, stepStatus, task, budget>>
      BY <1>1, <2>2 DEF PromptOk
    <3>2. pc'[p].at = "finalize" /\ Same(pc'[p], pc[p])
      BY <1>0, <3>1, TurnGoes
    <3>3. stepStatus[run[r].step] \in Busy
      BY <3>1 DEF HasWay, Awaited
    <3>4. Sits(pc'[p], stepStatus, run) /\ Blank(pc'[p])
      BY <3>2, <3>3 DEF Sits, Same, Blank, HasOpen, HasRun
    <3>5. QED
      BY <3>1, <3>2, <3>4, WayGoes
  <2>3. QED
    BY <2>1, <2>2
<1>2. CASE Finalize(p)
  <2>1. /\ pc[p].at = "finalize" /\ OnlyOpen(run, r) /\ stepStatus[run[r].step] \in Busy
        /\ Fits(pc[p], run[r])
        /\ run[r].executor # "human" => ~Merges(run[r].step)
    BY <1>2, WayHolds DEF Finalize, HasOpen, HasRun
  <2> DEFINE row == [run[r] EXCEPT !.status = "completed"]
  <2>2. run[r].executor = "agent" /\ run[r].approval \notin {"pending", "executing"}
    BY <1>p, <2>1 DEF Fits, Executed
  <2>3. ~Open(row) /\ row.step = run[r].step
    BY <1>p, <2>2 DEF RunRows, Open, ActiveStatuses
  <2>4. EndRun(p, r, row, "completed", "none") /\ UNCHANGED <<stepStatus, task, budget>>
    BY <1>2 DEF Finalize
  <2> HIDE DEF row, r
  <2>5. QED
    BY <1>p, <2>1, <2>2, <2>3, <2>4, WayCloses
<1>3. CASE PromptFail(p)
  <2>1. CASE Finish(p) /\ UNCHANGED run
    BY <1>3, <2>1, WayFinishes DEF PromptFail
  <2>2. CASE ~(Finish(p) /\ UNCHANGED run)
    <3> DEFINE row == [run[r] EXCEPT !.status = "failed"]
    <3>1. /\ EndRun(p, r, row, "failed", "none") /\ UNCHANGED <<stepStatus, task, budget>>
          /\ pc[p].at = "prompt"
      BY <1>3, <2>2 DEF PromptFail
    <3>2. OnlyOpen(run, r) /\ stepStatus[run[r].step] \in Busy
      BY <3>1 DEF HasWay, Awaited
    <3>3. run[r].executor = "agent" /\ run[r].approval \notin {"pending", "executing"}
      BY <1>0, <1>p, <3>1 DEF WayFacts, TurnFacts, Rests, Executed
    <3>4. ~Merges(run[r].step)
      BY <1>0, <3>1 DEF WayFacts, Knows, Merging, Merges
    <3>5. ~Open(row) /\ row.step = run[r].step
      BY <1>p, <3>3 DEF RunRows, Open, ActiveStatuses
    <3> HIDE DEF row, r
    <3>6. QED
      BY <1>p, <3>1, <3>2, <3>4, <3>5, WayCloses
  <2>3. QED
    BY <2>1, <2>2
<1>4. QED
  BY <1>1, <1>2, <1>3

\* What is behind the step that is worked on.
LEMMA BusyAlong ==
  ASSUME NEW s \in Steps, Along(stepStatus), stepStatus[s] # "pending"
  PROVE  /\ \A q \in Steps : q < s => stepStatus[q] = "completed"
         /\ stepStatus[s] # "completed" => \A q \in Steps : q > s => stepStatus[q] = "pending"
BY DEF Along

LEMMA WayReturns ==
  ASSUME NEW p \in Processes, HasWay(p), Return(p), pc[p].at \in {"moved", "rolling"},
         UNCHANGED <<stepStatus, run, budget>>,
         stepStatus[task'.current] # "pending", task'.status # "blocked"
  PROVE  WayThen(pc'[p])
<1>0. WayFacts(p) /\ RowsInv
  BY WayHas
<1>1. CASE Finish(p)
  BY <1>1, WayFinishes
<1>2. CASE ~Finish(p)
  <2>1. PICK place : /\ Goto(p, place)
                     /\ \/ place = "hook" /\ pc[p].then = "hook"
                        \/ /\ place = "automerge" /\ pc[p].then = "ci"
                           /\ pc[p].outcome = "completed"
    BY <1>2 DEF Return, AutoMerges
  <2>2. pc'[p].at = place /\ Same(pc'[p], pc[p])
    BY <1>0, <2>1, TurnGoes
  <2>3. pc[p].at = "moved"
    BY <1>0, <2>1 DEF WayFacts, TurnFacts, Turn, Sits
  <2>4. Sits(pc'[p], stepStatus, run) /\ Blank(pc'[p])
    <3>1. CASE place = "hook"
      <4>1. pc'[p].outcome = "completed" /\ pc'[p].todo = {}
        BY <1>0, <2>1, <2>2, <2>3, <3>1 DEF WayFacts, TurnFacts, Rests, Same, Sits
      <4>2. QED
        BY <2>2, <3>1, <4>1 DEF Sits, Blank, HasOpen, HasRun
    <3>2. CASE place = "automerge"
      <4> DEFINE s == pc[p].step
      <4>1. /\ s \in Steps /\ NSteps \in Nat /\ Along(stepStatus) /\ stepStatus[s] = "completed"
            /\ s < NSteps => stepStatus[s + 1] = "ready"
        BY <1>0, <2>1, <2>3, <3>2 DEF WayFacts, TurnFacts, Sits
      <4> HIDE DEF s
      <4>2. \A q \in Steps : q < s => stepStatus[q] = "completed"
        BY <4>1, BusyAlong
      <4>3. \A q \in Steps : q > s + 1 => stepStatus[q] = "pending"
        BY <4>1 DEF Along, Steps
      <4>4. NoneBusy(stepStatus) /\ stepStatus[1] # "ready"
        BY <4>1, <4>2, <4>3 DEF NoneBusy, Steps, Busy
      <4>5. QED
        BY <2>2, <3>2, <4>4 DEF Sits, Blank, HasOpen, HasRun
    <3>3. QED
      BY <2>1, <3>1, <3>2
  <2>5. QED
    BY <2>1, <2>2, <2>3, <2>4, WayGoes
<1>3. QED
  BY <1>1, <1>2

LEMMA WayAdvances ==
  ASSUME NEW p \in Processes, HasWay(p),
         \/ AdvanceRead(p) \/ AdvanceSteps(p) \/ AdvanceTask(p) \/ BlockStep(p) \/ BlockTask(p)
  PROVE  WayThen(pc'[p])
<1> USE DEF At
<1> DEFINE s == pc[p].step
<1>0. WayFacts(p) /\ RowsInv
  BY WayHas
<1>p. /\ pc \in [Processes -> Threads] /\ pc[p] \in Threads /\ s \in Steps
      /\ stepStatus \in [Steps -> StepStatuses] /\ Along(stepStatus) /\ NSteps \in Nat
      /\ Merges(s) => s = NSteps
  BY <1>0 DEF WayFacts, TurnFacts
<1>1. CASE AdvanceRead(p)
  <2>1. PICK b : /\ Become(p, [pc[p] EXCEPT !.at = "advanced", !.nextPending = b])
                 /\ b = (s < NSteps /\ stepStatus[s + 1] = "pending")
    BY <1>1 DEF AdvanceRead
  <2>2. /\ pc'[p].at = "advanced" /\ pc'[p].step = s /\ pc'[p].then = pc[p].then
        /\ pc'[p].outcome = pc[p].outcome /\ pc'[p].nextPending = b
    BY <1>p, <2>1 DEF Become, Threads
  <2>3. pc[p].at = "advance" /\ UNCHANGED <<run, stepStatus, task, budget>>
    BY <1>1 DEF AdvanceRead
  <2> HIDE DEF s
  <2>4. stepStatus[s] \in Busy /\ s < NSteps => b
    <3>1. stepStatus[s] \in Busy /\ s < NSteps => stepStatus[s + 1] = "pending"
      BY <1>p, BusyAlong DEF Steps, Busy
    <3>2. QED
      BY <2>1, <3>1
  <2>5. Sits(pc'[p], stepStatus, run) /\ Blank(pc'[p])
    <3>1. /\ IF Merges(s) THEN pc[p].outcome = "completed" /\ stepStatus[s] # "pending"
             ELSE stepStatus[s] \in Busy /\ NoneOpen(run)
          /\ pc[p].then = "hook" => pc[p].outcome = "completed"
      BY <1>0, <2>3 DEF WayFacts, Sits, s
    <3>2. s < NSteps => b
      BY <1>p, <2>4, <3>1
    <3>3. QED
      BY <2>2, <3>1, <3>2 DEF Sits, Blank, HasOpen, HasRun
  <2>6. QED
    BY <2>2, <2>3, <2>5, WayGoes
<1>2. CASE AdvanceSteps(p)
  <2> DEFINE outcome == pc[p].outcome
             next == s + 1
  <2>1. pc'[p].at = "moved" /\ Same(pc'[p], pc[p]) /\ pc[p].at = "advanced"
    BY <1>0, <1>2, TurnGoes DEF AdvanceSteps
  <2>2. UNCHANGED <<run, task, budget>>
    BY <1>2 DEF AdvanceSteps
  <2>3. /\ outcome \in {"completed", "failed"}
        /\ Merges(s) => outcome = "completed" /\ stepStatus[s] # "pending"
        /\ ~Merges(s) => stepStatus[s] \in Busy /\ NoneOpen(run)
        /\ outcome = "completed" /\ s < NSteps => pc[p].nextPending
        /\ pc[p].then = "hook" => outcome = "completed"
    BY <1>0, <1>p, <2>1 DEF WayFacts, Sits, Knows, Threads
  <2>4. \A q \in Steps : stepStatus'[q] = IF q = s THEN outcome
                                          ELSE IF q = next /\ outcome = "completed" THEN "ready"
                                          ELSE stepStatus[q]
    BY <1>p, <1>2, <2>3, StepsAssumption DEF AdvanceSteps, Steps
  <2>5. pc'[p].step = s /\ pc'[p].outcome = outcome /\ pc'[p].then = pc[p].then
    BY <2>1 DEF Same
  <2> HIDE DEF s, outcome
  <2>6. /\ \A q \in Steps : q < s => stepStatus[q] = "completed"
        /\ \A q \in Steps : q > s => stepStatus[q] = "pending" \/ Merges(s)
        /\ stepStatus[s] # "pending"
    BY <1>p, <2>3, BusyAlong DEF Busy
  <2>7. Along(stepStatus')
    BY <1>p, <2>3, <2>4, <2>6, StepsAssumption DEF Along, Steps
  <2>8. \A q \in Steps : /\ stepStatus[q] # "pending" => stepStatus'[q] # "pending"
                         /\ stepStatus'[q] \in Busy => stepStatus[q] \in Busy
    BY <2>3, <2>4 DEF Busy
  <2>9. \A r \in Runs : Works(pc'[p], stepStatus', run, r)
    <3>1. CASE Merges(s)
      <4>1. outcome = "completed"
        BY <2>3, <3>1
      <4>2. \A q \in Steps : q # s => stepStatus'[q] = stepStatus[q]
        BY <1>p, <2>4, <3>1 DEF Steps
      <4>3. \A r \in Runs : Works(pc[p], stepStatus, run, r) /\ run[r].step \in Steps
        BY <1>0 DEF WayFacts, Ground
      <4>4. QED
        BY <1>p, <2>1, <2>4, <3>1, <4>1, <4>2, <4>3 DEF Works
    <3>2. CASE ~Merges(s)
      BY <2>3, <3>2 DEF Works, NoneOpen
    <3>3. QED
      BY <3>1, <3>2
  <2>10. Ground(pc'[p], stepStatus', run, task, budget)
    BY <1>0, <2>1, <2>8, <2>9 DEF WayFacts, Ground, NoneBusy
  <2>11. Sits(pc'[p], stepStatus', run) /\ Blank(pc'[p])
    <3>1. outcome = "completed" =>
            stepStatus'[s] = "completed" /\ (s < NSteps => stepStatus'[s + 1] = "ready")
      BY <1>p, <2>4 DEF Steps
    <3>2. QED
      BY <2>1, <2>3, <2>5, <3>1 DEF Sits, Blank, HasOpen, HasRun
  <2>12. QED
    BY <2>2, <2>7, <2>10, <2>11 DEF WayThen
<1>3. CASE AdvanceTask(p)
  <2>1. Return(p) /\ pc[p].at = "moved" /\ UNCHANGED <<stepStatus, run, budget>>
    BY <1>3 DEF AdvanceTask
  <2>2. pc[p].outcome = "completed" /\ s < NSteps => stepStatus[s + 1] = "ready"
    BY <1>0, <2>1 DEF WayFacts, Sits
  <2>3. stepStatus[task.current] # "pending" /\ task \in [status : TaskStatuses, current : Steps]
    BY <1>0, <2>1 DEF WayFacts, Ground
  <2>4. stepStatus[task'.current] # "pending" /\ task'.status # "blocked"
    BY <1>3, <2>2, <2>3 DEF AdvanceTask
  <2>5. QED
    BY <2>1, <2>4, WayReturns
<1>4. CASE BlockStep(p)
  <2>1. pc'[p].at = "blocking" /\ Same(pc'[p], pc[p]) /\ pc[p].at = "block"
    BY <1>0, <1>4, TurnGoes DEF BlockStep
  <2>2. UNCHANGED <<run, task, budget>>
    BY <1>4 DEF BlockStep
  <2>3. stepStatus[s] \in Busy /\ NoneOpen(run) /\ ~Merges(s)
    BY <1>0, <2>1 DEF WayFacts, Sits
  <2>4. /\ \A q \in Steps : q # s => stepStatus'[q] = stepStatus[q]
        /\ stepStatus'[s] \in {"completed", "failed", "blocked"}
    BY <1>4, <1>p DEF BlockStep, Threads
  <2> HIDE DEF s
  <2>5. /\ \A q \in Steps : q < s => stepStatus[q] = "completed"
        /\ \A q \in Steps : q > s => stepStatus[q] = "pending"
    BY <1>p, <2>3, BusyAlong DEF Busy
  <2>6. Along(stepStatus')
    BY <1>p, <2>3, <2>4, <2>5, StepsAssumption DEF Along, Steps
  <2>7. NoneBusy(stepStatus')
    BY <1>p, <2>4, <2>5 DEF NoneBusy, Busy, Steps
  <2>8. stepStatus[task.current] # "pending" => stepStatus'[task.current] # "pending"
    BY <1>0, <2>4 DEF WayFacts
  <2>9. Ground(pc'[p], stepStatus', run, task, budget)
    BY <1>0, <2>1, <2>3, <2>7, <2>8 DEF WayFacts, Ground, Works, NoneOpen
  <2>10. Sits(pc'[p], stepStatus', run) /\ Blank(pc'[p])
    BY <2>1, SitsAnywhere DEF Blank
  <2>11. QED
    BY <2>2, <2>6, <2>9, <2>10 DEF WayThen
<1>5. CASE BlockTask(p)
  <2>1. pc'[p] = Idle /\ Blank(Idle) /\ Idle.at = "idle" /\ pc[p].at = "blocking"
    BY <1>5, <1>p DEF BlockTask, Finish, Become, Idle, Blank
  <2>2. UNCHANGED <<run, stepStatus, budget>> /\ task' = [task EXCEPT !.status = "blocked"]
    BY <1>5 DEF BlockTask
  <2>3. task'.current = task.current
    BY <1>0, <2>2 DEF WayFacts
  <2>4. \A r \in Runs : Works(Idle, stepStatus, run, r)
    BY <1>0, <2>1 DEF WayFacts, Ground, Works
  <2>5. Ground(Idle, stepStatus, run, task', budget)
    BY <1>0, <2>1, <2>3, <2>4 DEF WayFacts, Ground
  <2>6. QED
    BY <1>p, <2>1, <2>2, <2>5, SitsAnywhere DEF WayThen
<1>6. QED
  BY <1>1, <1>2, <1>3, <1>4, <1>5

LEMMA WayDecides ==
  ASSUME NEW p \in Processes, HasWay(p),
         \/ ApproveClaim(p) \/ ApproveExecute(p) \/ ApproveFail(p) \/ RejectCommit(p)
         \/ CiCommit(p)
  PROVE  WayThen(pc'[p])
<1> USE DEF At
<1> DEFINE r == pc[p].run
<1>0. WayFacts(p) /\ RowsInv
  BY WayHas
<1>p. pc \in [Processes -> Threads] /\ pc[p] \in Threads /\ run \in [Runs -> RunRows]
  BY <1>0 DEF WayFacts, TurnFacts
<1>r. /\ r \in Runs /\ run[r] \in RunRows /\ Executed(run[r]) /\ OnlyOpen(run, r)
      /\ Fits(pc[p], run[r]) /\ stepStatus[run[r].step] \in Busy
      /\ pc[p].at = "rejecting" => run[r].step = pc[p].step
      /\ run[r].executor # "human" => ~Merges(run[r].step)
  BY WayHolds DEF ApproveClaim, ApproveExecute, ApproveFail, RejectCommit, CiCommit,
                  HasOpen, HasRun
<1>1. CASE ApproveClaim(p)
  <2>1. pc'[p].at = "executing" /\ Same(pc'[p], pc[p]) /\ pc[p].at = "approving"
    BY <1>0, <1>1, TurnGoes DEF ApproveClaim
  <2>2. UNCHANGED <<stepStatus, task, budget>>
    BY <1>1 DEF ApproveClaim
  <2>3. \A q \in Runs : (q # r => run'[q] = run[q]) /\ run'[q].step = run[q].step
    BY <1>p, <1>1, <1>r DEF ApproveClaim, RunRows
  <2> HIDE DEF r
  <2>4. pc'[p].run = r
    BY <2>1 DEF Same, r
  <2>5. Sits(pc'[p], stepStatus, run')
    BY <1>r, <2>1, <2>3, <2>4 DEF Sits, HasOpen, HasRun
  <2>6. \A q \in Runs : Works(pc'[p], stepStatus, run', q)
    BY <1>0, <1>r, <2>1, <2>3 DEF WayFacts, Ground, Works
  <2>7. Ground(pc'[p], stepStatus, run', task, budget)
    BY <1>0, <2>1, <2>6 DEF WayFacts, Ground
  <2>8. QED
    BY <1>0, <2>1, <2>2, <2>5, <2>7 DEF WayFacts, WayThen, Blank
<1>2. CASE ApproveExecute(p)
  <2> DEFINE n == PrOf(r)
             row == [run[r] EXCEPT !.status = "completed", !.pr = n, !.approval = "executed"]
  <2>1. EndRun(p, r, row, "completed", "ws") /\ UNCHANGED <<stepStatus, task, budget>>
        /\ pc[p].at = "executing"
    BY <1>2 DEF ApproveExecute
  <2> HIDE DEF n
  <2>2. row.status = "completed" /\ row.approval = "executed" /\ row.step = run[r].step
    BY <1>r DEF RunRows
  <2>3. ~Merges(run[r].step)
    BY <1>r, <2>1 DEF Fits
  <2> HIDE DEF row, r
  <2>4. ~Open(row)
    BY <2>2 DEF Open, ActiveStatuses
  <2>5. QED
    BY <1>r, <2>1, <2>2, <2>3, <2>4, WayCloses
<1>3. CASE ApproveFail(p)
  <2> DEFINE row == [run[r] EXCEPT !.status = "failed", !.approval = "failed"]
  <2>1. EndRun(p, r, row, "failed", "none") /\ UNCHANGED <<stepStatus, task, budget>>
        /\ pc[p].at = "executing"
    BY <1>3 DEF ApproveFail
  <2>2. row.status = "failed" /\ row.approval = "failed" /\ row.step = run[r].step
    BY <1>r DEF RunRows
  <2>3. ~Merges(run[r].step)
    BY <1>r, <2>1 DEF Fits
  <2> HIDE DEF row, r
  <2>4. ~Open(row)
    BY <2>2 DEF Open, ActiveStatuses
  <2>5. QED
    BY <1>r, <2>1, <2>2, <2>3, <2>4, WayCloses
<1>4. CASE RejectCommit(p)
  <2>1. /\ run' = [run EXCEPT ![r].status = "completed", ![r].approval = "rejected"]
        /\ Become(p, [pc[p] EXCEPT !.at = "block", !.outcome = "blocked"])
        /\ UNCHANGED <<stepStatus, task, budget>> /\ pc[p].at = "rejecting"
    BY <1>4 DEF RejectCommit
  <2>2. pc'[p].at = "block" /\ pc'[p].step = pc[p].step
    BY <1>p, <2>1 DEF Become, Threads
  <2>3. /\ \A q \in Runs : q # r => run'[q] = run[q]
        /\ run'[r].status = "completed" /\ run'[r].approval = "rejected"
    BY <1>p, <1>r, <2>1 DEF RunRows
  <2>4. NoneOpen(run')
    BY <1>r, <2>3 DEF NoneOpen, OnlyOpen, Open, ActiveStatuses
  <2>5. ~Merges(pc'[p].step) /\ stepStatus[pc'[p].step] \in Busy
    BY <1>r, <2>1, <2>2 DEF Fits
  <2>6. /\ pc'[p].at \in {"advance", "block"} /\ pc'[p].at # "advance"
        /\ pc[p].at \notin {"created", "rolling"}
    BY <2>1, <2>2
  <2>7. UNCHANGED <<stepStatus, task>> /\ budget' = budget
    BY <2>1
  <2>8. QED
    BY <2>4, <2>5, <2>6, <2>7, WayEnds
<1>5. CASE CiCommit(p)
  <2> DEFINE outcome == pc[p].outcome
             row == [run[r] EXCEPT !.status = outcome]
  <2>1. /\ EndRun(p, r, row, outcome, "ci") /\ UNCHANGED <<stepStatus, task, budget>>
        /\ pc[p].at = "ci"
    BY <1>5 DEF CiCommit
  <2>2. outcome \in {"completed", "failed"}
    BY <1>0, <1>p, <2>1 DEF RowsInv, TypeInv, RunInHand, Handed, Threads
  <2>3. ~Merges(run[r].step) /\ run[r].approval \notin {"pending", "executing"}
    BY <1>r, <2>1 DEF Fits, Executed
  <2> HIDE DEF outcome
  <2>4. /\ row.status \in {"completed", "failed"} /\ row.approval = run[r].approval
        /\ row.step = run[r].step
    BY <1>r, <2>2 DEF RunRows
  <2> HIDE DEF row, r
  <2>5. ~Open(row)
    BY <2>3, <2>4 DEF Open, ActiveStatuses
  <2>6. QED
    BY <1>r, <2>1, <2>3, <2>4, <2>5, WayCloses
<1>6. QED
  BY <1>1, <1>2, <1>3, <1>4, <1>5

LEMMA WayRolls ==
  ASSUME NEW p \in Processes, HasWay(p),
         \/ AutoMergeOk(p) \/ AutoMergeFail(p) \/ RollbackSteps(p) \/ RollbackTask(p)
  PROVE  WayThen(pc'[p])
<1> USE DEF At
<1>0. WayFacts(p) /\ RowsInv
  BY WayHas
<1>p. pc \in [Processes -> Threads] /\ pc[p] \in Threads
  BY <1>0 DEF WayFacts, TurnFacts
<1>1. CASE AutoMergeOk(p)
  BY <1>1, WayFinishes DEF AutoMergeOk
<1>2. CASE AutoMergeFail(p)
  <2>1. /\ pc[p].at = "automerge" /\ UNCHANGED <<run, stepStatus, task, budget>>
        /\ Become(p, [pc[p] EXCEPT !.at = "rollback", !.step = 1, !.then = "acp"])
    BY <1>2, FailsToFirst DEF AutoMergeFail, HasWay
  <2>2. pc'[p].at = "rollback" /\ pc'[p].step = 1 /\ pc'[p].then = "acp"
    BY <1>p, <2>1 DEF Become, Threads
  <2>3. NoneBusy(stepStatus) /\ stepStatus[1] # "ready"
    BY <1>0, <2>1 DEF WayFacts, Sits
  <2>4. Sits(pc'[p], stepStatus, run) /\ Blank(pc'[p])
    BY <2>2, <2>3 DEF Sits, Blank, HasOpen, HasRun
  <2>5. QED
    BY <2>1, <2>2, <2>4, WayGoes
<1>3. CASE RollbackSteps(p)
  <2>1. pc'[p].at = "rolling" /\ Same(pc'[p], pc[p]) /\ pc[p].at = "rollback"
    BY <1>0, <1>3, TurnGoes DEF RollbackSteps
  <2>2. UNCHANGED <<run, task, budget>>
    BY <1>3 DEF RollbackSteps
  <2>3. pc[p].step = 1 /\ NoneOpen(run) /\ pc[p].then # "hook"
    BY <1>0, <2>1 DEF WayFacts, TurnFacts, Turn, Leads, Sits
  <2>4. \A q \in Steps : stepStatus'[q] = IF q > 1 THEN "pending" ELSE "ready"
    BY <1>3, <2>3 DEF RollbackSteps, Steps
  <2>5. Along(stepStatus') /\ NoneBusy(stepStatus')
    BY <1>0, <2>4 DEF Along, NoneBusy, Steps, Busy, WayFacts
  <2>6. Ground(pc'[p], stepStatus', run, task, budget)
    BY <2>1, <2>3, <2>5 DEF Ground, Works, NoneOpen
  <2>7. Sits(pc'[p], stepStatus', run) /\ Blank(pc'[p])
    BY <2>1, <2>3 DEF Sits, Same, Blank, HasOpen, HasRun
  <2>8. QED
    BY <2>2, <2>5, <2>6, <2>7 DEF WayThen
<1>4. CASE RollbackTask(p)
  <2>1. /\ Return(p) /\ pc[p].at = "rolling" /\ UNCHANGED <<stepStatus, run, budget>>
        /\ task'.current = pc[p].step /\ task'.status = "running"
    BY <1>4 DEF RollbackTask
  <2>2. stepStatus[task'.current] # "pending" /\ task'.status # "blocked"
    BY <1>0, <2>1 DEF WayFacts, TurnFacts, Turn, Along
  <2>3. QED
    BY <2>1, <2>2, WayReturns
<1>5. QED
  BY <1>1, <1>2, <1>3, <1>4

LEMMA WayHooks ==
  ASSUME NEW p \in Processes, HasWay(p), HookNext(p) \/ HookDone(p)
  PROVE  WayThen(pc'[p])
<1> USE DEF At
<1>0. WayFacts(p) /\ RowsInv /\ pc[p].at = "hook"
  BY WayHas DEF HookNext, HookDone
<1>p. pc \in [Processes -> Threads] /\ pc[p] \in Threads /\ run \in [Runs -> RunRows]
  BY <1>0 DEF WayFacts, TurnFacts
<1>1. CASE HookNext(p)
  <2>1. PICK r \in pc[p].todo :
          /\ run' = [run EXCEPT ![r].status = "completed"]
          /\ Become(p, [pc[p] EXCEPT !.at = "advance", !.run = r, !.step = run[r].step,
                                     !.then = "hook", !.outcome = "completed",
                                     !.todo = @ \ {r}])
    BY <1>1 DEF HookNext
  <2>2. r \in Runs /\ run[r] \in RunRows
    BY <1>p, <2>1 DEF Threads
  <2>3. Merges(run[r].step) /\ stepStatus[run[r].step] # "pending"
    BY <1>0, <2>1, <2>2 DEF WayFacts, Sits
  <2>4. UNCHANGED <<stepStatus, task, budget>>
    BY <1>1 DEF HookNext
  <2>5. /\ pc'[p].at = "advance" /\ pc'[p].step = run[r].step
        /\ pc'[p].outcome = "completed"
    BY <1>p, <2>1 DEF Become, Threads
  <2>6. \A q \in Runs : Open(run'[q]) => Open(run[q])
    BY <1>p, <2>1, <2>2 DEF RunRows, Open, ActiveStatuses
  <2>7. Sits(pc'[p], stepStatus, run') /\ Blank(pc'[p])
    BY <2>3, <2>5 DEF Sits, Blank, HasOpen, HasRun
  <2>8. QED
    BY <1>0, <2>4, <2>5, <2>6, <2>7, WayGoes
<1>2. CASE HookDone(p)
  <2>1. CASE Finish(p)
    BY <1>0, <1>2, <2>1, WayFinishes DEF HookDone
  <2>2. CASE ~Finish(p)
    <3>1. /\ Become(p, [pc[p] EXCEPT !.at = "advanced", !.step = task.current])
          /\ Kind[task.current] = "pr.merge"
          /\ UNCHANGED <<run, stepStatus, task, budget>>
      BY <1>2, <2>2 DEF HookDone
    <3>2. /\ pc'[p].at = "advanced" /\ pc'[p].step = task.current
          /\ pc'[p].outcome = pc[p].outcome
      BY <1>p, <3>1 DEF Become, Threads
    <3>3. /\ pc[p].outcome = "completed" /\ stepStatus[task.current] # "pending"
          /\ task.current = NSteps /\ Merges(task.current) /\ NSteps \in Nat
      BY <1>0, <3>1 DEF WayFacts, Sits, Ground, Merges
    <3>4. Sits(pc'[p], stepStatus, run) /\ Blank(pc'[p])
      BY <3>2, <3>3 DEF Sits, Blank, HasOpen, HasRun
    <3>5. QED
      BY <1>0, <3>1, <3>2, <3>4, WayGoes
  <2>3. QED
    BY <2>1, <2>2
<1>3. QED
  BY <1>1, <1>2

\* A run that is open, as a handler finds it that begins.
LEMMA WayIdle ==
  ASSUME NEW h \in Processes, HasWay(h), pc[h].at = "idle"
  PROVE  /\ WayFacts(h) /\ RowsInv /\ pc[h].then = "none" /\ pc[h].outcome = "completed"
         /\ pc[h].todo = {}
         /\ \A r \in Runs : Open(run[r]) =>
              /\ OnlyOpen(run, r) /\ run[r] \in RunRows /\ Executed(run[r])
              /\ stepStatus[run[r].step] # "pending"
              /\ ~Merges(run[r].step) => stepStatus[run[r].step] \in Busy
              /\ run[r].executor # "human" => ~Merges(run[r].step)
<1>1. WayFacts(h) /\ RowsInv
  BY WayHas
<1>2. pc[h].then = "none" /\ pc[h].outcome = "completed" /\ pc[h].todo = {}
  BY <1>1 DEF WayFacts, TurnFacts, Rests, Blank
<1>3. \A r \in Runs : Open(run[r]) => OnlyOpen(run, r)
  BY <1>1 DEF WayFacts, TurnFacts, Turn, OnlyOpen
<1>4. \A r \in Runs : run[r] \in RunRows /\ Executed(run[r]) /\ Waits(run[r])
                      /\ (Open(run[r]) => Used(r)) /\ Works(pc[h], stepStatus, run, r)
  BY <1>1 DEF WayFacts, TurnFacts, Ground
<1>5. \A r \in Runs : Open(run[r]) /\ run[r].executor # "human" => ~Merges(run[r].step)
  BY <1>4 DEF Waits, Used, Merges
<1>6. QED
  BY <1>1, <1>2, <1>3, <1>4, <1>5 DEF Works, Busy

LEMMA WaySubmits ==
  ASSUME NEW h \in Handlers, HasWay(h), pc[h].at = "idle", NEW r \in Runs,
         \/ SubmitApprove(h, r) \/ SubmitMerge(h, r) \/ SubmitChanges(h, r)
  PROVE  WayThen(pc'[h])
<1>p. h \in Processes
  BY DEF Processes
<1>1. run[r].status = "running" /\ run[r].executor = "human" /\ budget' = budget
  BY DEF SubmitApprove, SubmitMerge, SubmitChanges, Submittable, Intervene, HasWay, Straight,
         Undisturbed
<1>0. /\ WayFacts(h) /\ RowsInv /\ OnlyOpen(run, r) /\ run[r] \in RunRows
      /\ run[r].approval \notin {"pending", "executing"}
      /\ stepStatus[run[r].step] # "pending"
      /\ ~Merges(run[r].step) => stepStatus[run[r].step] \in Busy
  BY <1>p, <1>1, WayIdle DEF Open, ActiveStatuses, Executed
<1>2. pc \in [Processes -> Threads] /\ run \in [Runs -> RunRows] /\ pc[h] \in Threads
  BY <1>0 DEF WayFacts, TurnFacts
<1> DEFINE row == [run[r] EXCEPT !.status = "completed"]
<1>3. row.status = "completed" /\ row.approval = run[r].approval /\ row.step = run[r].step
  BY <1>0 DEF RunRows
<1>4. ~Open(row)
  BY <1>0, <1>3 DEF Open, ActiveStatuses
<1>5. CASE SubmitApprove(h, r)
  <2>1. EndRun(h, r, row, "completed", "acp") /\ UNCHANGED <<stepStatus, task>>
        /\ ~Merges(run[r].step)
    BY <1>5 DEF SubmitApprove, Merges
  <2> HIDE DEF row
  <2>2. QED
    BY <1>p, <1>0, <1>1, <1>3, <1>4, <2>1, WayCloses
<1>6. CASE SubmitMerge(h, r)
  <2>1. EndRun(h, r, row, "completed", "acp") /\ UNCHANGED <<stepStatus, task>>
        /\ Merges(run[r].step)
    BY <1>6 DEF SubmitMerge, Merges
  <2> HIDE DEF row
  <2>2. /\ pc'[h].at = "advance" /\ pc'[h].step = run[r].step /\ pc'[h].outcome = "completed"
        /\ run' = [run EXCEPT ![r] = row]
    BY <1>p, <1>0, <1>3, <2>1, TurnEnds
  <2>3. \A q \in Runs : Open(run'[q]) => Open(run[q])
    BY <1>2, <1>4, <2>2
  <2>4. Sits(pc'[h], stepStatus, run') /\ Blank(pc'[h])
    BY <1>0, <2>1, <2>2 DEF Sits, Blank, HasOpen, HasRun
  <2>5. QED
    BY <1>p, <1>1, <2>1, <2>2, <2>3, <2>4, WayGoes
<1>7. CASE SubmitChanges(h, r)
  <2>1. /\ run' = [run EXCEPT ![r] = row] /\ UNCHANGED <<stepStatus, task>>
        /\ Become(h, [pc[h] EXCEPT !.at = "block", !.step = run[r].step,
                                   !.outcome = "completed"])
        /\ ~Merges(run[r].step)
    BY <1>7 DEF SubmitChanges, Merges
  <2> HIDE DEF row
  <2>2. pc'[h].at = "block" /\ pc'[h].step = run[r].step
    BY <1>p, <1>2, <2>1 DEF Become, Threads
  <2>3. NoneOpen(run')
    BY <1>0, <1>2, <1>4, <2>1 DEF NoneOpen, OnlyOpen
  <2>4. ~Merges(pc'[h].step) /\ stepStatus[pc'[h].step] \in Busy
    BY <1>0, <2>1, <2>2
  <2>5. /\ pc'[h].at \in {"advance", "block"} /\ pc'[h].at # "advance"
        /\ pc[h].at \notin {"created", "rolling"}
    BY <2>2
  <2>6. UNCHANGED <<stepStatus, task>> /\ budget' = budget
    BY <1>1, <2>1
  <2>7. QED
    BY <1>p, <2>3, <2>4, <2>5, <2>6, WayEnds
<1>8. QED
  BY <1>5, <1>6, <1>7

LEMMA WayTakes ==
  ASSUME NEW h \in Handlers, HasWay(h), pc[h].at = "idle", NEW r \in Runs,
         \/ ApproveRead(h, r) \/ RejectRead(h, r) \/ Resume(h, r)
         \/ \E passed \in BOOLEAN : CiHook(h, r, passed)
  PROVE  WayThen(pc'[h])
<1>p. h \in Processes
  BY DEF Processes
<1>0. /\ WayFacts(h) /\ RowsInv /\ pc[h].then = "none"
      /\ Open(run[r]) =>
           /\ run[r] \in RunRows /\ Executed(run[r])
           /\ ~Merges(run[r].step) => stepStatus[run[r].step] \in Busy
           /\ run[r].executor # "human" => ~Merges(run[r].step)
  BY <1>p, WayIdle
<1>2. pc \in [Processes -> Threads] /\ run \in [Runs -> RunRows] /\ pc[h] \in Threads
  BY <1>0 DEF WayFacts, TurnFacts
<1>3. CASE ApproveRead(h, r) \/ RejectRead(h, r)
  <2>1. PICK place \in {"approving", "rejecting"} :
          /\ Become(h, [pc[h] EXCEPT !.at = place, !.run = r, !.step = run[r].step])
          /\ run[r].approval = "pending"
          /\ UNCHANGED <<run, stepStatus, task, budget>>
    BY <1>3 DEF ApproveRead, RejectRead, ApprovalRead
  <2>2. pc'[h].at = place /\ pc'[h].run = r /\ pc'[h].step = run[r].step
    BY <1>p, <1>2, <2>1 DEF Become, Threads
  <2>3. stepStatus[run[r].step] \in Busy
    BY <1>0, <2>1 DEF Open, Executed
  <2>4. Sits(pc'[h], stepStatus, run) /\ Blank(pc'[h])
    BY <2>2, <2>3 DEF Sits, Blank, HasOpen, HasRun
  <2>5. QED
    BY <1>p, <2>1, <2>2, <2>4, WayGoes
<1>4. ~Resume(h, r)
  BY DEF Resume, Intervene, HasWay, Straight
<1>5. ASSUME NEW passed \in BOOLEAN, CiHook(h, r, passed) PROVE WayThen(pc'[h])
  <2>1. PICK outcome : /\ Become(h, [pc[h] EXCEPT !.at = "ci", !.run = r, !.outcome = outcome])
                       /\ UNCHANGED <<run, stepStatus, task, budget>>
    BY <1>5 DEF CiHook
  <2>2. pc'[h].at = "ci" /\ pc'[h].run = r
    BY <1>p, <1>2, <2>1 DEF Become, Threads
  <2>3. run[r].status = "waiting_ci"
    BY <1>5 DEF CiHook, CiRun, Latest, WaitingCi
  <2>4. stepStatus[run[r].step] \in Busy
    BY <1>0, <2>3 DEF Open, Executed, ActiveStatuses
  <2>5. Sits(pc'[h], stepStatus, run) /\ Blank(pc'[h])
    BY <2>2, <2>4 DEF Sits, Blank, HasOpen, HasRun
  <2>6. QED
    BY <1>p, <2>1, <2>2, <2>5, WayGoes
<1>6. QED
  BY <1>3, <1>4, <1>5

LEMMA WayDelivers ==
  ASSUME NEW h \in Handlers, HasWay(h), pc[h].at = "idle",
         SyncHook(h) \/ ReviewHook(h) \/ PrOpenedHook(h) \/ PrMergedHook(h)
  PROVE  WayThen(pc'[h])
<1>p. h \in Processes
  BY DEF Processes
<1>0. /\ WayFacts(h) /\ RowsInv /\ HasTurn(h)
      /\ pc[h].then = "none" /\ pc[h].outcome = "completed" /\ pc[h].todo = {}
  BY <1>p, WayIdle DEF HasWay
<1>1. \A r \in Runs : Open(run'[r]) = Open(run[r])
  BY <1>0, LinkKeeps DEF SyncHook, ReviewHook, PrOpenedHook, PrMergedHook
<1>2. pc \in [Processes -> Threads] /\ pc[h] \in Threads /\ budget \in Nat
  BY <1>0 DEF WayFacts, TurnFacts
<1>3. CASE SyncHook(h)
  <2>1. /\ Become(h, [pc[h] EXCEPT !.at = "rollback", !.step = 1])
        /\ "github" \in Interventions /\ budget > 0 /\ budget' = budget - 1
        /\ task.status = "blocked" /\ UNCHANGED <<stepStatus, task>>
    BY <1>0, <1>3, SyncsToFirst DEF SyncHook, Intervene, HasTurn
  <2>2. pc'[h].at = "rollback" /\ pc'[h].then = "none"
    BY <1>p, <1>0, <1>2, <2>1 DEF Become, Threads
  <2>3. ~Stuck(budget) /\ (Stuck(budget) => Stuck(budget'))
    BY <1>2, <2>1 DEF Stuck
  <2>4. NoneBusy(stepStatus)
    BY <1>0, <2>1, <2>3 DEF WayFacts, Ground
  <2>5. stepStatus[1] # "ready"
    BY <1>0, <2>1, <2>3 DEF WayFacts, TurnFacts, Turn, NoneReady
  <2>6. Sits(pc'[h], stepStatus, run') /\ Blank(pc'[h])
    BY <2>2, <2>4, <2>5 DEF Sits, Blank, HasOpen, HasRun
  <2>7. QED
    BY <1>p, <1>1, <2>1, <2>2, <2>3, <2>6, WayGoes
<1>4. CASE ReviewHook(h)
  <2>1. /\ Become(h, [pc[h] EXCEPT !.at = "blocking"])
        /\ "github" \in Interventions /\ budget > 0 /\ budget' = budget - 1
        /\ UNCHANGED <<stepStatus, task>>
    BY <1>4 DEF ReviewHook, Intervene
  <2>2. pc'[h].at = "blocking"
    BY <1>p, <1>2, <2>1 DEF Become, Threads
  <2>3. Stuck(budget')
    BY <1>0, <1>2, <2>1 DEF Stuck, HasTurn
  <2>4. \A r \in Runs : run[r].step = run'[r].step \/ ~Open(run'[r])
    BY <1>0, <1>1 DEF WayFacts
  <2>5. \A r \in Runs : Works(pc'[h], stepStatus, run', r)
    BY <1>0, <1>1, <2>4 DEF WayFacts, Ground, Works
  <2>6. Ground(pc'[h], stepStatus, run', task, budget')
    BY <1>0, <2>3, <2>5 DEF WayFacts, Ground
  <2>7. Sits(pc'[h], stepStatus, run') /\ Blank(pc'[h])
    BY <2>2, SitsAnywhere DEF Blank
  <2>8. QED
    BY <1>0, <2>1, <2>6, <2>7 DEF WayThen, WayFacts
<1>5. CASE PrOpenedHook(h)
  <2>1. UNCHANGED <<stepStatus, task, budget, pc>>
    BY <1>5 DEF PrOpenedHook
  <2>2. Sits(pc[h], stepStatus, run') /\ Blank(pc[h])
    BY <1>0, SitsAnywhere DEF Blank
  <2>3. QED
    BY <1>p, <1>1, <2>1, <2>2, WayGoes
<1>6. CASE PrMergedHook(h)
  <2>1. /\ Become(h, [pc[h] EXCEPT !.at = "hook", !.todo = MergeRuns])
        /\ UNCHANGED <<stepStatus, task>>
        /\ budget' = budget \/ (budget > 0 /\ budget' = budget - 1)
    BY <1>6 DEF PrMergedHook, Intervene
  <2>2. pc'[h].at = "hook" /\ pc'[h].outcome = "completed" /\ pc'[h].todo = MergeRuns
    BY <1>p, <1>0, <1>2, <2>1 DEF Become, Threads
  <2>3. \A r \in MergeRuns : /\ r \in Runs /\ Open(run[r]) /\ Merges(run[r].step)
    BY DEF MergeRuns, Open, ActiveStatuses, Merges
  <2>4. \A r \in MergeRuns : Merges(run'[r].step) /\ stepStatus[run'[r].step] # "pending"
    BY <1>p, <1>0, <2>3, WayIdle DEF WayFacts
  <2>5. Stuck(budget) => Stuck(budget')
    BY <1>0, <2>1, StuckStays
  <2>6. Sits(pc'[h], stepStatus, run') /\ Blank(pc'[h])
    BY <2>2, <2>4 DEF Sits, Blank, HasOpen, HasRun
  <2>7. QED
    BY <1>p, <1>1, <2>1, <2>2, <2>5, <2>6, WayGoes
<1>7. QED
  BY <1>3, <1>4, <1>5, <1>6

LEMMA WayPicks ==
  ASSUME NEW p \in Processes, HasWay(p), pc[p].at = "idle",
         \/ AutoPick /\ p = AutoQueue
         \/ \E s \in Steps, asked \in Executors \cup {"default"} : StartRoute(p, s, asked)
  PROVE  WayThen(pc'[p])
<1>0. WayFacts(p)
  BY WayHas
<1>1. PICK t : Become(p, t) /\ t.at = "pick"
  <2>1. CASE AutoPick /\ p = AutoQueue
    <3> DEFINE t == [Idle EXCEPT !.at = "pick", !.step = task.current, !.then = Head(queue)]
    <3>1. Become(p, t) /\ t.at = "pick"
      BY <2>1 DEF AutoPick, Idle
    <3> HIDE DEF t
    <3>2. QED
      BY <3>1
  <2>2. ASSUME NEW s \in Steps, NEW asked \in Executors \cup {"default"}, StartRoute(p, s, asked)
        PROVE  \E t : Become(p, t) /\ t.at = "pick"
    <3> DEFINE t == [Idle EXCEPT !.at = "pick", !.step = s, !.asked = asked, !.then = "both"]
    <3>1. Become(p, t) /\ t.at = "pick"
      BY <2>2 DEF StartRoute, Idle
    <3> HIDE DEF t
    <3>2. QED
      BY <3>1
  <2>3. QED
    BY <2>1, <2>2
<1>2. UNCHANGED <<run, stepStatus, task, budget>>
  BY DEF AutoPick, StartRoute
<1>3. pc'[p].at = "pick"
  BY <1>0, <1>1 DEF WayFacts, TurnFacts, Become
<1>4. Sits(pc'[p], stepStatus, run) /\ Blank(pc'[p])
  BY <1>3, SitsAnywhere DEF Blank
<1>5. QED
  BY <1>2, <1>3, <1>4, WayGoes

-----------------------------------------------------------------------------
\* What a process may rely on, given all that is known.
LEMMA WayIs ==
  ASSUME Straight, SoloInv, DoneInv, Onward, PipeInv, NEW p \in Processes, Alone(p)
  PROVE  HasWay(p)
BY DEF Straight, SoloInv, PipeInv, HasWay, HasTurn, At

\* A process at rest stands for any other.
LEMMA WayPasses ==
  ASSUME NEW t, NEW u, t.at \in Resting, u.at \in Resting, NEW steps, NEW rows, NEW now,
         NEW left, Ground(t, steps, rows, now, left)
  PROVE  Ground(u, steps, rows, now, left) /\ Sits(u, steps, rows)
BY SitsAnywhere DEF Resting, Ground, Works

\* What holds while q awaits its agent, of what another process p may do.
WhileAwaited(p) ==
  /\ Quiet(pc[p]) /\ NoneReady(stepStatus) /\ ~NoneBusy(stepStatus)
  /\ Kind[task.current] # "pr.merge"
  /\ \A r \in Runs : Open(run[r]) => run[r].executor = "agent"

LEMMA AwaitedFacts ==
  ASSUME NEW p \in Processes, HasWay(p), NEW q \in Processes, q # p,
         pc[q].at = "prompt", Awaited(q), Rests(pc[q], run)
  PROVE  /\ WhileAwaited(p)
         /\ pc[q].run \in Runs /\ run'[pc[q].run].step = run[pc[q].run].step
<1> DEFINE r == pc[q].run
           s == run[r].step
<1>0. WayFacts(p) /\ RowsInv
  BY WayHas
<1>1. r \in Runs /\ Used(r) /\ ~Merging(r)
  BY DEF HasWay, DoneInv, EndsInv, RowsInv, TypeInv, RunInHand, Handed, Sound, Knows, HasRun
<1>2. /\ s \in Steps /\ stepStatus[s] \in Busy /\ OnlyOpen(run, r) /\ Quiet(pc[p])
      /\ run[r].executor = "agent" /\ run'[r].step = s /\ Kind[s] # "pr.merge"
  BY <1>0, <1>1 DEF Awaited, WayFacts, Rests, Merging
<1> HIDE DEF s, r
<1>3. Along(stepStatus) /\ task.current \in Steps /\ stepStatus[task.current] # "pending"
  BY <1>0, <1>2 DEF WayFacts, Ground, Quiet
<1>4. NoneReady(stepStatus) /\ ~NoneBusy(stepStatus)
  BY <1>2, <1>3 DEF NoneReady, NoneBusy, Along, Busy, Steps
<1>5. Kind[task.current] # "pr.merge"
  <2>1. \A u \in Steps : Kind[u] = "pr.merge" => u = NSteps
    BY StepsAssumption
  <2>2. s # NSteps => s < NSteps
    BY <1>2, StepsAssumption DEF Steps
  <2>3. QED
    BY <1>2, <1>3, <2>1, <2>2, StepsAssumption DEF Along, Busy
<1>6. \A u \in Runs : Open(run[u]) => run[u].executor = "agent"
  BY <1>2 DEF OnlyOpen
<1>7. QED
  BY <1>1, <1>2, <1>4, <1>5, <1>6 DEF WhileAwaited, r, s

LEMMA AwaitedStays ==
  ASSUME NEW q \in Processes, Awaited(q), pc'[q] = pc[q], stepStatus' = stepStatus,
         run'[pc[q].run].step = run[pc[q].run].step,
         \A r \in Runs : Open(run'[r]) => Open(run[r]),
         \A u \in Processes \ {q} : Quiet(pc'[u])
  PROVE  Awaited(q)'
BY DEF Awaited, OnlyOpen

LEMMA PromptsContinue ==
  ASSUME Straight, SoloInv, DoneInv, Onward, PipeInv, NEW p \in Processes, Continue(p), Alone(p),
         NEW q \in Processes, pc'[q].at = "prompt"
  PROVE  Awaited(q)'
<1>0. /\ HasWay(p) /\ RowsInv /\ WayFacts(p)
      /\ \A u \in Processes : u # p => pc'[u] = pc[u]
  BY WayIs, WayHas, OthersWait DEF SoloInv
<1>1. CASE q = p
  <2> DEFINE r == pc[p].run
  <2>1. DispatchAgent(p)
    BY <1>0, <1>1, OnlyClaims
  <2>2. pc[p].at = "dispatch" /\ Goto(p, "prompt") /\ stepStatus' = stepStatus
    BY <2>1 DEF DispatchAgent, At
  <2>3. pc'[p].run = r
    BY <1>0, <2>2, TurnGoes DEF Same
  <2>4. r \in Runs /\ OnlyOpen(run, r) /\ stepStatus[run[r].step] \in Busy
    BY <1>0, <2>2, WayHolds DEF HasOpen, HasRun
  <2>5. \A u \in Runs : Open(run'[u]) = Open(run[u]) /\ run'[u].step = run[u].step
    BY <1>0, <2>1, <2>4 DEF DispatchAgent, WayFacts, TurnFacts, RunRows, Open
  <2>6. \A u \in Processes \ {p} : Quiet(pc[u])
    <3> SUFFICES ASSUME NEW u \in Processes, u # p PROVE Quiet(pc[u])
      OBVIOUS
    <3>1. pc[u].at \in Resting /\ Blank(pc[u]) /\ (pc[u].at = "prompt" => Awaited(u))
      BY DEF Alone, PipeInv, At
    <3>2. pc[u].at # "prompt"
      BY <2>2, <3>1 DEF Awaited, Quiet
    <3>3. QED
      BY <3>1, <3>2 DEF Resting, Blank, Quiet
  <2> HIDE DEF r
  <2>7. QED
    BY <1>0, <1>1, <2>2, <2>3, <2>4, <2>5, <2>6 DEF Awaited, OnlyOpen
<1>2. CASE q # p
  <2>1. pc'[q] = pc[q] /\ pc[q].at = "prompt" /\ Awaited(q) /\ Rests(pc[q], run)
    BY <1>0, <1>2 DEF PipeInv, SoloInv, At
  <2>2. WhileAwaited(p) /\ run'[pc[q].run].step = run[pc[q].run].step
    BY <1>0, <1>2, <2>1, AwaitedFacts
  <2>3. HookDone(p) \/ BlockTask(p)
    BY <2>2
       DEF WhileAwaited, Quiet, At, Continue, StartRead, StartAttempt, StartCreateRun,
           StartMoveStep, StartMoveTask, DispatchWait, DispatchFail, DispatchCreatePr,
           DispatchRequestApproval, ParkStep, DispatchAgent, PromptOk, Finalize, PromptFail,
           AdvanceRead, AdvanceSteps, AdvanceTask, BlockStep, BlockTask, ApproveClaim,
           ApproveExecute, ApproveFail, RejectCommit, CiCommit, AutoMergeOk, AutoMergeFail,
           HookNext, HookDone, RollbackSteps, RollbackTask
  <2>4. Finish(p) /\ run' = run /\ stepStatus' = stepStatus
    BY <2>2, <2>3 DEF WhileAwaited, HookDone, BlockTask
  <2>5. Quiet(pc'[p])
    BY <1>0, <2>4, TurnFinishes DEF Quiet
  <2>6. \A u \in Processes \ {q} : Quiet(pc'[u])
    BY <1>0, <2>1, <2>5 DEF Awaited
  <2>7. QED
    BY <2>1, <2>2, <2>4, <2>6, AwaitedStays
<1>3. QED
  BY <1>1, <1>2

LEMMA PromptsBegin ==
  ASSUME Straight, SoloInv, DoneInv, Onward, PipeInv, NEW h \in Handlers, Begin(h), Alone(h),
         NEW q \in Processes, pc'[q].at = "prompt"
  PROVE  Awaited(q)'
<1>p. h \in Processes
  BY DEF Processes
<1>0. /\ HasWay(h) /\ RowsInv /\ WayFacts(h) /\ pc[h].at = "idle"
      /\ \A u \in Processes : u # h => pc'[u] = pc[u]
  BY <1>p, WayIs, WayHas, Begins DEF SoloInv, Free, At
<1>1. q # h
  <2>1. \A r \in Runs : ~Resume(h, r)
    BY DEF Resume, Intervene, Straight
  <2>2. QED
    BY <1>0, <2>1, BeginsElsewhere
<1>2. pc'[q] = pc[q] /\ pc[q].at = "prompt" /\ Awaited(q) /\ Rests(pc[q], run)
  BY <1>0, <1>1 DEF PipeInv, SoloInv, At
<1>3. WhileAwaited(h) /\ run'[pc[q].run].step = run[pc[q].run].step
  BY <1>p, <1>0, <1>1, <1>2, AwaitedFacts
<1>4. pc \in [Processes -> Threads] /\ pc[h] \in Threads /\ budget \in Nat /\ pc[h].todo = {}
  BY <1>p, <1>0 DEF WayFacts, TurnFacts, Blank
<1>5. SyncHook(h) \/ ReviewHook(h) \/ PrOpenedHook(h) \/ PrMergedHook(h)
  <2>1. ASSUME NEW s \in Steps, NEW asked \in Executors \cup {"default"}
        PROVE  ~StartRoute(h, s, asked) /\ ~RollbackRoute(h, s)
    BY <1>3 DEF WhileAwaited, NoneReady, StartRoute, RollbackRoute, Intervene, Straight,
                Undisturbed
  <2>2. ASSUME NEW r \in Runs
        PROVE  ~SubmitApprove(h, r) /\ ~SubmitMerge(h, r) /\ ~SubmitChanges(h, r)
    <3>1. SubmitApprove(h, r) \/ SubmitMerge(h, r) \/ SubmitChanges(h, r) =>
            run[r].status = "running" /\ run[r].executor = "human"
      BY DEF SubmitApprove, SubmitMerge, SubmitChanges, Submittable, Intervene, Straight,
             Undisturbed
    <3>2. QED
      BY <1>3, <3>1 DEF WhileAwaited, Open, ActiveStatuses
  <2>3. ASSUME NEW r \in Runs, NEW passed \in BOOLEAN
        PROVE  ~ApproveRead(h, r) /\ ~RejectRead(h, r) /\ ~CiHook(h, r, passed)
    <3>1. Executed(run[r])
      BY DEF SoloInv
    <3>2. ApproveRead(h, r) \/ RejectRead(h, r) => run[r].approval = "pending"
      BY DEF ApproveRead, RejectRead, ApprovalRead
    <3>3. CiHook(h, r, passed) => run[r].status = "waiting_ci"
      BY DEF CiHook, CiRun, Latest, WaitingCi
    <3>4. QED
      BY <1>3, <3>1, <3>2, <3>3 DEF WhileAwaited, Open, Executed, ActiveStatuses
  <2>4. \A r \in Runs : ~Resume(h, r)
    BY DEF Resume, Intervene, Straight
  <2>5. QED
    BY <2>1, <2>2, <2>3, <2>4 DEF Begin
<1>6. \A r \in Runs : Open(run'[r]) = Open(run[r])
  BY <1>0, <1>5, LinkKeeps DEF SyncHook, ReviewHook, PrOpenedHook, PrMergedHook
<1>7. Quiet(pc'[h])
  <2>1. ~SyncHook(h)
    <3>1. SyncHook(h) => task.status = "blocked" /\ ~Stuck(budget)
      BY <1>4 DEF SyncHook, Intervene, Stuck
    <3>2. QED
      BY <1>0, <1>3, <3>1 DEF WhileAwaited, WayFacts, Ground
  <2>2. CASE ReviewHook(h)
    <3>1. Become(h, [pc[h] EXCEPT !.at = "blocking"])
      BY <2>2 DEF ReviewHook
    <3>2. pc'[h].at = "blocking" /\ pc'[h].todo = pc[h].todo
      BY <1>p, <1>4, <3>1 DEF Become, Threads
    <3>3. QED
      BY <1>4, <3>2 DEF Quiet
  <2>3. CASE PrOpenedHook(h)
    BY <1>3, <2>3 DEF PrOpenedHook, WhileAwaited
  <2>4. CASE PrMergedHook(h)
    <3>1. Become(h, [pc[h] EXCEPT !.at = "hook", !.todo = MergeRuns])
      BY <2>4 DEF PrMergedHook
    <3>2. pc'[h].at = "hook" /\ pc'[h].todo = MergeRuns
      BY <1>p, <1>4, <3>1 DEF Become, Threads
    <3>3. MergeRuns = {}
      BY <1>3 DEF MergeRuns, WhileAwaited, Open, ActiveStatuses
    <3>4. QED
      BY <3>2, <3>3 DEF Quiet
  <2>5. QED
    BY <1>5, <2>1, <2>2, <2>3, <2>4
<1>8. \A u \in Processes \ {q} : Quiet(pc'[u])
  BY <1>0, <1>2, <1>7 DEF Awaited
<1>9. stepStatus' = stepStatus
  BY <1>5 DEF SyncHook, ReviewHook, PrOpenedHook, PrMergedHook
<1>10. QED
  BY <1>2, <1>3, <1>6, <1>8, <1>9, AwaitedStays

LEMMA PromptsPick ==
  ASSUME Straight, SoloInv, DoneInv, Onward, PipeInv, AutoPick, Alone(AutoQueue),
         NEW q \in Processes
  PROVE  pc'[q].at # "prompt"
<1>p. AutoQueue \in Processes
  BY DEF Processes
<1>0. HasWay(AutoQueue) /\ WayFacts(AutoQueue)
  BY <1>p, WayIs, WayHas
<1>1. pc'[AutoQueue].at = "pick" /\ \A u \in Processes : u # AutoQueue => pc'[u] = pc[u]
  <2> DEFINE t == [Idle EXCEPT !.at = "pick", !.step = task.current, !.then = Head(queue)]
  <2>1. Become(AutoQueue, t) /\ t.at = "pick"
    BY DEF AutoPick, Idle
  <2> HIDE DEF t
  <2>2. QED
    BY <1>p, <1>0, <2>1 DEF Become, WayFacts, TurnFacts
<1>2. ASSUME q # AutoQueue, pc[q].at = "prompt" PROVE FALSE
  <2>1. Awaited(q) /\ Rests(pc[q], run)
    BY <1>2 DEF PipeInv, SoloInv, At
  <2>2. NoneReady(stepStatus)
    BY <1>p, <1>0, <1>2, <2>1, AwaitedFacts DEF WhileAwaited
  <2>3. stepStatus[task.current] = "ready" /\ task.current \in Steps
    BY <1>0 DEF AutoPick, AutoStartable, WayFacts
  <2>4. QED
    BY <2>2, <2>3 DEF NoneReady
<1>3. QED
  BY <1>1, <1>2

\* The process that moves keeps to the way, and so do the others.
LEMMA PipeMoves ==
  ASSUME PipeInv, NEW p \in Processes, Alone(p), WayThen(pc'[p]),
         \A q \in Processes : q # p => pc'[q] = pc[q],
         \A q \in Processes : pc'[q].at = "prompt" => Awaited(q)'
  PROVE  PipeInv'
<1>1. ASSUME NEW q \in Processes, Alone(q)'
      PROVE  Ground(pc'[q], stepStatus', run', task', budget') /\ Sits(pc'[q], stepStatus', run')
  <2>1. CASE q = p
    BY <2>1 DEF WayThen
  <2>2. CASE q # p
    <3>1. pc'[p].at \in Resting /\ pc'[q].at \in Resting
      BY <1>1, <2>2 DEF Alone
    <3>2. Ground(pc'[p], stepStatus', run', task', budget')
      BY DEF WayThen
    <3>3. QED
      BY <3>1, <3>2, WayPasses
  <2>3. QED
    BY <2>1, <2>2
<1>2. \A q \in Processes : Blank(pc'[q])
  BY DEF PipeInv, WayThen
<1>3. QED
  BY <1>1, <1>2 DEF PipeInv, WayThen, At

\* Something happens outside: no process moves, and rows at most end.
LEMMA PipeAside ==
  ASSUME PipeInv, SoloInv, pc' = pc, UNCHANGED <<stepStatus, task>>,
         \A r \in Runs : run'[r].step = run[r].step /\ (Open(run'[r]) => Open(run[r])),
         Stuck(budget) => Stuck(budget')
  PROVE  PipeInv'
<1>1. ASSUME NEW p \in Processes, Alone(p)
      PROVE  Ground(pc[p], stepStatus, run', task, budget') /\ Sits(pc[p], stepStatus, run')
  <2>1. Ground(pc[p], stepStatus, run, task, budget) /\ Sits(pc[p], stepStatus, run)
    BY <1>1 DEF PipeInv
  <2>2. /\ pc[p].at \in HasOpen => pc[p].run \in Runs
        /\ pc[p].at \in {"requested", "rejecting"} => pc[p].run \in Runs
        /\ pc[p].todo \subseteq Runs
    BY DEF SoloInv, RowsInv, TypeInv, TypeOK, RunInHand, Handed, HasOpen, HasRun, Threads
  <2>3. NoneOpen(run) => NoneOpen(run')
    BY DEF NoneOpen
  <2>4. Sits(pc[p], stepStatus, run')
    BY <2>1, <2>2, <2>3 DEF Sits
  <2>5. Ground(pc[p], stepStatus, run', task, budget')
    BY <2>1 DEF Ground, Works
  <2>6. QED
    BY <2>4, <2>5
<1>2. ASSUME NEW q \in Processes, pc[q].at = "prompt" PROVE Awaited(q)'
  <2>1. Awaited(q) /\ pc[q].run \in Runs
    BY <1>2 DEF PipeInv, At, SoloInv, RowsInv, TypeInv, RunInHand, Handed, HasRun
  <2>2. \A u \in Processes \ {q} : Quiet(pc'[u])
    BY <2>1 DEF Awaited
  <2>3. QED
    BY <2>1, <2>2, AwaitedStays
<1>3. QED
  BY <1>1, <1>2 DEF PipeInv, Alone, At

LEMMA PipeOutside ==
  ASSUME Straight, SoloInv, PipeInv, Outside \/ AutoDrop
  PROVE  PipeInv'
<1>0. run \in [Runs -> RunRows] /\ budget \in Nat
  BY DEF SoloInv, RowsInv, TypeInv, TypeOK
<1>1. CASE OpenPrByHand \/ MergeByHand \/ AutoDrop
  <2>1. UNCHANGED <<run, stepStatus, task, pc>>
        /\ (budget' = budget \/ (budget > 0 /\ budget' = budget - 1))
    BY <1>1 DEF OpenPrByHand, MergeByHand, AutoDrop, Intervene
  <2>2. Stuck(budget) => Stuck(budget')
    BY <1>0, <2>1 DEF Stuck
  <2>3. QED
    BY <2>1, <2>2, PipeAside
<1>2. ASSUME NEW r \in Runs, Cancel(r) \/ Complete(r)
      PROVE  PipeInv'
  <2>1. PICK status \in {"completed", "cancelled"} :
          run' = [run EXCEPT ![r].status = status]
    BY <1>2 DEF Cancel, Complete
  <2>2. \A q \in Runs : run'[q].step = run[q].step /\ (Open(run'[q]) => Open(run[q]))
    BY <1>0, <2>1 DEF RunRows, Open, ActiveStatuses
  <2>3. UNCHANGED <<stepStatus, task, pc>> /\ budget > 0 /\ budget' = budget - 1
    BY <1>2 DEF Cancel, Complete, Intervene
  <2>4. Stuck(budget) => Stuck(budget')
    BY <1>0, <2>3 DEF Stuck
  <2>5. QED
    BY <2>2, <2>3, <2>4, PipeAside
<1>3. \A r \in Runs : ~CreatePrRoute(r)
  BY DEF CreatePrRoute, Intervene, Straight, Undisturbed
<1>4. ~Crash
  BY DEF Crash, Intervene, Straight, Undisturbed
<1>5. QED
  BY <1>1, <1>2, <1>3, <1>4 DEF Outside

\* Whoever moves is alone: it was not at rest, or it found nobody else in a handler.
LEMMA PipeStep ==
  ASSUME Straight, SoloInv, DoneInv, Onward, PipeInv, [Next]_vars
  PROVE  PipeInv'
<1>1. /\ Undisturbed /\ ~Overlap /\ RowsInv
      /\ \A p \in Processes : pc[p].at \notin Resting => Alone(p)
  BY DEF Straight, Undisturbed, SoloInv
<1>2. AutoQueue \in Processes /\ \A h \in Handlers : h \in Processes
  BY DEF Processes
<1>3. ASSUME NEW p \in Processes, Continue(p) PROVE PipeInv'
  <2>1. Alone(p)
    BY <1>1, <1>3, MovesAlone
  <2>2. HasWay(p)
    BY <2>1, WayIs
  <2>3. WayThen(pc'[p])
    BY <1>3, <2>2, WayStarts, WayDispatches, WayPrompts, WayAdvances, WayDecides, WayRolls,
       WayHooks
       DEF Continue
  <2>4. \A q \in Processes : q # p => pc'[q] = pc[q]
    BY <1>1, <1>3, OthersWait
  <2>5. \A q \in Processes : pc'[q].at = "prompt" => Awaited(q)'
    BY <1>3, <2>1, PromptsContinue
  <2>6. QED
    BY <2>1, <2>3, <2>4, <2>5, PipeMoves
<1>4. ASSUME NEW h \in Handlers, Begin(h) PROVE PipeInv'
  <2>1. Alone(h) /\ pc[h].at = "idle" /\ \A q \in Processes : q # h => pc'[q] = pc[q]
    BY <1>1, <1>4, MovesAlone, Begins DEF Free, At
  <2>2. HasWay(h)
    BY <1>2, <2>1, WayIs
  <2>3. \A s \in Steps : ~RollbackRoute(h, s)
    BY <1>1 DEF RollbackRoute, Intervene, Undisturbed
  <2>4. WayThen(pc'[h])
    <3>1. ASSUME NEW s \in Steps, NEW asked \in Executors \cup {"default"}, StartRoute(h, s, asked)
          PROVE  WayThen(pc'[h])
      BY <1>2, <2>1, <2>2, <3>1, WayPicks
    <3>2. ASSUME NEW r \in Runs, SubmitApprove(h, r) \/ SubmitMerge(h, r) \/ SubmitChanges(h, r)
          PROVE  WayThen(pc'[h])
      BY <2>1, <2>2, <3>2, WaySubmits
    <3>3. ASSUME NEW r \in Runs, \/ ApproveRead(h, r) \/ RejectRead(h, r) \/ Resume(h, r)
                                 \/ \E passed \in BOOLEAN : CiHook(h, r, passed)
          PROVE  WayThen(pc'[h])
      BY <2>1, <2>2, <3>3, WayTakes
    <3>4. CASE SyncHook(h) \/ ReviewHook(h) \/ PrOpenedHook(h) \/ PrMergedHook(h)
      BY <2>1, <2>2, <3>4, WayDelivers
    <3>5. QED
      BY <1>4, <2>3, <3>1, <3>2, <3>3, <3>4 DEF Begin
  <2>5. \A q \in Processes : pc'[q].at = "prompt" => Awaited(q)'
    BY <1>4, <2>1, PromptsBegin
  <2>6. QED
    BY <1>2, <2>1, <2>4, <2>5, PipeMoves
<1>5. CASE AutoPick
  <2>1. Alone(AutoQueue) /\ pc[AutoQueue].at = "idle"
    BY <1>1, <1>5, MovesAlone DEF AutoPick, Free, At
  <2>2. WayThen(pc'[AutoQueue])
    BY <1>2, <1>5, <2>1, WayIs, WayPicks
  <2>3. \A q \in Processes : q # AutoQueue => pc'[q] = pc[q]
    BY <1>1, <1>5 DEF AutoPick, Become, RowsInv, TypeInv, TypeOK
  <2>4. \A q \in Processes : pc'[q].at # "prompt"
    BY <1>5, <2>1, PromptsPick
  <2>5. QED
    BY <1>2, <2>1, <2>2, <2>3, <2>4, PipeMoves
<1>6. CASE AutoDrop \/ Outside
  BY <1>6, PipeOutside
<1>7. CASE UNCHANGED vars
  BY <1>7 DEF vars, PipeInv, Awaited, Alone, At
<1>8. QED
  BY <1>3, <1>4, <1>5, <1>6, <1>7 DEF Next

LEMMA PipeInit == Init => PipeInv
<1> SUFFICES ASSUME Init PROVE PipeInv
  OBVIOUS
<1>1. /\ \A r \in Runs : run[r] = NoRun
      /\ \A p \in Processes : pc[p] = Idle
      /\ \A s \in Steps : stepStatus[s] = IF s = 1 THEN "ready" ELSE "pending"
      /\ task.status = "pending" /\ task.current = 1 /\ 1 \in Steps /\ NSteps \in Nat
  BY StepsAssumption DEF Init, Steps
<1>2. \A r \in Runs : ~Open(run[r])
  BY <1>1 DEF NoRun, Open, ActiveStatuses
<1>3. Idle.at = "idle" /\ Blank(Idle)
  BY DEF Idle, Blank
<1>4. Along(stepStatus)
  BY <1>1 DEF Along, Steps
<1>5. Ground(Idle, stepStatus, run, task, budget)
  BY <1>1, <1>2, <1>3 DEF Ground, Works
<1>6. QED
  BY <1>1, <1>3, <1>4, <1>5, SitsAnywhere DEF PipeInv, At

-----------------------------------------------------------------------------
(* The refinement of StepPipeline.                                           *)

Stage == [s \in Steps |->
  CASE stepStatus[s] = "pending" -> "waiting"
    [] stepStatus[s] = "ready" -> "ready"
    [] stepStatus[s] \in {"failed", "blocked"} -> "stopped"
    [] stepStatus[s] = "completed" ->
         IF s < NSteps /\ stepStatus[s + 1] = "pending" THEN "stopped" ELSE "passed"
    [] OTHER -> "busy"]

LEMMA StageIs ==
  ASSUME stepStatus \in [Steps -> StepStatuses], Along(stepStatus), NEW s \in Steps
  PROVE  /\ DOMAIN Stage = Steps
         /\ stepStatus[s] = "pending" => Stage[s] = "waiting"
         /\ stepStatus[s] = "ready" => Stage[s] = "ready"
         /\ stepStatus[s] \in Busy => Stage[s] = "busy"
         /\ stepStatus[s] \in {"failed", "blocked"} => Stage[s] = "stopped"
         /\ stepStatus[s] = "completed" =>
              IF s < NSteps /\ stepStatus[s + 1] = "pending" THEN Stage[s] = "stopped"
                                                             ELSE Stage[s] = "passed"
         /\ \A q \in Steps : q < s /\ stepStatus[s] # "pending" => Stage[q] = "passed"
<1>1. /\ DOMAIN Stage = Steps
      /\ \A u \in Steps :
           /\ stepStatus[u] = "pending" => Stage[u] = "waiting"
           /\ stepStatus[u] = "ready" => Stage[u] = "ready"
           /\ stepStatus[u] \in Busy => Stage[u] = "busy"
           /\ stepStatus[u] \in {"failed", "blocked"} => Stage[u] = "stopped"
           /\ stepStatus[u] = "completed" =>
                IF u < NSteps /\ stepStatus[u + 1] = "pending" THEN Stage[u] = "stopped"
                                                               ELSE Stage[u] = "passed"
  BY DEF Stage, Busy
<1>2. ASSUME NEW q \in Steps, q < s, stepStatus[s] # "pending"
      PROVE  Stage[q] = "passed"
  <2>1. stepStatus[q] = "completed" /\ q \in Nat /\ s \in Nat /\ q + 1 \in Steps /\ q + 1 <= s
    BY <1>2, StepsAssumption DEF Along, Steps
  <2>2. stepStatus[q + 1] # "pending"
    <3>1. q + 1 < s => stepStatus[q + 1] = "completed"
      BY <1>2, <2>1 DEF Along
    <3>2. QED
      BY <1>2, <2>1, <3>1
  <2>3. QED
    BY <1>1, <2>1, <2>2
<1>3. QED
  BY <1>1, <1>2

\* The same of the next state.
StageNext(s) ==
  /\ stepStatus'[s] = "pending" => Stage'[s] = "waiting"
  /\ stepStatus'[s] = "ready" => Stage'[s] = "ready"
  /\ stepStatus'[s] \in Busy => Stage'[s] = "busy"
  /\ stepStatus'[s] \in {"failed", "blocked"} => Stage'[s] = "stopped"
  /\ stepStatus'[s] = "completed" =>
       IF s < NSteps /\ stepStatus'[s + 1] = "pending" THEN Stage'[s] = "stopped"
                                                       ELSE Stage'[s] = "passed"

LEMMA StageWill ==
  /\ DOMAIN Stage' = Steps /\ Stage' = [s \in Steps |-> Stage'[s]]
  /\ \A s \in Steps : StageNext(s)
BY DEF Stage, StageNext, Busy

\* Only five writes concern the steps.
LEMMA StepsMove ==
  ASSUME [Next]_vars
  PROVE  \/ stepStatus' = stepStatus
         \/ \E p \in Processes : \/ StartMoveStep(p) \/ ParkStep(p) \/ AdvanceSteps(p)
                                 \/ BlockStep(p) \/ RollbackSteps(p)
<1>1. ASSUME NEW p \in Processes, Continue(p)
      PROVE  \/ stepStatus' = stepStatus
             \/ StartMoveStep(p) \/ ParkStep(p) \/ AdvanceSteps(p)
             \/ BlockStep(p) \/ RollbackSteps(p)
  BY <1>1
     DEF Continue, StartRead, StartAttempt, StartCreateRun, StartMoveTask, DispatchWait,
         DispatchFail, DispatchCreatePr, DispatchRequestApproval, DispatchAgent, PromptOk,
         Finalize, PromptFail, AdvanceRead, AdvanceTask, BlockTask, ApproveClaim,
         ApproveExecute, ApproveFail, RejectCommit, CiCommit, AutoMergeOk, AutoMergeFail,
         HookNext, HookDone, RollbackTask
<1>2. ASSUME NEW h \in Handlers, Begin(h) PROVE stepStatus' = stepStatus
  BY <1>2
     DEF Begin, StartRoute, RollbackRoute, SubmitApprove, SubmitMerge, SubmitChanges,
         ApproveRead, RejectRead, ApprovalRead, Resume, CiHook, SyncHook, ReviewHook,
         PrOpenedHook, PrMergedHook
<1>3. AutoPick \/ AutoDrop \/ Outside => stepStatus' = stepStatus
  BY DEF AutoPick, AutoDrop, Outside, Cancel, Complete, CreatePrRoute, OpenPrByHand,
         MergeByHand, Crash
<1>4. UNCHANGED vars => stepStatus' = stepStatus
  BY DEF vars
<1>5. QED
  BY <1>1, <1>2, <1>3, <1>4 DEF Next

\* The actions of the pipeline, in terms of Stage.
LEMMA PipelineSteps ==
  ASSUME NEW s \in Steps,
         \/ Stage[s] = "ready" /\ Stage' = [Stage EXCEPT ![s] = "busy"]
         \/ Stage[s] = "busy" /\ Stage' = [Stage EXCEPT ![s] = "stopped"]
         \/ /\ Stage[s] = "busy" \/ (s = NSteps /\ Stage[s] = "ready")
            /\ Stage' = [q \in Steps |-> IF q = s THEN "passed"
                                         ELSE IF q = s + 1 THEN "ready" ELSE Stage[q]]
         \/ /\ \A q \in Steps : Stage[q] # "busy"
            /\ Stage[s] \in {"passed", "stopped"}
            /\ Stage' = [q \in Steps |-> IF q < s THEN Stage[q]
                                         ELSE IF q = s THEN "ready" ELSE "waiting"]
  PROVE  Pipeline!Next
<1>1. Pipeline!Steps = Steps
  BY DEF Pipeline!Steps, Steps
<1>2. CASE Stage[s] = "ready" /\ Stage' = [Stage EXCEPT ![s] = "busy"]
  <2>1. Pipeline!Start(s)
    BY <1>2 DEF Pipeline!Start, Stage
  <2>2. QED
    BY <1>1, <2>1 DEF Pipeline!Next
<1>3. CASE Stage[s] = "busy" /\ Stage' = [Stage EXCEPT ![s] = "stopped"]
  <2>1. Pipeline!Stop(s)
    BY <1>3 DEF Pipeline!Stop, Stage
  <2>2. QED
    BY <1>1, <2>1 DEF Pipeline!Next
<1>4. CASE /\ Stage[s] = "busy" \/ (s = NSteps /\ Stage[s] = "ready")
           /\ Stage' = [q \in Steps |-> IF q = s THEN "passed"
                                        ELSE IF q = s + 1 THEN "ready" ELSE Stage[q]]
  <2>1. Pipeline!Pass(s)
    BY <1>1, <1>4, Zenon DEF Pipeline!Pass, Stage
  <2>2. QED
    BY <1>1, <2>1 DEF Pipeline!Next
<1>5. CASE /\ \A q \in Steps : Stage[q] # "busy"
           /\ Stage[s] \in {"passed", "stopped"}
           /\ Stage' = [q \in Steps |-> IF q < s THEN Stage[q]
                                        ELSE IF q = s THEN "ready" ELSE "waiting"]
  <2>1. Pipeline!GoBack(s)
    BY <1>1, <1>5, Zenon DEF Pipeline!GoBack, Pipeline!Opened, Stage
  <2>2. QED
    BY <1>1, <2>1 DEF Pipeline!Next
<1>6. QED
  BY <1>2, <1>3, <1>4, <1>5

\* A step of the task engine is a step of the pipeline, or none.
LEMMA PipeSimulates ==
  ASSUME Straight, SoloInv, DoneInv, Onward, PipeInv, [Next]_vars
  PROVE  Pipeline!Next \/ UNCHANGED Stage
<1> USE DEF At
<1>p. NSteps \in Nat /\ Pipeline!Steps = Steps
  BY StepsAssumption DEF Pipeline!Steps, Steps
<1>a. Along(stepStatus) /\ stepStatus \in [Steps -> StepStatuses]
  BY DEF PipeInv, SoloInv, RowsInv, TypeInv, TypeOK
<1>1. CASE stepStatus' = stepStatus
  BY <1>1 DEF Stage
<1>2. ASSUME NEW p \in Processes, \/ StartMoveStep(p) \/ ParkStep(p) \/ AdvanceSteps(p)
                                  \/ BlockStep(p) \/ RollbackSteps(p)
      PROVE  Pipeline!Next \/ UNCHANGED Stage
  <2> DEFINE s == pc[p].step
  <2>0. /\ WayFacts(p) /\ RowsInv /\ s \in Steps /\ pc[p] \in Threads
        /\ Sits(pc[p], stepStatus, run)
    <3>1. pc[p].at \notin Resting
      BY <1>2 DEF StartMoveStep, ParkStep, AdvanceSteps, BlockStep, RollbackSteps, Resting
    <3>2. HasWay(p)
      BY <3>1, WayIs DEF SoloInv
    <3>3. QED
      BY <3>2, WayHas DEF WayFacts, TurnFacts
  <2>s. ASSUME \A q \in Steps : Stage'[q] = Stage[q] PROVE UNCHANGED Stage
    BY <2>s, StageWill DEF Stage
  <2>k. ASSUME \A q \in Steps : stepStatus'[q] = stepStatus[q] PROVE UNCHANGED Stage
    <3>1. \A q \in Steps : q < NSteps => q + 1 \in Steps
      BY <1>p DEF Steps
    <3>2. \A q \in Steps : Stage'[q] = Stage[q]
      BY <1>a, <2>k, <3>1, StageIs, StageWill DEF StageNext, StepStatuses, Busy
    <3>3. QED
      BY <2>s, <3>2
  <2>1. CASE StartMoveStep(p)
    <3>1. stepStatus[s] = "ready"
      BY <2>0, <2>1 DEF StartMoveStep, Sits
    <3>2. /\ stepStatus'[s] \in Busy
          /\ \A q \in Steps : q # s => stepStatus'[q] = stepStatus[q]
      BY <1>a, <2>0, <2>1 DEF StartMoveStep, Busy
    <3> HIDE DEF s
    <3>3. Stage[s] = "ready" /\ Stage'[s] = "busy"
      BY <1>a, <2>0, <3>1, <3>2, StageIs, StageWill DEF StageNext
    <3>4. ASSUME NEW q \in Steps, q # s PROVE Stage'[q] = Stage[q]
      BY <1>p, <1>a, <2>0, <3>1, <3>2, <3>4, StageIs, StageWill DEF StageNext, Along, Steps
    <3>5. Stage' = [Stage EXCEPT ![s] = "busy"]
      BY <1>a, <2>0, <3>3, <3>4, StageIs, StageWill
    <3>6. QED
      BY <2>0, <3>3, <3>5, PipelineSteps
  <2>2. CASE ParkStep(p)
    <3>1. stepStatus[s] \in Busy
      BY <2>0, <2>2 DEF ParkStep, Sits, HasOpen, HasRun
    <3>2. /\ stepStatus'[s] \in Busy
          /\ \A q \in Steps : q # s => stepStatus'[q] = stepStatus[q]
      BY <1>a, <2>0, <2>2 DEF ParkStep, Busy
    <3> HIDE DEF s
    <3>3. Stage[s] = "busy" /\ Stage'[s] = "busy"
      BY <1>a, <2>0, <3>1, <3>2, StageIs, StageWill DEF StageNext
    <3>4. ASSUME NEW q \in Steps, q # s PROVE Stage'[q] = Stage[q]
      BY <1>p, <1>a, <2>0, <3>1, <3>2, <3>4, StageIs, StageWill DEF StageNext, Along, Steps, Busy
    <3>5. QED
      BY <2>s, <3>3, <3>4
  <2>3. CASE AdvanceSteps(p)
    <3> DEFINE outcome == pc[p].outcome
    <3>1. /\ outcome \in {"completed", "failed"}
          /\ Merges(s) => s = NSteps /\ outcome = "completed" /\ stepStatus[s] # "pending"
          /\ ~Merges(s) => stepStatus[s] \in Busy
          /\ outcome = "completed" /\ s < NSteps => pc[p].nextPending
      BY <2>0, <2>3 DEF AdvanceSteps, WayFacts, Sits, Knows, Threads
    <3>2. \A q \in Steps : stepStatus'[q] = IF q = s THEN outcome
                                            ELSE IF q = s + 1 /\ outcome = "completed" THEN "ready"
                                            ELSE stepStatus[q]
      BY <1>p, <2>0, <2>3, <3>1, StepsAssumption DEF AdvanceSteps, Steps
    <3> HIDE DEF s, outcome
    <3>3. stepStatus[s] \in Busy \cup {"ready", "completed"}
      BY <1>a, <2>0, <3>1 DEF Along, StepStatuses, Busy
    <3>4. /\ Stage[s] = "ready" => s = NSteps /\ outcome = "completed"
          /\ Stage[s] \in {"ready", "busy", "passed"}
          /\ Stage[s] = "passed" => stepStatus[s] = "completed" /\ s = NSteps
      BY <1>p, <1>a, <2>0, <3>1, <3>3, StageIs DEF Busy, Steps
    <3>5. CASE stepStatus[s] = "completed"
      <4>1. \A q \in Steps : stepStatus'[q] = stepStatus[q]
        BY <1>p, <2>0, <3>1, <3>2, <3>5 DEF Steps, Busy
      <4>2. QED
        BY <2>k, <4>1
    <3>6. CASE stepStatus[s] # "completed"
      <4>1. /\ \A q \in Steps : q < s => stepStatus[q] = "completed"
            /\ \A q \in Steps : q > s => stepStatus[q] = "pending"
        BY <1>a, <2>0, <3>1, <3>6, BusyAlong DEF Busy
      <4>2. Stage[s] \in {"ready", "busy"}
        BY <3>4, <3>6
      <4>3. ASSUME NEW q \in Steps, q < s PROVE Stage[q] = "passed" /\ Stage'[q] = "passed"
        BY <1>p, <1>a, <2>0, <3>1, <3>2, <3>6, <4>1, <4>3, StageIs, StageWill
           DEF StageNext, Steps, Busy
      <4>4. ASSUME NEW q \in Steps, q > s, q # s + 1 \/ outcome = "failed"
            PROVE  Stage'[q] = Stage[q]
        BY <1>p, <1>a, <2>0, <3>1, <3>2, <4>1, <4>4, StageIs, StageWill DEF StageNext, Steps
      <4>5. CASE outcome = "completed"
        <5>1. Stage'[s] = "passed"
          BY <1>p, <2>0, <3>2, <4>5, StageWill DEF StageNext, Steps
        <5>2. s + 1 \in Steps => Stage'[s + 1] = "ready"
          BY <1>p, <2>0, <3>2, <4>5, StageWill DEF StageNext, Steps
        <5>3. \A q \in Steps : Stage'[q] = IF q = s THEN "passed"
                                           ELSE IF q = s + 1 THEN "ready" ELSE Stage[q]
          BY <2>0, <4>3, <4>4, <5>1, <5>2 DEF Steps
        <5>4. Stage' = [q \in Steps |-> IF q = s THEN "passed"
                                        ELSE IF q = s + 1 THEN "ready" ELSE Stage[q]]
          BY <5>3, StageWill
        <5>5. QED
          BY <2>0, <3>4, <4>2, <5>4, PipelineSteps
      <4>6. CASE outcome = "failed"
        <5>1. Stage'[s] = "stopped"
          BY <2>0, <3>2, <4>6, StageWill DEF StageNext
        <5>2. \A q \in Steps : q # s => Stage'[q] = Stage[q]
          BY <2>0, <4>3, <4>4, <4>6 DEF Steps
        <5>3. Stage' = [Stage EXCEPT ![s] = "stopped"]
          BY <1>a, <2>0, <5>1, <5>2, StageIs, StageWill
        <5>4. QED
          BY <2>0, <3>4, <4>2, <4>6, <5>3, PipelineSteps
      <4>7. QED
        BY <3>1, <4>5, <4>6
    <3>7. QED
      BY <3>5, <3>6
  <2>4. CASE BlockStep(p)
    <3> DEFINE outcome == pc[p].outcome
    <3>1. stepStatus[s] \in Busy
      BY <2>0, <2>4 DEF BlockStep, Sits
    <3>2. /\ \A q \in Steps : q # s => stepStatus'[q] = stepStatus[q]
          /\ stepStatus'[s] = outcome /\ outcome \in {"completed", "failed", "blocked"}
      BY <1>a, <2>0, <2>4 DEF BlockStep, Threads
    <3> HIDE DEF s, outcome
    <3>3. /\ \A q \in Steps : q < s => stepStatus[q] = "completed"
          /\ \A q \in Steps : q > s => stepStatus[q] = "pending"
          /\ Stage[s] = "busy"
      BY <1>a, <2>0, <3>1, BusyAlong, StageIs DEF Busy
    <3>4. ASSUME NEW q \in Steps, q < s PROVE Stage[q] = "passed" /\ Stage'[q] = "passed"
      BY <1>p, <1>a, <2>0, <3>1, <3>2, <3>3, <3>4, StageIs, StageWill DEF StageNext, Steps, Busy
    <3>5. ASSUME NEW q \in Steps, q > s PROVE Stage'[q] = Stage[q]
      BY <1>p, <1>a, <2>0, <3>2, <3>3, <3>5, StageIs, StageWill DEF StageNext, Steps
    <3>6. \A q \in Steps : q # s => Stage'[q] = Stage[q]
      BY <2>0, <3>4, <3>5 DEF Steps
    <3>7. CASE outcome = "completed" /\ s = NSteps
      <4>1. Stage'[s] = "passed"
        BY <1>p, <2>0, <3>2, <3>7, StageWill DEF StageNext
      <4>2. \A q \in Steps : Stage'[q] = IF q = s THEN "passed"
                                         ELSE IF q = s + 1 THEN "ready" ELSE Stage[q]
        BY <1>p, <3>6, <3>7, <4>1 DEF Steps
      <4>3. Stage' = [q \in Steps |-> IF q = s THEN "passed"
                                      ELSE IF q = s + 1 THEN "ready" ELSE Stage[q]]
        BY <4>2, StageWill
      <4>4. QED
        BY <2>0, <3>3, <4>3, PipelineSteps
    <3>8. CASE ~(outcome = "completed" /\ s = NSteps)
      <4>1. Stage'[s] = "stopped"
        <5>1. CASE outcome = "completed"
          <6>1. s < NSteps /\ s + 1 \in Steps /\ s + 1 > s
            BY <1>p, <2>0, <3>8, <5>1 DEF Steps
          <6>2. stepStatus'[s + 1] = "pending"
            BY <3>2, <3>3, <6>1
          <6>3. QED
            BY <2>0, <3>2, <5>1, <6>1, <6>2, StageWill DEF StageNext
        <5>2. CASE outcome # "completed"
          BY <2>0, <3>2, <5>2, StageWill DEF StageNext
        <5>3. QED
          BY <5>1, <5>2
      <4>2. Stage' = [Stage EXCEPT ![s] = "stopped"]
        BY <1>a, <2>0, <3>6, <4>1, StageIs, StageWill
      <4>3. QED
        BY <2>0, <3>3, <4>2, PipelineSteps
    <3>9. QED
      BY <3>7, <3>8
  <2>5. CASE RollbackSteps(p)
    <3>1. s = 1 /\ NoneBusy(stepStatus) /\ stepStatus[1] # "ready"
      BY <2>0, <2>5 DEF RollbackSteps, WayFacts, TurnFacts, Turn, Leads, Sits
    <3>2. \A q \in Steps : stepStatus'[q] = IF q > 1 THEN "pending" ELSE "ready"
      BY <1>p, <2>5, <3>1 DEF RollbackSteps, Steps
    <3>3. \A q \in Steps : stepStatus[q] \notin Busy /\ Stage[q] # "busy"
      BY <1>a, <3>1, StageIs DEF NoneBusy, StepStatuses, Busy
    <3>4. Stage[1] \in {"passed", "stopped"}
      BY <1>a, <2>0, <3>1, <3>3, StageIs DEF Along, StepStatuses, Busy
    <3>5. \A q \in Steps : Stage'[q] = IF q < 1 THEN Stage[q]
                                       ELSE IF q = 1 THEN "ready" ELSE "waiting"
      BY <3>2, StageWill DEF StageNext, Steps
    <3>6. Stage' = [q \in Steps |-> IF q < 1 THEN Stage[q]
                                    ELSE IF q = 1 THEN "ready" ELSE "waiting"]
      BY <3>5, StageWill
    <3>7. QED
      BY <2>0, <3>1, <3>3, <3>4, <3>6, PipelineSteps
  <2>6. QED
    BY <1>2, <2>1, <2>2, <2>3, <2>4, <2>5
<1>3. QED
  BY <1>1, <1>2, StepsMove

\* Requests and deliveries that come one at a time drive the steps through the
\* pipeline: no step is skipped, none is passed without having been started (the
\* merge step may be, by a merge on GitHub), one that stops is taken up again only
\* by sending the task back, and nothing is worked on while it is sent back. A refused
\* merge and a push send it back to its dev.implement step, which must be its first.
THEOREM RunsPipelineHolds ==
  ASSUME Straight
  PROVE  Spec => RunsPipeline
<1> DEFINE All == SoloInv /\ DoneInv /\ PipeInv
<1>1. Init /\ RowsInv => All /\ Pipeline!Init
  <2>1. Init => Pipeline!Init
    BY StepsAssumption DEF Init, Pipeline!Init, Pipeline!Steps, Steps
  <2>2. QED
    BY <2>1, SoloInit, DoneInit, PipeInit DEF Straight
<1>2. All /\ RowsInv' /\ [Next]_vars => All' /\ [Pipeline!Next]_Stage
  <2> SUFFICES ASSUME All, RowsInv', [Next]_vars
               PROVE  All' /\ (Pipeline!Next \/ UNCHANGED Stage)
    OBVIOUS
  <2>1. Onward
    BY EndsStep, OnwardNext DEF Straight, PeopleMerge, NoReopening, DoneInv
  <2>2. SoloInv' /\ DoneInv'
    BY SoloStep, DoneStep DEF Straight
  <2>3. PipeInv'
    BY <2>1, PipeStep
  <2>4. Pipeline!Next \/ UNCHANGED Stage
    BY <2>1, PipeSimulates
  <2>5. QED
    BY <2>2, <2>3, <2>4
<1>3. QED
  BY <1>1, <1>2, RowsCorrect, PTL DEF Spec, RunsPipeline, Pipeline!Spec, Stage

\* What holds of the steps says the same of the pipeline's.
LEMMA PipelineOrdered ==
  ASSUME stepStatus \in [Steps -> StepStatuses], Along(stepStatus)
  PROVE  Pipeline!OneStepAtATime
<1>1. ASSUME NEW s \in Steps, Stage[s] \in {"ready", "busy", "stopped"}, NEW q \in Steps
      PROVE  /\ q < s => Stage[q] = "passed"
             /\ q > s => Stage[q] = "waiting"
  <2>1. stepStatus[s] # "pending"
    BY <1>1, StageIs
  <2>2. q < s => Stage[q] = "passed"
    BY <1>1, <2>1, StageIs
  <2>3. q > s => Stage[q] = "waiting"
    <3>1. CASE q > s /\ stepStatus[q] = "pending"
      BY <3>1, <1>1, StageIs
    <3>2. CASE q > s /\ stepStatus[q] # "pending"
      <4>1. Stage[s] = "passed"
        BY <3>2, <1>1, StageIs DEF Steps
      <4>2. QED
        BY <1>1, <4>1
    <3>3. QED
      BY <3>1, <3>2
  <2>4. QED
    BY <2>2, <2>3
<1>2. Pipeline!Steps = Steps
  BY DEF Pipeline!Steps, Steps
<1>3. \A s \in Steps : Stage[s] \in {"ready", "busy", "stopped"} =>
        /\ \A q \in Steps : q < s => Stage[q] = "passed"
        /\ \A q \in Steps : q > s => Stage[q] = "waiting"
  BY <1>1
<1>4. QED
  BY <1>2, <1>3, Zenon DEF Pipeline!OneStepAtATime, Stage

\* So no two steps of a task are ready or worked on, all before that one are completed
\* and all behind it untouched, whatever reviews, pushes and cancellations come between.
THEOREM OneStepAtATimeHolds ==
  ASSUME Straight
  PROVE  Spec => []Pipeline!OneStepAtATime
<1> DEFINE All == SoloInv /\ DoneInv /\ PipeInv
<1>1. Init /\ RowsInv => All
  BY SoloInit, DoneInit, PipeInit DEF Straight
<1>2. All /\ RowsInv' /\ [Next]_vars => All'
  <2> SUFFICES ASSUME All, RowsInv', [Next]_vars PROVE All'
    OBVIOUS
  <2>1. Onward
    BY EndsStep, OnwardNext DEF Straight, PeopleMerge, NoReopening, DoneInv
  <2>2. QED
    BY <2>1, SoloStep, DoneStep, PipeStep DEF Straight
<1>3. All => Pipeline!OneStepAtATime
  <2>1. All => stepStatus \in [Steps -> StepStatuses] /\ Along(stepStatus)
    BY DEF PipeInv, SoloInv, RowsInv, TypeInv, TypeOK
  <2>2. QED
    BY <2>1, PipelineOrdered
<1>4. QED
  BY <1>1, <1>2, <1>3, RowsCorrect, PTL DEF Spec

-----------------------------------------------------------------------------
(***************************************************************************)
(* What a user is told to do next.  On top of the pipeline: the row behind *)
(* every step that is worked on, and who is at work on a running step.     *)
(***************************************************************************)

\* Nobody ends a run but the one who executes it.
Helped == Straight /\ Interventions \subseteq {"github", "openpr"}

\* Somebody can end the step s, of this status, by way of its row.
Stands(row, s, status, by) ==
  /\ Open(row) /\ row.step = s /\ row.executor = by
  /\ status = "waiting_ci" => row.status = "waiting_ci"
  /\ status = "waiting_human" => IF by = "human" THEN row.status = "running" ELSE PrApproval
  /\ status = "running" => by \in {"agent", "system"}

\* The run has ended and its step has not; a handler is at work on the step; the step
\* has moved and the task has not.
Shuts  == {"advance", "advanced", "block"}
OnIt   == {"stepped", "dispatch", "requested", "finalize", "advance", "advanced"}
Shifts == {"moved", "rolling", "blocking"}

Backs(t, steps, rows, by, now, asked) ==
  /\ t.at \notin Shuts =>
       \A s \in Steps : steps[s] \in Busy => \E r \in Runs : Stands(rows[r], s, steps[s], by[s])
  /\ \A s \in Steps : steps[s] = "running" => asked \/ t.at \in OnIt
  /\ now.status \in {"pending", "running"} /\ t.at \notin Shifts =>
       steps[now.current] \in Busy \cup {"ready"}
  /\ t.at = "start" => t.exec = IF t.asked = "default" THEN by[t.step] ELSE t.asked
  /\ t.at \in {"create", "created"} => t.exec = by[t.step]
  /\ t.at = "created" => rows[t.run].status = IF t.exec = "ci" THEN "waiting_ci" ELSE "running"
  /\ t.at = "requested" => PrApproval
  /\ t.at = "rolling" => steps[t.step] = "ready"

\* An agent is awaited.
AgentAsked == \E q \in Processes : At(q, "prompt")

HelpInv ==
  /\ \A p \in Processes : Alone(p) =>
       Backs(pc[p], stepStatus, run, executor, task, AgentAsked)
  /\ \A p \in Processes : pc[p].then # "resume"

HelpThen(p) == Backs(pc'[p], stepStatus', run', executor', task', AgentAsked')

HasHelp(p) ==
  /\ Helped /\ HasWay(p) /\ pc[p].then # "resume"
  /\ Backs(pc[p], stepStatus, run, executor, task, AgentAsked)
  /\ \A q \in Processes : q # p => pc'[q] = pc[q]

\* The row still lets somebody end the step.
Stays(row, new) ==
  /\ new.status = row.status /\ new.step = row.step /\ new.executor = row.executor
  /\ Open(row) => Open(new)

LEMMA StandsStays ==
  ASSUME NEW row, NEW new, Stays(row, new), NEW s, NEW status, NEW by,
         Stands(row, s, status, by)
  PROVE  Stands(new, s, status, by)
BY DEF Stays, Stands

\* A handler at rest stands for any other.
LEMMA BacksPasses ==
  ASSUME NEW t, NEW u, t.at \in Resting, u.at \in Resting,
         NEW steps, NEW rows, NEW by, NEW now, NEW asked, Backs(t, steps, rows, by, now, asked)
  PROVE  Backs(u, steps, rows, by, now, asked)
BY DEF Resting, Backs, Shuts, OnIt, Shifts

LEMMA BacksGoes ==
  ASSUME NEW t, NEW u, NEW steps, NEW rows, NEW new, NEW by, NEW now, NEW asked, NEW then,
         Backs(t, steps, rows, by, now, asked),
         u.at \notin {"start", "create", "created", "requested", "rolling"},
         u.at \in Shuts \/ (t.at \notin Shuts /\ \A r \in Runs : Stays(rows[r], new[r])),
         asked \/ t.at \in OnIt => then \/ u.at \in OnIt,
         t.at \notin Shifts
  PROVE  Backs(u, steps, new, by, now, then)
<1>1. u.at \notin Shuts =>
        \A s \in Steps : steps[s] \in Busy => \E r \in Runs : Stands(new[r], s, steps[s], by[s])
  BY StandsStays DEF Backs
<1>2. \A s \in Steps : steps[s] = "running" => then \/ u.at \in OnIt
  BY DEF Backs
<1>3. QED
  BY <1>1, <1>2 DEF Backs

\* A step of the handler that leaves the steps, their executors and the task alone.
LEMMA HelpGoes ==
  ASSUME NEW p \in Processes, HasHelp(p), UNCHANGED <<stepStatus, executor, task>>,
         pc[p].at \notin Shifts,
         pc'[p].at \notin {"start", "create", "created", "requested", "rolling"},
         pc'[p].at \in Shuts \/ (pc[p].at \notin Shuts /\ \A r \in Runs : Stays(run[r], run'[r])),
         pc[p].at \in OnIt \cup {"prompt"} => pc'[p].at \in OnIt \cup {"prompt"}
  PROVE  HelpThen(p)
<1>1. AgentAsked \/ pc[p].at \in OnIt => AgentAsked' \/ pc'[p].at \in OnIt
  BY DEF HasHelp, AgentAsked, At
<1>2. Backs(pc[p], stepStatus, run, executor, task, AgentAsked)
  BY DEF HasHelp
<1>3. Backs(pc'[p], stepStatus, run', executor, task, AgentAsked')
  BY <1>1, <1>2, BacksGoes
<1>4. QED
  BY <1>3 DEF HelpThen

LEMMA HelpEnds ==
  ASSUME NEW p \in Processes, HasHelp(p), UNCHANGED <<stepStatus, executor, task>>,
         pc[p].at \notin Shifts,
         NEW r, NEW row, NEW outcome, NEW then, EndRun(p, r, row, outcome, then)
  PROVE  HelpThen(p)
<1>1. pc'[p].at = "advance"
  <2>1. pc \in [Processes -> Threads] /\ pc[p] \in Threads
    BY WayHas DEF HasHelp, WayFacts, TurnFacts
  <2>2. QED
    BY <2>1 DEF EndRun, Become, Threads
<1>2. pc'[p].at \in Shuts /\ pc'[p].at \in OnIt \cup {"prompt"}
      /\ pc'[p].at \notin {"start", "create", "created", "requested", "rolling"}
  BY <1>1 DEF Shuts, OnIt
<1>3. QED
  BY <1>2, HelpGoes

\* What is known of the handler that moves.
LEMMA HelpHas ==
  ASSUME NEW p \in Processes, HasHelp(p)
  PROVE  /\ WayFacts(p) /\ RowsInv
         /\ pc \in [Processes -> Threads] /\ pc[p] \in Threads /\ pc[p].step \in Steps
         /\ run \in [Runs -> RunRows] /\ stepStatus \in [Steps -> StepStatuses]
         /\ executor \in [Steps -> Executors]
         /\ Backs(pc[p], stepStatus, run, executor, task, AgentAsked)
         /\ pc[p].at # "prompt" => (AgentAsked => AgentAsked')
<1>1. WayFacts(p) /\ RowsInv
  BY WayHas DEF HasHelp
<1>2. executor \in [Steps -> Executors]
  BY <1>1 DEF RowsInv, TypeInv, TypeOK
<1>3. pc[p].at # "prompt" => (AgentAsked => AgentAsked')
  BY DEF HasHelp, AgentAsked, At
<1>4. QED
  BY <1>1, <1>2, <1>3 DEF HasHelp, WayFacts, TurnFacts

\* Starting a step.
LEMMA HelpStarts ==
  ASSUME NEW p \in Processes, HasHelp(p),
         \/ StartRead(p) \/ StartAttempt(p) \/ StartCreateRun(p) \/ StartMoveStep(p)
         \/ StartMoveTask(p)
  PROVE  HelpThen(p)
<1> USE DEF At
<1> DEFINE s == pc[p].step
           r == pc[p].run
<1>0. WayFacts(p) /\ RowsInv
  BY HelpHas
<1>p. /\ pc \in [Processes -> Threads] /\ pc[p] \in Threads /\ s \in Steps
      /\ run \in [Runs -> RunRows] /\ stepStatus \in [Steps -> StepStatuses]
      /\ executor \in [Steps -> Executors]
      /\ Backs(pc[p], stepStatus, run, executor, task, AgentAsked)
      /\ pc[p].at # "prompt" => (AgentAsked => AgentAsked')
  BY HelpHas
<1>1. CASE StartRead(p)
  <2>1. CASE Finish(p)
    <3>1. pc'[p].at = "idle" /\ pc[p].at = "pick"
      BY <1>0, <1>1, <2>1, TurnFinishes DEF StartRead
    <3>2. UNCHANGED <<stepStatus, executor, task, run>>
      BY <1>1 DEF StartRead
    <3>3. \A q \in Runs : Stays(run[q], run'[q])
      BY <3>2 DEF Stays
    <3>4. QED
      BY <3>1, <3>2, <3>3, HelpGoes DEF Shifts, Shuts, OnIt
  <2>2. CASE ~Finish(p)
    <3> DEFINE e == IF pc[p].asked = "default" THEN executor[s] ELSE pc[p].asked
    <3>1. /\ Become(p, [pc[p] EXCEPT !.at = "start", !.branch = workspace, !.exec = e])
          /\ pc[p].at = "pick" /\ UNCHANGED <<stepStatus, executor, task, run>>
      BY <1>1, <2>2 DEF StartRead
    <3> HIDE DEF e
    <3>2. /\ pc'[p].at = "start" /\ pc'[p].exec = e /\ pc'[p].step = s
          /\ pc'[p].asked = pc[p].asked
      BY <1>p, <3>1 DEF Become, Threads
    <3>3. QED
      BY <1>p, <3>1, <3>2 DEF HelpThen, Backs, Shuts, OnIt, Shifts, e
  <2>3. QED
    BY <2>1, <2>2
<1>2. CASE StartAttempt(p)
  <2>1. PICK a : Become(p, [pc[p] EXCEPT !.at = "create", !.attempt = a])
    BY <1>2 DEF StartAttempt
  <2>2. /\ pc'[p].at = "create" /\ pc'[p].exec = pc[p].exec /\ pc'[p].step = s
        /\ pc[p].at = "start"
    BY <1>p, <1>2, <2>1 DEF StartAttempt, Become, Threads
  <2>3. /\ UNCHANGED <<stepStatus, task, run>>
        /\ executor' = [executor EXCEPT ![s] = IF pc[p].asked = "default" THEN @
                                                                          ELSE pc[p].asked]
    BY <1>2 DEF StartAttempt
  <2>4. stepStatus[s] = "ready"
    BY <1>0, <2>2 DEF WayFacts, TurnFacts, Turn
  <2>5. \A q \in Steps : stepStatus[q] \in Busy => executor'[q] = executor[q]
    BY <1>p, <2>3, <2>4 DEF Busy
  <2>6. executor'[s] = pc[p].exec
    BY <1>p, <2>2, <2>3 DEF Backs
  <2> HIDE DEF s, r
  <2>7. QED
    BY <1>p, <2>2, <2>3, <2>5, <2>6 DEF HelpThen, Backs, Shuts, OnIt, Shifts
<1>3. CASE StartCreateRun(p)
  <2> DEFINE status == IF pc[p].exec = "ci" THEN "waiting_ci" ELSE "running"
             row == [NoRun EXCEPT !.status = status, !.step = s, !.executor = pc[p].exec,
                                  !.attempt = pc[p].attempt, !.branch = pc[p].branch]
  <2>1. PICK q \in Runs : /\ ~Used(q) /\ run' = [run EXCEPT ![q] = row]
                          /\ Become(p, [pc[p] EXCEPT !.at = "created", !.run = q])
    <3>1. PICK q \in Runs : /\ \A u \in Runs : Used(u) <=> u < q
                            /\ run' = [run EXCEPT ![q] = row]
                            /\ Become(p, [pc[p] EXCEPT !.at = "created", !.run = q])
      BY <1>3 DEF StartCreateRun
    <3>2. ~Used(q)
      BY <3>1, BoundsAssumption DEF Runs
    <3>3. QED
      BY <3>1, <3>2
  <2>2. row.status = status
    BY DEF NoRun
  <2> HIDE DEF row
  <2>3. /\ pc'[p].at = "created" /\ pc'[p].run = q /\ pc'[p].step = s
        /\ pc'[p].exec = pc[p].exec /\ pc[p].at = "create"
    BY <1>p, <1>3, <2>1 DEF StartCreateRun, Become, Threads
  <2>4. UNCHANGED <<stepStatus, executor, task>>
    BY <1>3 DEF StartCreateRun
  <2>5. run'[q].status = status /\ \A u \in Runs : Open(run[u]) => run'[u] = run[u]
    BY <1>0, <1>p, <2>1, <2>2 DEF WayFacts
  <2>6. \A u \in Steps : stepStatus[u] \in Busy =>
          \E v \in Runs : Stands(run'[v], u, stepStatus[u], executor[u])
    BY <1>p, <2>3, <2>5 DEF Backs, Stands, Shuts
  <2>7. \A u \in Steps : stepStatus[u] = "running" => AgentAsked'
    BY <1>p, <2>3 DEF Backs, OnIt
  <2>8. task.status \in {"pending", "running"} => stepStatus[task.current] \in Busy \cup {"ready"}
    BY <1>p, <2>3 DEF Backs, Shifts
  <2>9. pc[p].exec = executor[s]
    BY <1>p, <2>3 DEF Backs
  <2> HIDE DEF s, r
  <2>10. QED
    BY <2>3, <2>4, <2>5, <2>6, <2>7, <2>8, <2>9 DEF HelpThen, Backs, Shuts, OnIt, Shifts
<1>4. CASE StartMoveStep(p)
  <2>1. /\ pc'[p].at = "stepped" /\ pc[p].at = "created"
        /\ UNCHANGED <<run, task, executor>>
    BY <1>0, <1>4, TurnGoes DEF StartMoveStep
  <2>2. /\ r \in Runs /\ run[r].step = s /\ run[r].executor = pc[p].exec
        /\ run[r].status = IF pc[p].exec = "ci" THEN "waiting_ci" ELSE "running"
        /\ executor[s] = pc[p].exec /\ pc[p].exec \in Executors
    BY <1>0, <1>p, <2>1
       DEF WayFacts, TurnFacts, Turn, Fits, Knows, HasOpen, HasRun, Backs
  <2>3. \A q \in Steps : stepStatus'[q] = IF q # s THEN stepStatus[q]
           ELSE CASE pc[p].exec = "ci"    -> "waiting_ci"
                  [] pc[p].exec = "human" -> "waiting_human"
                  [] OTHER                -> "running"
    BY <1>p, <1>4 DEF StartMoveStep
  <2> HIDE DEF s, r
  <2>4. Stands(run[r], s, stepStatus'[s], executor[s])
    BY <1>p, <2>2, <2>3 DEF Stands, Open, ActiveStatuses, Executors
  <2>5. \A q \in Steps : stepStatus'[q] \in Busy =>
          \E u \in Runs : Stands(run[u], q, stepStatus'[q], executor[q])
    BY <1>p, <2>1, <2>2, <2>3, <2>4 DEF Backs, Shuts
  <2>6. task.status \in {"pending", "running"} => stepStatus'[task.current] \in Busy \cup {"ready"}
    BY <1>0, <1>p, <2>1, <2>3 DEF Backs, WayFacts, Shifts, Busy
  <2>7. QED
    BY <2>1, <2>5, <2>6 DEF HelpThen, Backs, Shuts, OnIt, Shifts
<1>5. CASE StartMoveTask(p)
  <2>1. /\ pc'[p].at = "dispatch" /\ pc[p].at = "stepped"
        /\ UNCHANGED <<run, stepStatus, executor>> /\ task'.current = s
    BY <1>0, <1>5, TurnGoes DEF StartMoveTask
  <2>2. stepStatus[s] \in Busy
    BY <2>1, WayHolds DEF HasHelp, HasOpen, HasRun
  <2> HIDE DEF s, r
  <2>3. QED
    BY <1>p, <2>1, <2>2 DEF HelpThen, Backs, Shuts, OnIt, Shifts
<1>6. QED
  BY <1>1, <1>2, <1>3, <1>4, <1>5

\* The one step that is worked on, of the run in hand.
LEMMA OneBusy ==
  ASSUME NEW s \in Steps, Along(stepStatus), stepStatus[s] \in Busy
  PROVE  \A q \in Steps : q # s => stepStatus[q] \notin Busy
BY BusyAlong, StepsAssumption DEF Busy, Steps

LEMMA HelpDispatches ==
  ASSUME NEW p \in Processes, HasHelp(p),
         \/ DispatchWait(p) \/ DispatchFail(p) \/ DispatchCreatePr(p)
         \/ DispatchRequestApproval(p) \/ ParkStep(p) \/ DispatchAgent(p)
  PROVE  HelpThen(p)
<1> USE DEF At
<1> DEFINE s == pc[p].step
           r == pc[p].run
<1>0. WayFacts(p) /\ RowsInv
  BY HelpHas
<1>p. /\ pc \in [Processes -> Threads] /\ pc[p] \in Threads /\ s \in Steps
      /\ run \in [Runs -> RunRows] /\ stepStatus \in [Steps -> StepStatuses]
      /\ executor \in [Steps -> Executors]
      /\ Backs(pc[p], stepStatus, run, executor, task, AgentAsked)
      /\ pc[p].at # "prompt" => (AgentAsked => AgentAsked')
  BY HelpHas
<1>r. /\ r \in Runs /\ run[r] \in RunRows /\ run[r].step = s
      /\ OnlyOpen(run, r) /\ Fits(pc[p], run[r]) /\ stepStatus[s] \in Busy
      /\ pc[p].at \in {"dispatch", "requested"}
  BY WayHolds DEF HasHelp, DispatchWait, DispatchFail, DispatchCreatePr, DispatchRequestApproval,
                  ParkStep, DispatchAgent, HasOpen, HasRun
<1>s. /\ Stands(run[r], s, stepStatus[s], executor[s])
      /\ \A q \in Steps : q # s => stepStatus[q] \notin Busy
  <2>1. PICK q \in Runs : Stands(run[q], s, stepStatus[s], executor[s])
    BY <1>p, <1>r DEF Backs, Shuts
  <2>2. q = r
    BY <1>r, <2>1 DEF Stands, OnlyOpen
  <2>3. QED
    BY <1>0, <1>r, <1>p, <2>1, <2>2, OneBusy DEF WayFacts
<1>1. CASE DispatchWait(p)
  <2>1. pc'[p].at = "idle" /\ UNCHANGED <<stepStatus, executor, task, run>>
    BY <1>0, <1>1, TurnFinishes DEF DispatchWait
  <2>2. stepStatus[s] # "running"
    BY <1>1, <1>r, <1>s DEF DispatchWait, Fits, Stands
  <2>3. \A q \in Steps : stepStatus[q] # "running"
    BY <1>s, <2>2 DEF Busy
  <2> HIDE DEF s, r
  <2>4. QED
    BY <1>p, <1>r, <2>1, <2>3 DEF HelpThen, Backs, Shuts, OnIt, Shifts
<1>2. CASE DispatchFail(p)
  BY <1>2, <1>r, HelpEnds DEF DispatchFail, Shifts
<1>3. CASE DispatchCreatePr(p)
  BY <1>3, <1>r, HelpEnds DEF DispatchCreatePr, Shifts
<1>4. CASE DispatchRequestApproval(p)
  <2>1. /\ pc'[p].at = "requested" /\ pc[p].at = "dispatch" /\ PrApproval
        /\ UNCHANGED <<stepStatus, executor, task>>
    BY <1>0, <1>4, TurnGoes DEF DispatchRequestApproval
  <2>2. run' = [run EXCEPT ![r].approval =
                  IF @ \in {"pending", "executing"} THEN @ ELSE "pending"]
    BY <1>4 DEF DispatchRequestApproval, RequestApproval
  <2>3. run'[r].status = run[r].status /\ run'[r].step = run[r].step
        /\ run'[r].executor = run[r].executor /\ run'[r].approval \in {"pending", "executing"}
    BY <1>p, <1>r, <2>2 DEF RunRows
  <2>4. Stands(run'[r], s, stepStatus[s], executor[s])
    BY <1>s, <2>3 DEF Stands, Open
  <2>5. \A q \in Steps : stepStatus[q] \in Busy =>
          \E u \in Runs : Stands(run'[u], q, stepStatus[q], executor[q])
    BY <1>r, <1>s, <2>4
  <2> HIDE DEF s, r
  <2>6. QED
    BY <1>p, <2>1, <2>5 DEF HelpThen, Backs, Shuts, OnIt, Shifts
<1>5. CASE ParkStep(p)
  <2>1. /\ pc'[p].at = "idle" /\ pc[p].at = "requested"
        /\ UNCHANGED <<run, executor, task>>
    BY <1>0, <1>5, TurnFinishes DEF ParkStep
  <2>2. \A q \in Steps : stepStatus'[q] = IF q = s THEN "waiting_human" ELSE stepStatus[q]
    BY <1>5, <1>p DEF ParkStep
  <2>3. Stands(run[r], s, "waiting_human", executor[s])
    <3>1. run[r].executor = "system" /\ PrApproval
      BY <1>p, <1>r, <2>1 DEF Fits, Backs
    <3>2. QED
      BY <1>s, <3>1 DEF Stands
  <2>4. \A q \in Steps : stepStatus'[q] \in Busy =>
          \E u \in Runs : Stands(run[u], q, stepStatus'[q], executor[q])
    BY <1>r, <1>s, <2>2, <2>3
  <2>5. \A q \in Steps : stepStatus'[q] # "running"
    BY <1>s, <2>2 DEF Busy
  <2>6. task.status \in {"pending", "running"} => stepStatus'[task.current] \in Busy \cup {"ready"}
    BY <1>0, <1>p, <2>1, <2>2 DEF Backs, WayFacts, Shifts, Busy
  <2> HIDE DEF s, r
  <2>7. QED
    BY <2>1, <2>4, <2>5, <2>6 DEF HelpThen, Backs, Shuts, OnIt, Shifts
<1>6. CASE DispatchAgent(p)
  <2>1. /\ pc'[p].at = "prompt" /\ pc[p].at = "dispatch"
        /\ UNCHANGED <<stepStatus, executor, task>>
    BY <1>0, <1>6, TurnGoes DEF DispatchAgent
  <2>2. \A q \in Runs : Stays(run[q], run'[q])
    BY <1>p, <1>6 DEF DispatchAgent, RunRows, Stays, Open
  <2>3. QED
    BY <2>1, <2>2, HelpGoes DEF Shifts, Shuts
<1>7. QED
  BY <1>1, <1>2, <1>3, <1>4, <1>5, <1>6

LEMMA HelpPrompts ==
  ASSUME NEW p \in Processes, HasHelp(p), PromptOk(p) \/ Finalize(p) \/ PromptFail(p)
  PROVE  HelpThen(p)
<1> USE DEF At
<1> DEFINE r == pc[p].run
<1>0. WayFacts(p) /\ RowsInv
  BY HelpHas
<1>p. /\ run \in [Runs -> RunRows]
      /\ Backs(pc[p], stepStatus, run, executor, task, AgentAsked)
  BY HelpHas
<1>1. CASE PromptOk(p)
  <2>1. pc[p].at = "prompt" /\ UNCHANGED <<stepStatus, executor, task, run>>
    BY <1>1 DEF PromptOk
  <2>2. run[r].status = "running"
    <3> DEFINE s == run[r].step
    <3>1. /\ OnlyOpen(run, r) /\ stepStatus[s] \in Busy /\ run[r].executor = "agent"
          /\ r \in Runs /\ Executed(run[r]) /\ s \in Steps
      BY <1>0, <2>1 DEF HasHelp, HasWay, Awaited, WayFacts, TurnFacts, Rests, HasRun
    <3> HIDE DEF r, s
    <3>2. PICK q \in Runs : Stands(run[q], s, stepStatus[s], executor[s])
      BY <1>p, <2>1, <3>1 DEF Backs, Shuts
    <3>3. Open(run[r])
      BY <3>1, <3>2 DEF Stands, OnlyOpen
    <3>4. QED
      BY <3>1, <3>3 DEF Open, Executed, ActiveStatuses
  <2>3. Goto(p, "finalize")
    BY <1>1, <2>2 DEF PromptOk
  <2>4. pc'[p].at = "finalize"
    BY <1>0, <2>3, TurnGoes
  <2>5. \A q \in Runs : Stays(run[q], run'[q])
    BY <2>1 DEF Stays
  <2>6. QED
    BY <2>1, <2>4, <2>5, HelpGoes DEF Shifts, Shuts, OnIt
<1>2. CASE Finalize(p)
  BY <1>2, HelpEnds DEF Finalize, Shifts
<1>3. CASE PromptFail(p)
  <2>1. pc[p].then # "resume"
    BY DEF HasHelp
  <2>2. QED
    BY <1>3, <2>1, HelpEnds DEF PromptFail, Shifts
<1>4. QED
  BY <1>1, <1>2, <1>3

LEMMA HelpShifts ==
  ASSUME NEW p \in Processes, NoneBusy(stepStatus'), pc'[p].at \in Shifts \ {"rolling"}
  PROVE  HelpThen(p)
BY DEF HelpThen, Backs, NoneBusy, Busy, Shifts

\* The task has moved, and the caller goes on.
LEMMA HelpReturns ==
  ASSUME NEW p \in Processes, HasHelp(p), Return(p), pc[p].at \in {"moved", "rolling"},
         UNCHANGED <<stepStatus, executor, run>>,
         task'.status \in {"pending", "running"} => stepStatus[task'.current] = "ready"
  PROVE  HelpThen(p)
<1>1. WayFacts(p) /\ RowsInv
  BY HelpHas
<1>2. pc'[p].at \in {"hook", "automerge", "idle"}
  BY <1>1, TurnGoes, TurnFinishes DEF Return
<1>3. Backs(pc[p], stepStatus, run, executor, task, AgentAsked) /\ (AgentAsked => AgentAsked')
  BY HelpHas
<1>4. QED
  BY <1>2, <1>3 DEF HelpThen, Backs, Shuts, OnIt, Shifts

LEMMA HelpAdvances ==
  ASSUME NEW p \in Processes, HasHelp(p),
         \/ AdvanceRead(p) \/ AdvanceSteps(p) \/ AdvanceTask(p) \/ BlockStep(p) \/ BlockTask(p)
  PROVE  HelpThen(p)
<1> USE DEF At
<1> DEFINE s == pc[p].step
<1>0. WayFacts(p) /\ RowsInv
  BY HelpHas
<1>p. /\ pc \in [Processes -> Threads] /\ pc[p] \in Threads /\ s \in Steps
      /\ stepStatus \in [Steps -> StepStatuses] /\ Along(stepStatus) /\ NSteps \in Nat
      /\ Merges(s) => s = NSteps
      /\ Backs(pc[p], stepStatus, run, executor, task, AgentAsked)
      /\ pc[p].at # "prompt" => (AgentAsked => AgentAsked')
  BY <1>0, HelpHas DEF WayFacts
<1>1. CASE AdvanceRead(p)
  <2>1. PICK b : Become(p, [pc[p] EXCEPT !.at = "advanced", !.nextPending = b])
    BY <1>1 DEF AdvanceRead
  <2>2. pc'[p].at = "advanced"
    BY <1>p, <2>1 DEF Become, Threads
  <2>3. pc[p].at = "advance" /\ UNCHANGED <<stepStatus, executor, task>>
    BY <1>1 DEF AdvanceRead
  <2>4. QED
    BY <2>2, <2>3, HelpGoes DEF Shuts, Shifts, OnIt
<1>2. CASE AdvanceSteps(p)
  <2> DEFINE outcome == pc[p].outcome
  <2>1. pc'[p].at = "moved" /\ pc[p].at = "advanced"
    BY <1>0, <1>2, TurnGoes DEF AdvanceSteps
  <2>2. /\ outcome \in {"completed", "failed", "blocked"}
        /\ IF Merges(s) THEN outcome = "completed" /\ stepStatus[s] # "pending"
                        ELSE stepStatus[s] \in Busy
    BY <1>0, <1>p, <2>1 DEF WayFacts, Sits, Threads
  <2>3. \A q \in Steps : \/ stepStatus'[q] \in {"completed", "failed", "blocked", "ready"}
                         \/ q # s /\ stepStatus'[q] = stepStatus[q]
    BY <1>p, <1>2, <2>2 DEF AdvanceSteps
  <2> HIDE DEF s, outcome
  <2>4. \A q \in Steps : q # s => stepStatus[q] \notin Busy
    <3>1. CASE Merges(s)
      BY <1>p, <2>2, <3>1, BusyAlong DEF Busy, Steps
    <3>2. CASE ~Merges(s)
      BY <1>p, <2>2, <3>2, OneBusy
    <3>3. QED
      BY <3>1, <3>2
  <2>5. NoneBusy(stepStatus')
    BY <2>3, <2>4 DEF NoneBusy, Busy
  <2>6. QED
    BY <2>1, <2>5, HelpShifts DEF Shifts
<1>3. CASE AdvanceTask(p)
  <2>1. Return(p) /\ pc[p].at = "moved" /\ UNCHANGED <<stepStatus, executor, run>>
    BY <1>3 DEF AdvanceTask
  <2>2. pc[p].outcome = "completed" /\ s < NSteps => stepStatus[s + 1] = "ready"
    BY <1>0, <2>1 DEF WayFacts, Sits
  <2>3. task'.status \in {"pending", "running"} => stepStatus[task'.current] = "ready"
    BY <1>0, <1>3, <2>2 DEF AdvanceTask, WayFacts
  <2>4. QED
    BY <2>1, <2>3, HelpReturns
<1>4. CASE BlockStep(p)
  <2>1. pc'[p].at = "blocking" /\ pc[p].at = "block"
    BY <1>0, <1>4, TurnGoes DEF BlockStep
  <2>2. stepStatus[s] \in Busy
    BY <1>0, <2>1 DEF WayFacts, Sits
  <2>3. \A q \in Steps : IF q = s THEN stepStatus'[q] \in {"completed", "failed", "blocked"}
                                  ELSE stepStatus'[q] = stepStatus[q]
    BY <1>4, <1>p DEF BlockStep, Threads
  <2> HIDE DEF s
  <2>4. NoneBusy(stepStatus')
    BY <1>p, <2>2, <2>3, OneBusy DEF NoneBusy, Busy
  <2>5. QED
    BY <2>1, <2>4, HelpShifts DEF Shifts
<1>5. CASE BlockTask(p)
  <2>1. /\ pc'[p].at = "idle" /\ pc[p].at = "blocking"
        /\ UNCHANGED <<stepStatus, executor, run>> /\ task'.status = "blocked"
    BY <1>0, <1>5, TurnFinishes DEF BlockTask, WayFacts
  <2>2. QED
    BY <1>p, <2>1 DEF HelpThen, Backs, Shuts, OnIt, Shifts
<1>6. QED
  BY <1>1, <1>2, <1>3, <1>4, <1>5

\* The decision of an approval, and the result of the CI.
LEMMA HelpDecides ==
  ASSUME NEW p \in Processes, HasHelp(p),
         \/ ApproveClaim(p) \/ ApproveExecute(p) \/ ApproveFail(p) \/ RejectCommit(p)
         \/ CiCommit(p)
  PROVE  HelpThen(p)
<1> USE DEF At
<1>0. WayFacts(p) /\ RowsInv
  BY HelpHas
<1>p. pc \in [Processes -> Threads] /\ pc[p] \in Threads /\ run \in [Runs -> RunRows]
  BY HelpHas
<1>1. CASE ApproveClaim(p)
  <2>1. /\ pc'[p].at = "executing" /\ pc[p].at = "approving"
        /\ UNCHANGED <<stepStatus, executor, task>>
    BY <1>0, <1>1, TurnGoes DEF ApproveClaim
  <2>2. \A q \in Runs : Stays(run[q], run'[q])
    BY <1>p, <1>1 DEF ApproveClaim, RunRows, Stays, Open
  <2>3. QED
    BY <2>1, <2>2, HelpGoes DEF Shuts, Shifts, OnIt
<1>2. CASE ApproveExecute(p)
  BY <1>2, HelpEnds DEF ApproveExecute, Shifts
<1>3. CASE ApproveFail(p)
  BY <1>3, HelpEnds DEF ApproveFail, Shifts
<1>4. CASE RejectCommit(p)
  <2>1. /\ Become(p, [pc[p] EXCEPT !.at = "block", !.outcome = "blocked"])
        /\ UNCHANGED <<stepStatus, executor, task>> /\ pc[p].at = "rejecting"
    BY <1>4 DEF RejectCommit
  <2>2. pc'[p].at = "block"
    BY <1>p, <2>1 DEF Become, Threads
  <2>3. QED
    BY <2>1, <2>2, HelpGoes DEF Shuts, Shifts, OnIt
<1>5. CASE CiCommit(p)
  BY <1>5, HelpEnds DEF CiCommit, Shifts
<1>6. QED
  BY <1>1, <1>2, <1>3, <1>4, <1>5

LEMMA HelpRolls ==
  ASSUME NEW p \in Processes, HasHelp(p),
         \/ AutoMergeOk(p) \/ AutoMergeFail(p) \/ RollbackSteps(p) \/ RollbackTask(p)
  PROVE  HelpThen(p)
<1> USE DEF At
<1>0. WayFacts(p) /\ RowsInv
  BY HelpHas
<1>p. /\ pc \in [Processes -> Threads] /\ pc[p] \in Threads
      /\ Backs(pc[p], stepStatus, run, executor, task, AgentAsked)
  BY HelpHas
<1>1. UNCHANGED run => \A q \in Runs : Stays(run[q], run'[q])
  BY DEF Stays
<1>2. CASE AutoMergeOk(p)
  <2>1. /\ pc'[p].at = "idle" /\ pc[p].at = "automerge"
        /\ UNCHANGED <<stepStatus, executor, task, run>>
    BY <1>0, <1>2, TurnFinishes DEF AutoMergeOk
  <2>2. QED
    BY <1>1, <2>1, HelpGoes DEF Shuts, Shifts, OnIt
<1>3. CASE AutoMergeFail(p)
  <2>1. /\ pc[p].at = "automerge" /\ UNCHANGED <<run, stepStatus, task, executor>>
        /\ \E s \in Steps :
             Become(p, [pc[p] EXCEPT !.at = "rollback", !.step = s, !.then = "acp"])
    BY <1>3 DEF AutoMergeFail
  <2>2. pc'[p].at = "rollback"
    BY <1>p, <2>1 DEF Become, Threads
  <2>3. QED
    BY <1>1, <2>1, <2>2, HelpGoes DEF Shuts, Shifts, OnIt
<1>4. CASE RollbackSteps(p)
  <2>1. pc'[p].at = "rolling" /\ Same(pc'[p], pc[p]) /\ pc[p].at = "rollback"
    BY <1>0, <1>4, TurnGoes DEF RollbackSteps
  <2>2. pc[p].step = 1 /\ 1 \in Steps /\ pc'[p].step = 1
    BY <1>0, <2>1 DEF WayFacts, TurnFacts, Turn, Same
  <2>3. \A q \in Steps : stepStatus'[q] = IF q > 1 THEN "pending" ELSE "ready"
    BY <1>4, <2>2 DEF RollbackSteps, Steps
  <2>4. stepStatus'[1] = "ready" /\ \A q \in Steps : stepStatus'[q] \in {"pending", "ready"}
    BY <2>2, <2>3
  <2>5. QED
    BY <2>1, <2>2, <2>4 DEF HelpThen, Backs, Busy, Shifts
<1>5. CASE RollbackTask(p)
  <2>1. /\ Return(p) /\ pc[p].at = "rolling" /\ UNCHANGED <<stepStatus, executor, run>>
        /\ task'.current = pc[p].step
    BY <1>5 DEF RollbackTask
  <2>2. stepStatus[task'.current] = "ready"
    BY <1>p, <2>1 DEF Backs
  <2>3. QED
    BY <2>1, <2>2, HelpReturns
<1>6. QED
  BY <1>2, <1>3, <1>4, <1>5

LEMMA HelpHooks ==
  ASSUME NEW p \in Processes, HasHelp(p), HookNext(p) \/ HookDone(p)
  PROVE  HelpThen(p)
<1> USE DEF At
<1>0. WayFacts(p) /\ RowsInv
  BY HelpHas
<1>p. pc \in [Processes -> Threads] /\ pc[p] \in Threads
  BY HelpHas
<1>1. CASE HookNext(p)
  <2>1. PICK r \in pc[p].todo :
          Become(p, [pc[p] EXCEPT !.at = "advance", !.run = r, !.step = run[r].step,
                                  !.then = "hook", !.outcome = "completed", !.todo = @ \ {r}])
    BY <1>1 DEF HookNext
  <2>2. pc'[p].at = "advance"
    BY <1>p, <2>1 DEF Become, Threads
  <2>3. pc[p].at = "hook" /\ UNCHANGED <<stepStatus, executor, task>>
    BY <1>1 DEF HookNext
  <2>4. QED
    BY <2>2, <2>3, HelpGoes DEF Shuts, Shifts, OnIt
<1>2. CASE HookDone(p)
  <2>1. pc[p].at = "hook" /\ UNCHANGED <<stepStatus, executor, task, run>>
    BY <1>2 DEF HookDone
  <2>2. pc'[p].at \in {"idle", "advanced"}
    <3>1. CASE Finish(p)
      BY <1>0, <3>1, TurnFinishes
    <3>2. CASE ~Finish(p)
      <4>1. Become(p, [pc[p] EXCEPT !.at = "advanced", !.step = task.current])
        BY <1>2, <3>2 DEF HookDone
      <4>2. QED
        BY <1>p, <4>1 DEF Become, Threads
    <3>3. QED
      BY <3>1, <3>2
  <2>3. \A q \in Runs : Stays(run[q], run'[q])
    BY <2>1 DEF Stays
  <2>4. QED
    BY <2>1, <2>2, <2>3, HelpGoes DEF Shuts, Shifts, OnIt
<1>3. QED
  BY <1>1, <1>2

LEMMA LinkStays ==
  ASSUME RowsInv, NEW n, LinkPr(n)
  PROVE  \A r \in Runs : Stays(run[r], run'[r])
<1>1. \A row \in RunRows : [row EXCEPT !.pr = n].step = row.step
  BY DEF RunRows
<1>2. \A r \in Runs : run[r] \in RunRows /\ (run'[r] = run[r] \/ run'[r] = [run[r] EXCEPT !.pr = n])
  BY DEF LinkPr, RowsInv, TypeInv, TypeOK
<1>3. QED
  BY <1>1, <1>2, LinkKeeps DEF Stays

\* A handler that begins.
LEMMA HelpBegins ==
  ASSUME NEW h \in Handlers, HasHelp(h), pc[h].at = "idle", Begin(h)
  PROVE  HelpThen(h)
<1>h. h \in Processes
  BY DEF Processes
<1>0. WayFacts(h) /\ RowsInv
  BY <1>h, HelpHas
<1>p. pc \in [Processes -> Threads] /\ pc[h] \in Threads
  BY <1>h, HelpHas
<1>1. UNCHANGED run => \A q \in Runs : Stays(run[q], run'[q])
  BY DEF Stays
<1>2. Interventions \subseteq {"github", "openpr"}
  BY DEF HasHelp, Helped
<1>3. ASSUME NEW s \in Steps, NEW asked \in Executors \cup {"default"}, StartRoute(h, s, asked)
      PROVE  HelpThen(h)
  <2>1. /\ Become(h, [Idle EXCEPT !.at = "pick", !.step = s, !.asked = asked, !.then = "both"])
        /\ UNCHANGED <<run, stepStatus, executor, task>>
    BY <1>3 DEF StartRoute
  <2>2. pc'[h].at = "pick"
    BY <1>h, <1>p, <2>1 DEF Become, Idle
  <2>3. QED
    BY <1>h, <1>1, <2>1, <2>2, HelpGoes DEF Shuts, Shifts, OnIt
<1>4. ASSUME NEW s \in Steps PROVE ~RollbackRoute(h, s)
  BY <1>2 DEF RollbackRoute, Intervene
<1>5. ASSUME NEW r \in Runs, SubmitApprove(h, r) \/ SubmitMerge(h, r) \/ SubmitChanges(h, r)
      PROVE  HelpThen(h)
  <2>1. CASE SubmitApprove(h, r) \/ SubmitMerge(h, r)
    BY <1>h, <2>1, HelpEnds DEF SubmitApprove, SubmitMerge, Shifts
  <2>2. CASE SubmitChanges(h, r)
    <3>1. /\ Become(h, [pc[h] EXCEPT !.at = "block", !.step = run[r].step,
                                     !.outcome = "completed"])
          /\ UNCHANGED <<stepStatus, executor, task>>
      BY <2>2 DEF SubmitChanges
    <3>2. pc'[h].at = "block"
      BY <1>h, <1>p, <3>1 DEF Become, Threads
    <3>3. QED
      BY <1>h, <3>1, <3>2, HelpGoes DEF Shuts, Shifts, OnIt
  <2>3. QED
    BY <1>5, <2>1, <2>2
<1>6. ASSUME NEW r \in Runs, ApproveRead(h, r) \/ RejectRead(h, r)
      PROVE  HelpThen(h)
  <2>1. PICK place \in {"approving", "rejecting"} :
          /\ Become(h, [pc[h] EXCEPT !.at = place, !.run = r, !.step = run[r].step])
          /\ UNCHANGED <<run, stepStatus, executor, task>>
    BY <1>6 DEF ApproveRead, RejectRead, ApprovalRead
  <2>2. pc'[h].at = place
    BY <1>h, <1>p, <2>1 DEF Become, Threads
  <2>3. QED
    BY <1>h, <1>1, <2>1, <2>2, HelpGoes DEF Shuts, Shifts, OnIt
<1>7. ASSUME NEW r \in Runs PROVE ~Resume(h, r)
  BY <1>2 DEF Resume, Intervene
<1>8. ASSUME NEW r \in Runs, NEW passed \in BOOLEAN, CiHook(h, r, passed)
      PROVE  HelpThen(h)
  <2>1. PICK outcome : /\ Become(h, [pc[h] EXCEPT !.at = "ci", !.run = r, !.outcome = outcome])
                       /\ UNCHANGED <<run, stepStatus, executor, task>>
    BY <1>8 DEF CiHook
  <2>2. pc'[h].at = "ci"
    BY <1>h, <1>p, <2>1 DEF Become, Threads
  <2>3. QED
    BY <1>h, <1>1, <2>1, <2>2, HelpGoes DEF Shuts, Shifts, OnIt
<1>9. CASE SyncHook(h) \/ ReviewHook(h) \/ PrOpenedHook(h) \/ PrMergedHook(h)
  <2>1. \A q \in Runs : Stays(run[q], run'[q])
    BY <1>0, <1>9, LinkStays DEF SyncHook, ReviewHook, PrOpenedHook, PrMergedHook
  <2>2. UNCHANGED <<stepStatus, executor, task>>
    BY <1>9 DEF SyncHook, ReviewHook, PrOpenedHook, PrMergedHook
  <2>3. pc'[h].at \in {"rollback", "blocking", "idle", "hook"}
    <3>1. CASE SyncHook(h)
      <4>1. PICK s \in Steps : Become(h, [pc[h] EXCEPT !.at = "rollback", !.step = s])
        BY <3>1 DEF SyncHook
      <4>2. QED
        BY <1>h, <1>p, <4>1 DEF Become, Threads
    <3>2. CASE ReviewHook(h)
      <4>1. Become(h, [pc[h] EXCEPT !.at = "blocking"])
        BY <3>2 DEF ReviewHook
      <4>2. QED
        BY <1>h, <1>p, <4>1 DEF Become, Threads
    <3>3. CASE PrOpenedHook(h)
      BY <3>3 DEF PrOpenedHook
    <3>4. CASE PrMergedHook(h)
      <4>1. Become(h, [pc[h] EXCEPT !.at = "hook", !.todo = MergeRuns])
        BY <3>4 DEF PrMergedHook
      <4>2. QED
        BY <1>h, <1>p, <4>1 DEF Become, Threads
    <3>5. QED
      BY <1>9, <3>1, <3>2, <3>3, <3>4
  <2>4. QED
    BY <1>h, <2>1, <2>2, <2>3, HelpGoes DEF Shuts, Shifts, OnIt
<1>10. QED
  BY <1>3, <1>4, <1>5, <1>6, <1>7, <1>8, <1>9 DEF Begin

LEMMA HelpPicks ==
  ASSUME HasHelp(AutoQueue), pc[AutoQueue].at = "idle", AutoPick
  PROVE  HelpThen(AutoQueue)
<1>h. AutoQueue \in Processes
  BY DEF Processes
<1>1. pc \in [Processes -> Threads]
  BY <1>h, HelpHas
<1>2. /\ Become(AutoQueue, [Idle EXCEPT !.at = "pick", !.step = task.current,
                                        !.then = Head(queue)])
      /\ UNCHANGED <<run, stepStatus, executor, task>>
  BY DEF AutoPick
<1>3. pc'[AutoQueue].at = "pick"
  BY <1>h, <1>1, <1>2 DEF Become, Idle
<1>4. \A q \in Runs : Stays(run[q], run'[q])
  BY <1>2 DEF Stays
<1>5. QED
  BY <1>h, <1>2, <1>3, <1>4, HelpGoes DEF Shuts, Shifts, OnIt

\* No process but one that resumes a run is there to resume it.
LEMMA ResumesContinue ==
  ASSUME RowsInv, NEW p \in Processes, Continue(p), pc[p].then # "resume"
  PROVE  pc'[p].then # "resume"
<1>1. pc \in [Processes -> Threads] /\ pc[p] \in Threads
  BY DEF RowsInv, TypeInv, TypeOK
<1>2. ASSUME NEW place, Goto(p, place) PROVE pc'[p].then # "resume"
  BY <1>2, TurnGoes DEF Same
<1>3. Finish(p) => pc'[p].then # "resume"
  BY TurnFinishes
<1>4. ASSUME NEW r, NEW row, NEW outcome, NEW then, EndRun(p, r, row, outcome, then)
      PROVE  pc'[p].then = then
  BY <1>1, <1>4 DEF EndRun, Become, Threads
<1>5. Return(p) => pc'[p].then # "resume"
  BY <1>2, <1>3 DEF Return
<1>6. CASE StartRead(p) \/ StartAttempt(p) \/ StartCreateRun(p) \/ StartMoveStep(p)
           \/ StartMoveTask(p)
  <2>1. CASE StartRead(p)
    <3> DEFINE e == IF pc[p].asked = "default" THEN executor[pc[p].step] ELSE pc[p].asked
    <3>1. \/ Become(p, [pc[p] EXCEPT !.at = "start", !.branch = workspace, !.exec = e])
          \/ Finish(p)
      BY <2>1 DEF StartRead
    <3> HIDE DEF e
    <3>2. QED
      BY <1>1, <1>3, <3>1 DEF Become, Threads
  <2>2. CASE StartAttempt(p)
    <3>1. PICK a : Become(p, [pc[p] EXCEPT !.at = "create", !.attempt = a])
      BY <2>2 DEF StartAttempt
    <3>2. QED
      BY <1>1, <3>1 DEF Become, Threads
  <2>3. CASE StartCreateRun(p)
    <3>1. PICK r : Become(p, [pc[p] EXCEPT !.at = "created", !.run = r])
      BY <2>3 DEF StartCreateRun
    <3>2. QED
      BY <1>1, <3>1 DEF Become, Threads
  <2>4. CASE StartMoveStep(p) \/ StartMoveTask(p)
    BY <1>2, <2>4 DEF StartMoveStep, StartMoveTask
  <2>5. QED
    BY <1>6, <2>1, <2>2, <2>3, <2>4
<1>7. CASE DispatchWait(p) \/ DispatchFail(p) \/ DispatchCreatePr(p)
           \/ DispatchRequestApproval(p) \/ ParkStep(p) \/ DispatchAgent(p)
  BY <1>2, <1>3, <1>4, <1>7
     DEF DispatchWait, DispatchFail, DispatchCreatePr, DispatchRequestApproval, ParkStep,
         DispatchAgent
<1>8. CASE PromptOk(p) \/ Finalize(p) \/ PromptFail(p)
  BY <1>2, <1>3, <1>4, <1>8 DEF PromptOk, Finalize, PromptFail
<1>9. CASE AdvanceRead(p) \/ AdvanceSteps(p) \/ AdvanceTask(p) \/ BlockStep(p) \/ BlockTask(p)
  <2>1. CASE AdvanceRead(p)
    <3>1. PICK b : Become(p, [pc[p] EXCEPT !.at = "advanced", !.nextPending = b])
      BY <2>1 DEF AdvanceRead
    <3>2. QED
      BY <1>1, <3>1 DEF Become, Threads
  <2>2. CASE AdvanceSteps(p) \/ AdvanceTask(p) \/ BlockStep(p) \/ BlockTask(p)
    BY <1>2, <1>3, <1>5, <2>2 DEF AdvanceSteps, AdvanceTask, BlockStep, BlockTask
  <2>3. QED
    BY <1>9, <2>1, <2>2
<1>10. CASE ApproveClaim(p) \/ ApproveExecute(p) \/ ApproveFail(p) \/ RejectCommit(p)
            \/ CiCommit(p)
  <2>1. CASE RejectCommit(p)
    <3>1. Become(p, [pc[p] EXCEPT !.at = "block", !.outcome = "blocked"])
      BY <2>1 DEF RejectCommit
    <3>2. QED
      BY <1>1, <3>1 DEF Become, Threads
  <2>2. CASE ApproveClaim(p) \/ ApproveExecute(p) \/ ApproveFail(p) \/ CiCommit(p)
    BY <1>2, <1>4, <2>2 DEF ApproveClaim, ApproveExecute, ApproveFail, CiCommit
  <2>3. QED
    BY <1>10, <2>1, <2>2
<1>11. CASE AutoMergeOk(p) \/ AutoMergeFail(p) \/ RollbackSteps(p) \/ RollbackTask(p)
  <2>1. CASE AutoMergeFail(p)
    <3>1. PICK s \in Steps :
            Become(p, [pc[p] EXCEPT !.at = "rollback", !.step = s, !.then = "acp"])
      BY <2>1 DEF AutoMergeFail
    <3>2. QED
      BY <1>1, <3>1 DEF Become, Threads
  <2>2. CASE AutoMergeOk(p) \/ RollbackSteps(p) \/ RollbackTask(p)
    BY <1>2, <1>3, <1>5, <2>2 DEF AutoMergeOk, RollbackSteps, RollbackTask
  <2>3. QED
    BY <1>11, <2>1, <2>2
<1>12. CASE HookNext(p) \/ HookDone(p)
  <2>1. CASE HookNext(p)
    <3>1. PICK r : Become(p, [pc[p] EXCEPT !.at = "advance", !.run = r, !.step = run[r].step,
                                           !.then = "hook", !.outcome = "completed",
                                           !.todo = @ \ {r}])
      BY <2>1 DEF HookNext
    <3>2. QED
      BY <1>1, <3>1 DEF Become, Threads
  <2>2. CASE HookDone(p)
    <3>1. \/ Become(p, [pc[p] EXCEPT !.at = "advanced", !.step = task.current])
          \/ Finish(p)
      BY <2>2 DEF HookDone
    <3>2. QED
      BY <1>1, <1>3, <3>1 DEF Become, Threads
  <2>3. QED
    BY <1>12, <2>1, <2>2
<1>13. QED
  BY <1>6, <1>7, <1>8, <1>9, <1>10, <1>11, <1>12 DEF Continue

LEMMA ResumesBegin ==
  ASSUME RowsInv, NEW h \in Handlers, Begin(h), pc[h].then # "resume",
         \A r \in Runs : ~Resume(h, r)
  PROVE  pc'[h].then # "resume"
<1>1. pc \in [Processes -> Threads] /\ pc[h] \in Threads /\ h \in Processes
  BY DEF RowsInv, TypeInv, TypeOK, Processes
<1>2. ASSUME NEW s \in Steps, NEW asked \in Executors \cup {"default"}, StartRoute(h, s, asked)
      PROVE  pc'[h].then # "resume"
  <2>1. Become(h, [Idle EXCEPT !.at = "pick", !.step = s, !.asked = asked, !.then = "both"])
    BY <1>2 DEF StartRoute
  <2>2. QED
    BY <1>1, <2>1 DEF Become, Idle
<1>3. ASSUME NEW s \in Steps, RollbackRoute(h, s) PROVE pc'[h].then # "resume"
  <2>1. Become(h, [pc[h] EXCEPT !.at = "rollback", !.step = s, !.then = "both"])
    BY <1>3 DEF RollbackRoute
  <2>2. QED
    BY <1>1, <2>1 DEF Become, Threads
<1>4. ASSUME NEW r \in Runs, SubmitApprove(h, r) \/ SubmitMerge(h, r) \/ SubmitChanges(h, r)
      PROVE  pc'[h].then # "resume"
  <2>1. CASE SubmitApprove(h, r) \/ SubmitMerge(h, r)
    <3>1. PICK row : EndRun(h, r, row, "completed", "acp")
      BY <2>1 DEF SubmitApprove, SubmitMerge
    <3>2. QED
      BY <1>1, <3>1 DEF EndRun, Become, Threads
  <2>2. CASE SubmitChanges(h, r)
    <3>1. Become(h, [pc[h] EXCEPT !.at = "block", !.step = run[r].step,
                                  !.outcome = "completed"])
      BY <2>2 DEF SubmitChanges
    <3>2. QED
      BY <1>1, <3>1 DEF Become, Threads
  <2>3. QED
    BY <1>4, <2>1, <2>2
<1>5. ASSUME NEW r \in Runs, ApproveRead(h, r) \/ RejectRead(h, r)
      PROVE  pc'[h].then # "resume"
  <2>1. PICK place : Become(h, [pc[h] EXCEPT !.at = place, !.run = r, !.step = run[r].step])
    BY <1>5 DEF ApproveRead, RejectRead, ApprovalRead
  <2>2. QED
    BY <1>1, <2>1 DEF Become, Threads
<1>6. ASSUME NEW r \in Runs, NEW passed \in BOOLEAN, CiHook(h, r, passed)
      PROVE  pc'[h].then # "resume"
  <2>1. PICK outcome : Become(h, [pc[h] EXCEPT !.at = "ci", !.run = r, !.outcome = outcome])
    BY <1>6 DEF CiHook
  <2>2. QED
    BY <1>1, <2>1 DEF Become, Threads
<1>7. CASE SyncHook(h)
  <2>1. PICK s \in Steps : Become(h, [pc[h] EXCEPT !.at = "rollback", !.step = s])
    BY <1>7 DEF SyncHook
  <2>2. QED
    BY <1>1, <2>1 DEF Become, Threads
<1>8. CASE ReviewHook(h)
  <2>1. Become(h, [pc[h] EXCEPT !.at = "blocking"])
    BY <1>8 DEF ReviewHook
  <2>2. QED
    BY <1>1, <2>1 DEF Become, Threads
<1>9. CASE PrMergedHook(h)
  <2>1. Become(h, [pc[h] EXCEPT !.at = "hook", !.todo = MergeRuns])
    BY <1>9 DEF PrMergedHook
  <2>2. QED
    BY <1>1, <2>1 DEF Become, Threads
<1>10. CASE PrOpenedHook(h)
  BY <1>10 DEF PrOpenedHook
<1>11. QED
  BY <1>2, <1>3, <1>4, <1>5, <1>6, <1>7, <1>8, <1>9, <1>10 DEF Begin

\* The process that moves has what the others at rest rely on.
LEMMA HelpMoves ==
  ASSUME HelpInv, NEW p \in Processes, Alone(p), HelpThen(p), pc'[p].then # "resume",
         \A q \in Processes : q # p => pc'[q] = pc[q]
  PROVE  HelpInv'
<1>1. ASSUME NEW q \in Processes, Alone(q)'
      PROVE  Backs(pc'[q], stepStatus', run', executor', task', AgentAsked')
  <2>1. CASE q = p
    BY <2>1 DEF HelpThen
  <2>2. CASE q # p
    <3>1. pc'[p].at \in Resting /\ pc'[q].at \in Resting
      BY <1>1, <2>2 DEF Alone
    <3>2. QED
      BY <3>1, BacksPasses DEF HelpThen
  <2>3. QED
    BY <2>1, <2>2
<1>2. \A q \in Processes : pc'[q].then # "resume"
  BY DEF HelpInv
<1>3. QED
  BY <1>1, <1>2 DEF HelpInv

LEMMA HelpStep ==
  ASSUME Helped, SoloInv, DoneInv, Onward, PipeInv, HelpInv, [Next]_vars
  PROVE  HelpInv'
<1>1. /\ Straight /\ ~Overlap /\ RowsInv /\ Interventions \subseteq {"github", "openpr"}
      /\ \A p \in Processes : pc[p].at \notin Resting => Alone(p)
  BY DEF Helped, Straight, Undisturbed, SoloInv
<1>2. AutoQueue \in Processes /\ \A h \in Handlers : h \in Processes
  BY DEF Processes
<1>3. ASSUME NEW p \in Processes, Alone(p), \A q \in Processes : q # p => pc'[q] = pc[q]
      PROVE  HasHelp(p)
  BY <1>1, <1>3, WayIs DEF HasHelp, HelpInv
<1>4. ASSUME NEW p \in Processes, Continue(p) PROVE HelpInv'
  <2>1. Alone(p) /\ \A q \in Processes : q # p => pc'[q] = pc[q]
    BY <1>1, <1>4, MovesAlone, OthersWait
  <2>2. HasHelp(p)
    BY <1>3, <2>1
  <2>3. HelpThen(p)
    BY <1>4, <2>2, HelpStarts, HelpDispatches, HelpPrompts, HelpAdvances, HelpDecides, HelpRolls,
       HelpHooks
       DEF Continue
  <2>4. pc'[p].then # "resume"
    BY <1>1, <1>4, ResumesContinue DEF HelpInv
  <2>5. QED
    BY <2>1, <2>3, <2>4, HelpMoves
<1>5. ASSUME NEW h \in Handlers, Begin(h) PROVE HelpInv'
  <2>1. /\ Alone(h) /\ pc[h].at = "idle"
        /\ \A q \in Processes : q # h => pc'[q] = pc[q]
    BY <1>1, <1>5, MovesAlone, Begins DEF Free, At
  <2>2. HasHelp(h)
    BY <1>2, <1>3, <2>1
  <2>3. HelpThen(h)
    BY <1>5, <2>1, <2>2, HelpBegins
  <2>4. \A r \in Runs : ~Resume(h, r)
    BY <1>1 DEF Resume, Intervene
  <2>5. pc'[h].then # "resume"
    BY <1>1, <1>2, <1>5, <2>4, ResumesBegin DEF HelpInv
  <2>6. QED
    BY <1>2, <2>1, <2>3, <2>5, HelpMoves
<1>6. CASE AutoPick
  <2>1. Alone(AutoQueue) /\ pc[AutoQueue].at = "idle"
    BY <1>1, <1>6, MovesAlone DEF AutoPick, Free, At
  <2>2. \A q \in Processes : q # AutoQueue => pc'[q] = pc[q]
    BY <1>1, <1>6 DEF AutoPick, Become, RowsInv, TypeInv, TypeOK
  <2>3. HelpThen(AutoQueue)
    BY <1>2, <1>3, <1>6, <2>1, <2>2, HelpPicks
  <2>4. pc'[AutoQueue].then # "resume"
    <3>1. Head(queue) \in Deps
      BY <1>1, <1>6 DEF AutoPick, RowsInv, TypeInv, TypeOK
    <3>2. \A d \in Deps : d # "resume"
      BY DEF Deps
    <3>3. pc'[AutoQueue] = [Idle EXCEPT !.at = "pick", !.step = task.current,
                                        !.then = Head(queue)]
      BY <1>1, <1>2, <1>6 DEF AutoPick, Become, RowsInv, TypeInv, TypeOK
    <3>4. QED
      BY <3>1, <3>2, <3>3 DEF Idle
  <2>5. QED
    BY <1>2, <2>1, <2>2, <2>3, <2>4, HelpMoves
<1>7. CASE AutoDrop \/ OpenPrByHand \/ MergeByHand \/ UNCHANGED vars
  <2>1. UNCHANGED <<pc, stepStatus, run, executor, task>>
    BY <1>7 DEF AutoDrop, OpenPrByHand, MergeByHand, vars
  <2>2. QED
    BY <2>1 DEF HelpInv, AgentAsked, Alone, At
<1>8. ~Crash /\ \A r \in Runs : ~Cancel(r) /\ ~Complete(r) /\ ~CreatePrRoute(r)
  BY <1>1 DEF Crash, Cancel, Complete, CreatePrRoute, Intervene
<1>9. QED
  BY <1>4, <1>5, <1>6, <1>7, <1>8 DEF Next, Outside

LEMMA HelpInit == Init => HelpInv
<1> SUFFICES ASSUME Init PROVE HelpInv
  OBVIOUS
<1>1. /\ \A p \in Processes : pc[p] = Idle
      /\ \A s \in Steps : stepStatus[s] = IF s = 1 THEN "ready" ELSE "pending"
      /\ task.status = "pending" /\ task.current = 1 /\ 1 \in Steps
  BY StepsAssumption DEF Init, Steps
<1>2. Idle.at = "idle" /\ Idle.then = "none"
  BY DEF Idle
<1>3. Backs(Idle, stepStatus, run, executor, task, AgentAsked)
  BY <1>1, <1>2 DEF Backs, Busy
<1>4. QED
  BY <1>1, <1>2, <1>3 DEF HelpInv

\* When nothing is being handled, every step that is worked on waits for somebody.
LEMMA HelpsIdle ==
  ASSUME RowsInv, HelpInv
  PROVE  NextActionHelps
<1> DEFINE s == task.current
<1> SUFFICES ASSUME AllIdle, task.status \notin {"completed", "failed"}
             PROVE  /\ StepAction = "wait_ci" =>
                         \E r \in Runs : run[r].step = s /\ run[r].status = "waiting_ci"
                    /\ StepAction = "submit_human_step" =>
                         \E r \in Runs : run[r].step = s /\ run[r].status = "running"
                    /\ StepAction = "check_approvals" => PrApproval
                    /\ StepAction \notin {"none", "wait_running", "pm_dispatch"}
  BY DEF NextActionHelps, NextAction, IssueAction
<1>1. /\ s \in Steps /\ task.status \in {"pending", "running", "blocked"}
      /\ stepStatus \in [Steps -> StepStatuses]
  BY DEF RowsInv, TypeInv, TypeOK, TaskStatuses
<1>2. /\ \A q \in Steps : stepStatus[q] \in Busy =>
           \E r \in Runs : Stands(run[r], q, stepStatus[q], executor[q])
      /\ \A q \in Steps : stepStatus[q] # "running"
      /\ task.status \in {"pending", "running"} => stepStatus[s] \in Busy \cup {"ready"}
  <2>1. AutoQueue \in Processes /\ pc[AutoQueue].at = "idle" /\ Alone(AutoQueue) /\ ~AgentAsked
    BY DEF Processes, AllIdle, At, Alone, Resting, AgentAsked
  <2>2. QED
    BY <2>1 DEF HelpInv, Backs, Shuts, OnIt, Shifts
<1>3. CASE task.status = "blocked"
  BY <1>3 DEF StepAction
<1>4. CASE task.status # "blocked"
  <2>1. stepStatus[s] \in {"waiting_ci", "waiting_human", "ready"}
    BY <1>1, <1>2, <1>4 DEF Busy
  <2>2. CASE stepStatus[s] = "ready"
    BY <1>4, <2>2 DEF StepAction
  <2>3. CASE stepStatus[s] = "waiting_ci"
    <3>1. PICK r \in Runs : Stands(run[r], s, "waiting_ci", executor[s])
      BY <1>1, <1>2, <2>3 DEF Busy
    <3>2. StepAction = "wait_ci"
      BY <1>4, <2>3 DEF StepAction
    <3>3. QED
      BY <3>1, <3>2 DEF Stands
  <2>4. CASE stepStatus[s] = "waiting_human"
    <3>1. PICK r \in Runs : Stands(run[r], s, "waiting_human", executor[s])
      BY <1>1, <1>2, <2>4 DEF Busy
    <3>2. StepAction = IF executor[s] = "human" THEN "submit_human_step" ELSE "check_approvals"
      BY <1>4, <2>4 DEF StepAction
    <3>3. QED
      BY <3>1, <3>2 DEF Stands
  <2>5. QED
    BY <2>1, <2>2, <2>3, <2>4
<1>5. QED
  BY <1>1, <1>3, <1>4

\* Where handlers come one at a time and nobody but the one who executes a run ends
\* it, what a user is told to do next is what the task waits for: a step that can be
\* started, a run a person can submit or the CI will end, an approval the policy asks
\* for, and never work in progress that nobody does.
THEOREM NextActionHelpsHolds ==
  ASSUME Helped
  PROVE  Spec => []NextActionHelps
<1> DEFINE All == SoloInv /\ DoneInv /\ PipeInv /\ HelpInv
<1>1. Init /\ RowsInv => All
  BY SoloInit, DoneInit, PipeInit, HelpInit DEF Helped, Straight
<1>2. All /\ RowsInv' /\ [Next]_vars => All'
  <2> SUFFICES ASSUME All, RowsInv', [Next]_vars PROVE All'
    OBVIOUS
  <2>1. Straight /\ Onward
    BY EndsStep, OnwardNext DEF Helped, Straight, PeopleMerge, NoReopening, DoneInv
  <2>2. SoloInv' /\ DoneInv'
    BY <2>1, SoloStep, DoneStep DEF Straight
  <2>3. PipeInv' /\ HelpInv'
    BY <2>1, PipeStep, HelpStep
  <2>4. QED
    BY <2>2, <2>3
<1>3. All => NextActionHelps
  BY HelpsIdle DEF SoloInv
<1>4. QED
  BY <1>1, <1>2, <1>3, RowsCorrect, PTL DEF Spec
===============================================================================
