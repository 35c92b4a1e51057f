----------------------------- MODULE Issue_proofs -----------------------------
(***************************************************************************)
(* Proofs about IssueFlow, for any handlers, scenes and agent capacity:    *)
(* what its handlers may rely on between their reads and their writes; and *)
(* about GitHubSync, for any items, handlers, pages and scenes: that the   *)
(* cursor of the polling loop passes over no change.                       *)
(***************************************************************************)
EXTENDS IssueFlow, GitHubSync, FiniteSetTheorems, SequenceTheorems, TLAPS

\* The places of a handler that needs no run, and of one that may hold an approval.
Runless == {"idle", "check", "create", "cancelled", "completed"}
Holding == {"claim", "pr", "push", "record", "merge", "call", "write", "done", "settle", "reject"}

AnyMerged == \E n \in DOMAIN pr : pr[n].state = "merged"
Decided(a) == approval[a].status # "pending"

\* What is behind approval a when a pull request of run r is opened.
Controls(a, r) ==
  /\ a \in DOMAIN approval
  /\ approval[a].run = r /\ approval[a].action = "create_pr" /\ Decided(a)

\* What a handler relies on: the rows it holds are there, what it has seen merged is
\* merged, and where the policy asks for approvals it opens pull requests with one.
Relies(t) ==
  /\ t.at \notin Runless => t.run \in Runs
  /\ t.approval # 0 => t.at \in Holding /\ t.approval \in DOMAIN approval
  /\ t.at \in {"claim", "reject", "settle"} => t.approval # 0
  /\ t.at = "claim" => approval[t.approval].run = t.run
  /\ t.at \in {"record", "call"} => t.pr \in DOMAIN pr
  /\ t.at = "done" \/ (t.at = "write" /\ t.seen = "merged") => AnyMerged
  /\ scene.createApproval /\ t.at \in {"pr", "push"} => Controls(t.approval, t.run)

\* What the PM is about to ask has not been asked by it before and is pending.
PmAsks ==
  At(Pm, "ask") =>
    ~ \E a \in DOMAIN approval :
        /\ approval[a].status = "pending" /\ approval[a].by = "pm_auto"
        /\ approval[a].run = pc[Pm].run /\ approval[a].action = pc[Pm].action

FlowInv ==
  /\ TypeOK
  /\ \A p \in Process : Relies(pc[p])
  /\ PmAsks
  /\ DoneMeansMerged /\ PmAsksOnce /\ ControlledCreate /\ ClaimHeld

\* Without overlap one handler at a time has to do with approvals, and finds the one it
\* holds as it left it.
Alone ==
  ~scene.overlap =>
    /\ \A p, q \in Process : pc[p].at \in Holding /\ pc[q].at \in Holding => p = q
    /\ \A p \in Process : pc[p].approval # 0 =>
         approval[pc[p].approval].status =
           IF pc[p].at \in {"claim", "reject"} THEN "pending" ELSE "executing"

-----------------------------------------------------------------------------
(* Rows are added or changed in place.                                       *)

LEMMA Appended ==
  ASSUME NEW S, NEW s \in Seq(S), NEW x
  PROVE  /\ DOMAIN Append(s, x) = DOMAIN s \cup {Len(s) + 1}
         /\ Len(Append(s, x)) = Len(s) + 1 /\ Len(s) \in Nat
         /\ Append(s, x)[Len(s) + 1] = x
         /\ \A i \in DOMAIN s : Append(s, x)[i] = s[i] /\ i # Len(s) + 1
         /\ DOMAIN s = 1 .. Len(s)
OBVIOUS

LEMMA Typed ==
  ASSUME NEW S, NEW T, NEW s \in Seq(S), \A i \in DOMAIN s : s[i] \in T
  PROVE  s \in Seq(T)
OBVIOUS

LEMMA AppendTyped ==
  ASSUME NEW T, NEW s \in Seq(T), NEW x \in T
  PROVE  Append(s, x) \in Seq(T)
OBVIOUS

LEMMA Replaced ==
  ASSUME NEW T, NEW s \in Seq(T), NEW i \in DOMAIN s, NEW x \in T
  PROVE  /\ [s EXCEPT ![i] = x] \in Seq(T)
         /\ DOMAIN [s EXCEPT ![i] = x] = DOMAIN s
         /\ Len([s EXCEPT ![i] = x]) = Len(s)
         /\ \A j \in DOMAIN s : [s EXCEPT ![i] = x][j] = IF j = i THEN x ELSE s[j]
OBVIOUS

LEMMA Taken ==
  ASSUME NEW T, NEW s \in Seq(T), s # <<>>
  PROVE  Head(s) \in T /\ Tail(s) \in Seq(T)
OBVIOUS

RunRows(n) == [status : RunStatus, branch : BOOLEAN, pr : 0 .. n, prState : PrState,
               ci : {"none", "passed", "failed"}]
ApprovalRows(rs) == [run : rs, action : Action, status : ApprovalStatus, by : {"user", "pm_auto"}]
PrRows(rs, n) == [run : rs, state : PrState, by : 0 .. n]

RunChange ==
  \/ run' = run
  \/ \E entry \in RunRows(0) : run' = Append(run, entry)
  \/ \E r \in Runs, entry \in RunRows(Len(pr)) : run' = [run EXCEPT ![r] = entry]

ApprovalChange ==
  \/ approval' = approval
  \/ \E entry \in ApprovalRows(Runs) : approval' = Append(approval, entry)
  \/ \E a \in DOMAIN approval, entry \in ApprovalRows(Runs) :
       /\ approval' = [approval EXCEPT ![a] = entry]
       /\ entry.run = approval[a].run /\ entry.action = approval[a].action /\ entry.by = approval[a].by
       /\ entry.status # "pending"

PrChange ==
  \/ pr' = pr
  \/ \E entry \in PrRows(Runs, Len(approval)) : pr' = Append(pr, entry)
  \/ \E n \in DOMAIN pr, entry \in PrRows(Runs, Len(approval)) :
       /\ pr' = [pr EXCEPT ![n] = entry]
       /\ entry.run = pr[n].run /\ entry.by = pr[n].by
       /\ pr[n].state # "merged"

RowsChange == RunChange /\ ApprovalChange /\ PrChange

RowsOK ==
  /\ run \in Seq(RunRows(Len(pr)))
  /\ approval \in Seq(ApprovalRows(Runs))
  /\ pr \in Seq(PrRows(Runs, Len(approval)))

\* No row goes, and what others rely on stays.
Onward ==
  /\ Runs \subseteq DOMAIN run'
  /\ \A a \in DOMAIN approval :
       /\ a \in DOMAIN approval' /\ approval'[a].run = approval[a].run
       /\ approval'[a].action = approval[a].action /\ approval'[a].by = approval[a].by
       /\ approval[a].status # "pending" => approval'[a].status # "pending"
  /\ \A n \in DOMAIN pr :
       /\ n \in DOMAIN pr' /\ pr'[n].run = pr[n].run /\ pr'[n].by = pr[n].by
       /\ pr[n].state = "merged" => pr'[n].state = "merged"

LEMMA RunsGrow ==
  ASSUME RowsOK, RunChange
  PROVE  /\ run' \in Seq(RunRows(Len(pr)))
         /\ Runs \subseteq DOMAIN run'
<1>0. Len(pr) \in Nat
  BY DEF RowsOK
<1>1. CASE run' = run
  BY <1>1 DEF RowsOK, Runs
<1>2. ASSUME NEW entry \in RunRows(0), run' = Append(run, entry)
      PROVE  run' \in Seq(RunRows(Len(pr))) /\ Runs \subseteq DOMAIN run'
  <2>1. entry \in RunRows(Len(pr))
    BY <1>0 DEF RunRows
  <2>2. QED
    BY <1>2, <2>1, Appended, AppendTyped DEF RowsOK, Runs
<1>3. ASSUME NEW r \in Runs, NEW entry \in RunRows(Len(pr)), run' = [run EXCEPT ![r] = entry]
      PROVE  run' \in Seq(RunRows(Len(pr))) /\ Runs \subseteq DOMAIN run'
  BY <1>3, Replaced DEF RowsOK, Runs
<1>4. QED
  BY <1>1, <1>2, <1>3 DEF RunChange

LEMMA ApprovalsGrow ==
  ASSUME RowsOK, ApprovalChange
  PROVE  /\ approval' \in Seq(ApprovalRows(Runs))
         /\ Len(approval') >= Len(approval) /\ Len(approval') \in Nat
         /\ \A a \in DOMAIN approval :
              /\ a \in DOMAIN approval' /\ approval'[a].run = approval[a].run
              /\ approval'[a].action = approval[a].action /\ approval'[a].by = approval[a].by
              /\ approval[a].status # "pending" => approval'[a].status # "pending"
<1>0. Len(approval) \in Nat /\ approval \in Seq(ApprovalRows(Runs))
  BY DEF RowsOK
<1>1. CASE approval' = approval
  BY <1>0, <1>1
<1>2. ASSUME NEW entry \in ApprovalRows(Runs), approval' = Append(approval, entry)
      PROVE  approval' \in Seq(ApprovalRows(Runs)) /\ Len(approval') = Len(approval) + 1
             /\ \A a \in DOMAIN approval : a \in DOMAIN approval' /\ approval'[a] = approval[a]
  BY <1>0, <1>2, Appended, AppendTyped
<1>3. ASSUME NEW a \in DOMAIN approval, NEW entry \in ApprovalRows(Runs),
             approval' = [approval EXCEPT ![a] = entry]
      PROVE  approval' \in Seq(ApprovalRows(Runs)) /\ Len(approval') = Len(approval)
             /\ \A b \in DOMAIN approval :
                  b \in DOMAIN approval' /\ approval'[b] = IF b = a THEN entry ELSE approval[b]
  BY <1>0, <1>3, Replaced
<1>4. QED
  BY <1>0, <1>1, <1>2, <1>3 DEF ApprovalChange

LEMMA PrsGrow ==
  ASSUME RowsOK, PrChange
  PROVE  /\ pr' \in Seq(PrRows(Runs, Len(approval)))
         /\ Len(pr') >= Len(pr) /\ Len(pr') \in Nat
         /\ \A n \in DOMAIN pr :
              /\ n \in DOMAIN pr' /\ pr'[n].run = pr[n].run /\ pr'[n].by = pr[n].by
              /\ pr[n].state = "merged" => pr'[n].state = "merged"
<1>0. Len(pr) \in Nat /\ pr \in Seq(PrRows(Runs, Len(approval)))
  BY DEF RowsOK
<1>1. CASE pr' = pr
  BY <1>0, <1>1
<1>2. ASSUME NEW entry \in PrRows(Runs, Len(approval)), pr' = Append(pr, entry)
      PROVE  pr' \in Seq(PrRows(Runs, Len(approval))) /\ Len(pr') = Len(pr) + 1
             /\ \A n \in DOMAIN pr : n \in DOMAIN pr' /\ pr'[n] = pr[n]
  BY <1>0, <1>2, Appended, AppendTyped
<1>3. ASSUME NEW n \in DOMAIN pr, NEW entry \in PrRows(Runs, Len(approval)),
             pr' = [pr EXCEPT ![n] = entry]
      PROVE  pr' \in Seq(PrRows(Runs, Len(approval))) /\ Len(pr') = Len(pr)
             /\ \A m \in DOMAIN pr : m \in DOMAIN pr' /\ pr'[m] = IF m = n THEN entry ELSE pr[m]
  BY <1>0, <1>3, Replaced
<1>4. QED
  BY <1>0, <1>1, <1>2, <1>3 DEF PrChange

LEMMA RowsGrow ==
  ASSUME RowsOK, RowsChange
  PROVE  RowsOK' /\ Onward
<1>1. run' \in Seq(RunRows(Len(pr))) /\ Runs \subseteq DOMAIN run'
  BY RunsGrow DEF RowsChange
<1>2. /\ approval' \in Seq(ApprovalRows(Runs))
      /\ Len(approval') >= Len(approval) /\ Len(approval') \in Nat
  BY ApprovalsGrow DEF RowsChange
<1>3. /\ pr' \in Seq(PrRows(Runs, Len(approval)))
      /\ Len(pr') >= Len(pr) /\ Len(pr') \in Nat
  BY PrsGrow DEF RowsChange
<1>4. run' \in Seq(RunRows(Len(pr')))
  <2>1. RunRows(Len(pr)) \subseteq RunRows(Len(pr'))
    BY <1>3 DEF RunRows, RowsOK
  <2>2. QED
    BY <1>1, <2>1, Typed
<1>5. approval' \in Seq(ApprovalRows(DOMAIN run'))
  <2>1. ApprovalRows(Runs) \subseteq ApprovalRows(DOMAIN run')
    BY <1>1 DEF ApprovalRows
  <2>2. QED
    BY <1>2, <2>1, Typed
<1>6. pr' \in Seq(PrRows(DOMAIN run', Len(approval')))
  <2>1. PrRows(Runs, Len(approval)) \subseteq PrRows(DOMAIN run', Len(approval'))
    BY <1>1, <1>2 DEF PrRows, RowsOK
  <2>2. QED
    BY <1>3, <2>1, Typed
<1>7. QED
  BY <1>1, <1>4, <1>5, <1>6, ApprovalsGrow, PrsGrow DEF RowsOK, Onward, Runs, RowsChange
-----------------------------------------------------------------------------
(* One step of one process, and what it leaves to the others.                *)

ControlsThen(a, r) ==
  /\ a \in DOMAIN approval'
  /\ approval'[a].run = r /\ approval'[a].action = "create_pr" /\ approval'[a].status # "pending"

\* What a handler relies on, of the state after a step.
ReliesThen(t) ==
  /\ t.at \notin Runless => t.run \in DOMAIN run'
  /\ t.approval # 0 => t.at \in Holding /\ t.approval \in DOMAIN approval'
  /\ t.at \in {"claim", "reject", "settle"} => t.approval # 0
  /\ t.at = "claim" => approval'[t.approval].run = t.run
  /\ t.at \in {"record", "call"} => t.pr \in DOMAIN pr'
  /\ t.at = "done" \/ (t.at = "write" /\ t.seen = "merged") =>
       \E n \in DOMAIN pr' : pr'[n].state = "merged"
  /\ scene.createApproval /\ t.at \in {"pr", "push"} => ControlsThen(t.approval, t.run)

\* An issue becomes done after a merge.
IssueThen == issue' = "done" => issue = "done" \/ AnyMerged

\* A pull request that is opened has the approval it takes.
PrsThen ==
  scene.createApproval =>
    \A n \in DOMAIN pr' :
      n \in DOMAIN pr \/ (pr'[n].by # 0 /\ ControlsThen(pr'[n].by, pr'[n].run))

\* An approval that is being executed is in the hands of process p, or of another.
HoldsThen(p, t) ==
  \A a \in DOMAIN approval' : approval'[a].status = "executing" =>
    \/ t.approval = a
    \/ a \in DOMAIN approval /\ approval[a].status = "executing" /\ pc[p].approval # a

PmPending(a) == approval[a].status = "pending" /\ approval[a].by = "pm_auto"

\* What the PM has asked was asked before, or is what it was about to ask ...
AskedThen(p) ==
  \A a \in DOMAIN approval' : approval'[a].status = "pending" /\ approval'[a].by = "pm_auto" =>
    \/ a \in DOMAIN approval /\ PmPending(a)
    \/ /\ p = Pm /\ pc[Pm].at = "ask"
       /\ approval'[a].run = pc[Pm].run /\ approval'[a].action = pc[Pm].action
       /\ a = Len(approval) + 1

Unasked(t) ==
  \A a \in DOMAIN approval :
    PmPending(a) => ~(approval[a].run = t.run /\ approval[a].action = t.action)

\* ... and it is about to ask what is not pending yet.
AsksThen(p, t) == p = Pm /\ t.at = "ask" => approval' = approval /\ Unasked(t)

SafeThen ==
  /\ RowsOK' /\ Runs \subseteq DOMAIN run'
  /\ pc' \in [Process -> Row]
  /\ \A q \in Process : ReliesThen(pc'[q])
  /\ PmAsks' /\ DoneMeansMerged' /\ PmAsksOnce' /\ ControlledCreate' /\ ClaimHeld'

LEMMA Known ==
  ASSUME FlowInv, NEW q \in Process
  PROVE  RowsOK /\ pc[q] \in Row /\ Relies(pc[q]) /\ pc \in [Process -> Row]
BY DEF FlowInv, TypeOK, RowsOK, RunRows, ApprovalRows, PrRows, Runs

LEMMA ReliesStays ==
  ASSUME Onward
  PROVE  \A t : Relies(t) => ReliesThen(t)
BY DEF Onward, Relies, ReliesThen, Controls, ControlsThen, Decided, AnyMerged

LEMMA FlowMoves ==
  ASSUME FlowInv, UNCHANGED scene, RowsChange, NEW p \in Process, NEW t \in Row, Goes(p, t),
         ReliesThen(t), IssueThen, PrsThen, HoldsThen(p, t), AskedThen(p), AsksThen(p, t)
  PROVE  SafeThen
<1>0. RowsOK /\ pc \in [Process -> Row] /\ Pm \in Process
  BY Known DEF Process
<1>1. RowsOK' /\ Onward
  BY <1>0, RowsGrow
<1>2. pc' \in [Process -> Row] /\ \A q \in Process : pc'[q] = IF q = p THEN t ELSE pc[q]
  BY <1>0 DEF Goes
<1>3. \A q \in Process : ReliesThen(pc'[q])
  BY <1>1, <1>2, Known, ReliesStays
<1>4. PmAsks'
  <2> SUFFICES ASSUME pc'[Pm].at = "ask", NEW a \in DOMAIN approval',
                      approval'[a].status = "pending", approval'[a].by = "pm_auto",
                      approval'[a].run = pc'[Pm].run, approval'[a].action = pc'[Pm].action
               PROVE  FALSE
    BY DEF PmAsks, At
  <2>1. CASE p = Pm
    BY <1>0, <1>2, <2>1 DEF AsksThen, Unasked, PmPending
  <2>2. CASE p # Pm
    <3>1. a \in DOMAIN approval /\ PmPending(a) /\ pc'[Pm] = pc[Pm]
      BY <1>0, <1>2, <2>2 DEF AskedThen
    <3>2. QED
      BY <1>1, <3>1 DEF FlowInv, PmAsks, At, PmPending, Onward
  <2>3. QED
    BY <2>1, <2>2
<1>5. DoneMeansMerged'
  BY <1>1 DEF FlowInv, DoneMeansMerged, IssueThen, AnyMerged, Onward
<1>6. PmAsksOnce'
  <2> SUFFICES ASSUME NEW a \in DOMAIN approval', NEW b \in DOMAIN approval',
                      approval'[a].status = "pending", approval'[b].status = "pending",
                      approval'[a].by = "pm_auto", approval'[b].by = "pm_auto",
                      approval'[a].run = approval'[b].run,
                      approval'[a].action = approval'[b].action
               PROVE  a = b
    BY DEF PmAsksOnce
  <2>1. \A c \in DOMAIN approval : PmPending(c) /\ pc[Pm].at = "ask" =>
          ~(approval[c].run = pc[Pm].run /\ approval[c].action = pc[Pm].action)
    BY DEF FlowInv, PmAsks, At, PmPending
  <2>2. CASE a \in DOMAIN approval /\ b \in DOMAIN approval /\ PmPending(a) /\ PmPending(b)
    BY <1>1, <2>2 DEF FlowInv, PmAsksOnce, PmPending, Onward
  <2>3. CASE a \notin DOMAIN approval \/ ~PmPending(a)
    BY <1>1, <2>1, <2>3 DEF AskedThen, Onward
  <2>4. CASE b \notin DOMAIN approval \/ ~PmPending(b)
    BY <1>1, <2>1, <2>4 DEF AskedThen, Onward
  <2>5. QED
    BY <2>2, <2>3, <2>4
<1>7. ControlledCreate'
  <2> SUFFICES ASSUME scene.createApproval, NEW n \in DOMAIN pr'
               PROVE  pr'[n].by # 0 /\ ControlsThen(pr'[n].by, pr'[n].run)
    BY DEF ControlledCreate, ControlsThen
  <2>1. CASE n \in DOMAIN pr
    <3>0. pr[n] \in PrRows(Runs, Len(approval))
      BY <1>0, <2>1 DEF RowsOK
    <3>1. pr[n].by # 0 /\ pr[n].by \in 0 .. Len(approval) /\ Len(approval) \in Nat
      <4>1. pr[n].by # 0
        BY <2>1 DEF FlowInv, ControlledCreate
      <4>2. QED
        BY <1>0, <3>0, <4>1 DEF RowsOK, PrRows
    <3>2. DOMAIN approval = 1 .. Len(approval)
      BY <1>0 DEF RowsOK
    <3>3. pr[n].by \in DOMAIN approval
      BY <3>1, <3>2
    <3>4. QED
      BY <1>1, <2>1, <3>1, <3>3 DEF FlowInv, ControlledCreate, ControlsThen, Onward
  <2>2. CASE n \notin DOMAIN pr
    BY <2>2 DEF PrsThen
  <2>3. QED
    BY <2>1, <2>2
<1>8. ClaimHeld'
  <2> SUFFICES ASSUME ~("crash" \in scene.world), NEW a \in DOMAIN approval',
                      approval'[a].status = "executing"
               PROVE  \E q \in Process : pc'[q].approval = a
    BY DEF ClaimHeld
  <2>1. CASE t.approval = a
    BY <1>2, <2>1
  <2>2. CASE a \in DOMAIN approval /\ approval[a].status = "executing" /\ pc[p].approval # a
    <3>1. PICK q \in Process : pc[q].approval = a
      BY <2>2 DEF FlowInv, ClaimHeld
    <3>2. QED
      BY <1>2, <2>2, <3>1
  <2>3. QED
    BY <2>1, <2>2 DEF HoldsThen
<1>9. QED
  BY <1>1, <1>2, <1>3, <1>4, <1>5, <1>6, <1>7, <1>8 DEF SafeThen, Onward

\* A step that leaves approvals and pull requests alone.
LEMMA QuietMoves ==
  ASSUME FlowInv, UNCHANGED <<scene, approval, pr>>, RunChange, NEW p \in Process,
         NEW t \in Row, Goes(p, t), ReliesThen(t), IssueThen,
         t.approval = pc[p].approval \/ pc[p].approval = 0,
         p = Pm /\ t.at = "ask" => Unasked(t)
  PROVE  SafeThen
<1>0. pc[p] \in Row /\ Relies(pc[p]) /\ RowsOK
  BY Known
<1>1. RowsChange
  BY DEF RowsChange, ApprovalChange, PrChange
<1>2. PrsThen /\ AskedThen(p) /\ AsksThen(p, t)
  BY DEF PrsThen, AskedThen, AsksThen, PmPending
<1>3. 0 \notin DOMAIN approval
  BY <1>0 DEF RowsOK
<1>4. HoldsThen(p, t)
  BY <1>3 DEF HoldsThen
<1>5. QED
  BY <1>1, <1>2, <1>4, FlowMoves

\* A handler goes to another place and keeps what it holds.
LEMMA Went ==
  ASSUME NEW p \in Process, pc \in [Process -> Row], NEW place \in Places, Goto(p, place)
  PROVE  \E t \in Row : /\ Goes(p, t) /\ t.at = place /\ t.run = pc[p].run
                        /\ t.approval = pc[p].approval /\ t.pr = pc[p].pr
                        /\ t.action = pc[p].action /\ t.seen = pc[p].seen
<1> DEFINE t == [pc[p] EXCEPT !.at = place]
<1>1. pc' = [pc EXCEPT ![p] = t]
  BY DEF Goto
<1>2. /\ t \in Row /\ t.at = place /\ t.run = pc[p].run /\ t.approval = pc[p].approval
      /\ t.pr = pc[p].pr /\ t.action = pc[p].action /\ t.seen = pc[p].seen
  BY DEF Row
<1>3. QED
  BY <1>1, <1>2 DEF Goes

LEMMA OnRunRow ==
  ASSUME NEW place \in Places, NEW r \in Nat
  PROVE  LET t == OnRun(place, r) IN
         t \in Row /\ t.at = place /\ t.run = r /\ t.approval = 0 /\ t.action = "create_pr"
         /\ t.seen = "none" /\ t.pr = 0
BY DEF OnRun, IdleRow, Row, Places, Action, PrState

LEMMA IdleRelies ==
  IdleRow \in Row /\ IdleRow.at = "idle" /\ IdleRow.approval = 0 /\ ReliesThen(IdleRow)
BY DEF IdleRow, Row, Places, Action, PrState, ReliesThen, Runless, Holding

\* A run is changed in one of its fields.
LEMMA RunEdited ==
  ASSUME RowsOK, NEW r \in Runs,
         \/ \E s \in RunStatus : SetRun(r, s)
         \/ run' = [run EXCEPT ![r].branch = TRUE]
         \/ \E c \in {"passed", "failed"} : run' = [run EXCEPT ![r].ci = c]
         \/ \E s \in PrState : run' = [run EXCEPT ![r].prState = s]
  PROVE  RunChange
<1>0. run[r] \in RunRows(Len(pr))
  BY DEF RowsOK, Runs
<1>1. ASSUME NEW entry \in RunRows(Len(pr)), run' = [run EXCEPT ![r] = entry]
      PROVE  RunChange
  BY <1>1 DEF RunChange
<1>2. ASSUME NEW s \in RunStatus, SetRun(r, s)
      PROVE  RunChange
  <2>1. [run[r] EXCEPT !.status = s] \in RunRows(Len(pr))
    BY <1>0 DEF RunRows
  <2>2. run' = [run EXCEPT ![r] = [run[r] EXCEPT !.status = s]]
    BY <1>2 DEF SetRun
  <2>3. QED
    BY <1>1, <2>1, <2>2
<1>3. CASE run' = [run EXCEPT ![r].branch = TRUE]
  <2>1. [run[r] EXCEPT !.branch = TRUE] \in RunRows(Len(pr))
    BY <1>0 DEF RunRows
  <2>2. run' = [run EXCEPT ![r] = [run[r] EXCEPT !.branch = TRUE]]
    BY <1>3
  <2>3. QED
    BY <1>1, <2>1, <2>2
<1>4. ASSUME NEW c \in {"passed", "failed"}, run' = [run EXCEPT ![r].ci = c]
      PROVE  RunChange
  <2>1. [run[r] EXCEPT !.ci = c] \in RunRows(Len(pr))
    BY <1>0 DEF RunRows
  <2>2. run' = [run EXCEPT ![r] = [run[r] EXCEPT !.ci = c]]
    BY <1>4
  <2>3. QED
    BY <1>1, <2>1, <2>2
<1>5. ASSUME NEW s \in PrState, run' = [run EXCEPT ![r].prState = s]
      PROVE  RunChange
  <2>1. [run[r] EXCEPT !.prState = s] \in RunRows(Len(pr))
    BY <1>0 DEF RunRows
  <2>2. run' = [run EXCEPT ![r] = [run[r] EXCEPT !.prState = s]]
    BY <1>5
  <2>3. QED
    BY <1>1, <2>1, <2>2
<1>6. QED
  BY <1>2, <1>3, <1>4, <1>5

\* A handler that holds no approval goes on to a place where it relies on no other row.
Plain == Places \ ({"ask"} \cup Holding)

LEMMA PlainMoves ==
  ASSUME FlowInv, UNCHANGED <<scene, approval, pr>>, RunChange, NEW p \in Process,
         pc[p].at \notin Holding, IssueThen,
         \/ End(p)
         \/ \E place \in Plain : Goto(p, place) /\ (place \in Runless \/ pc[p].at \notin Runless)
  PROVE  SafeThen
<1>0. pc[p] \in Row /\ Relies(pc[p]) /\ RowsOK /\ pc \in [Process -> Row] /\ pc[p].approval = 0
  BY Known DEF Relies
<1>1. CASE End(p)
  BY <1>0, <1>1, IdleRelies, QuietMoves DEF End
<1>2. ASSUME NEW place \in Plain, Goto(p, place), place \in Runless \/ pc[p].at \notin Runless
      PROVE  SafeThen
  <2>1. PICK t \in Row : /\ Goes(p, t) /\ t.at = place /\ t.run = pc[p].run
                         /\ t.approval = pc[p].approval
    BY <1>0, <1>2, Went DEF Plain
  <2>2. Runs \subseteq DOMAIN run'
    BY <1>0, RunsGrow
  <2>3. ReliesThen(t)
    BY <1>0, <1>2, <2>1, <2>2 DEF ReliesThen, Relies, Plain, Holding
  <2>4. t.at # "ask"
    BY <2>1 DEF Plain
  <2>5. QED
    BY <1>0, <2>1, <2>3, <2>4, QuietMoves
<1>3. QED
  BY <1>1, <1>2

LEMMA Starts ==
  ASSUME FlowInv, UNCHANGED scene, NEW p \in Process,
         \/ StartMark(p) \/ StartWorkspace(p) \/ StartFailed(p)
         \/ PromptEnds(p) \/ FinalizeRead(p) \/ FinalizeRun(p) \/ FinalizeIssue(p)
         \/ InitFailed(p) \/ InitFailedRun(p) \/ InitFailedIssue(p)
         \/ CancelIssue(p) \/ CompleteIssue(p)
  PROVE  SafeThen
<1> USE DEF At
<1>0. pc[p] \in Row /\ Relies(pc[p]) /\ RowsOK
  BY Known
<1>u. UNCHANGED run => RunChange
  BY DEF RunChange
<1>i. UNCHANGED issue \/ issue' # "done" => IssueThen
  BY DEF IssueThen
<1>r. ASSUME NEW s \in RunStatus, SetRun(pc[p].run, s), pc[p].at \notin Runless
      PROVE  RunChange
  BY <1>0, <1>r, RunEdited DEF Relies
<1>1. CASE StartMark(p)
  BY <1>0, <1>u, <1>i, <1>1, PlainMoves DEF StartMark, Plain, Places, Holding, Runless
<1>2. CASE StartWorkspace(p)
  <2>1. RunChange
    BY <1>0, <1>u, <1>2, RunEdited DEF StartWorkspace, Relies, Runless
  <2>2. QED
    BY <1>i, <1>2, <2>1, PlainMoves DEF StartWorkspace, Plain, Places, Holding, Runless
<1>3. CASE StartFailed(p)
  BY <1>i, <1>r, <1>3, PlainMoves DEF StartFailed, Holding, Runless, RunStatus
<1>4. CASE PromptEnds(p) \/ FinalizeRead(p) \/ InitFailed(p)
  BY <1>u, <1>i, <1>4, PlainMoves
     DEF PromptEnds, FinalizeRead, InitFailed, Plain, Places, Holding, Runless
<1>5. CASE FinalizeRun(p) \/ InitFailedRun(p)
  BY <1>i, <1>r, <1>5, PlainMoves
     DEF FinalizeRun, InitFailedRun, Plain, Places, Holding, Runless, RunStatus
<1>6. CASE FinalizeIssue(p) \/ InitFailedIssue(p) \/ CancelIssue(p) \/ CompleteIssue(p)
  BY <1>u, <1>i, <1>6, PlainMoves
     DEF FinalizeIssue, InitFailedIssue, CancelIssue, CompleteIssue, Holding
<1>7. QED
  BY <1>1, <1>2, <1>3, <1>4, <1>5, <1>6

LEMMA Prompts ==
  ASSUME FlowInv, UNCHANGED scene, NEW p \in Process, StartCreate(p) \/ StartInit(p)
  PROVE  SafeThen
<1> USE DEF At
<1>0. pc[p] \in Row /\ Relies(pc[p]) /\ RowsOK
  BY Known
<1>1. CASE StartCreate(p)
  <2> DEFINE entry == [status |-> "running", branch |-> FALSE, pr |-> 0, prState |-> "none",
                     ci |-> "none"]
             t == OnRun("mark", Len(run) + 1)
  <2>1. entry \in RunRows(0)
    BY DEF RunRows, RunStatus, PrState
  <2>2. run' = Append(run, entry) /\ Goes(p, t)
    BY <1>1 DEF StartCreate
  <2>3. t \in Row /\ t.at = "mark" /\ t.run = Len(run) + 1 /\ t.approval = 0
    BY <1>0, OnRunRow DEF RowsOK, Places
  <2>4. Len(run) + 1 \in DOMAIN run'
    BY <1>0, <2>2, Appended DEF RowsOK
  <2> HIDE DEF t, entry
  <2>5. ReliesThen(t) /\ RunChange
    BY <2>1, <2>2, <2>3, <2>4 DEF ReliesThen, Holding, RunChange
  <2>6. pc[p].approval = 0 /\ IssueThen
    BY <1>0, <1>1 DEF StartCreate, Relies, Holding, IssueThen
  <2>7. QED
    BY <1>1, <2>2, <2>3, <2>5, <2>6, QuietMoves DEF StartCreate
<1>2. CASE StartInit(p)
  <2>1. RunChange /\ IssueThen /\ pc[p].approval = 0
    BY <1>0, <1>2 DEF StartInit, RunChange, IssueThen, Relies, Holding
  <2>2. CASE Goto(p, "startFailed")
    BY <1>2, <2>1, <2>2, PlainMoves DEF StartInit, Plain, Places, Holding, Runless
  <2>3. CASE Goes(p, [pc[p] EXCEPT !.at = "prompt", !.fails = TRUE])
    <3> DEFINE t == [pc[p] EXCEPT !.at = "prompt", !.fails = TRUE]
    <3>1. t \in Row /\ t.at = "prompt" /\ t.run = pc[p].run /\ t.approval = pc[p].approval
      BY <1>0 DEF Row, Places
    <3>2. Goes(p, t) /\ pc[p].run \in Runs /\ run' = run
      BY <1>0, <1>2, <2>3 DEF StartInit, Relies, Runless
    <3> HIDE DEF t
    <3>3. ReliesThen(t)
      BY <2>1, <3>1, <3>2 DEF ReliesThen, Holding, Runs
    <3>4. QED
      BY <1>2, <2>1, <3>1, <3>2, <3>3, QuietMoves DEF StartInit
  <2>4. QED
    BY <1>2, <2>2, <2>3 DEF StartInit
<1>3. QED
  BY <1>1, <1>2
-----------------------------------------------------------------------------
(* Approvals.                                                                *)

\* The approval a handler holds is decided, claimed or settled.
LEMMA ApprovalMoves ==
  ASSUME FlowInv, UNCHANGED <<scene, issue, run, pr>>, NEW p \in Process,
         NEW a \in DOMAIN approval, a = pc[p].approval,
         NEW status \in ApprovalStatus \ {"pending"}, SetApproval(a, status),
         NEW t \in Row, Goes(p, t), status = "executing" => t.approval = a,
         (approval' \in Seq(ApprovalRows(Runs)) /\ DOMAIN approval' = DOMAIN approval
          /\ approval'[a].run = approval[a].run /\ approval'[a].action = approval[a].action
          /\ approval'[a].status = status) => ReliesThen(t),
         t.at # "ask"
  PROVE  SafeThen
<1> DEFINE entry == [approval[a] EXCEPT !.status = status]
<1>0. RowsOK
  BY Known
<1>1. /\ entry \in ApprovalRows(Runs) /\ entry.run = approval[a].run /\ entry.by = approval[a].by
      /\ entry.action = approval[a].action /\ entry.status = status
  <2>1. approval[a] \in ApprovalRows(Runs)
    BY <1>0 DEF RowsOK
  <2>2. QED
    BY <2>1 DEF ApprovalRows
<1>2. approval' = [approval EXCEPT ![a] = entry]
  BY DEF SetApproval
<1> HIDE DEF entry
<1>3. /\ approval' \in Seq(ApprovalRows(Runs)) /\ DOMAIN approval' = DOMAIN approval
      /\ \A b \in DOMAIN approval : approval'[b] = IF b = a THEN entry ELSE approval[b]
  BY <1>0, <1>1, <1>2, Replaced DEF RowsOK
<1>4. ReliesThen(t)
  BY <1>1, <1>3
<1>5. ApprovalChange
  BY <1>1, <1>2 DEF ApprovalChange
<1>6. RowsChange
  BY <1>5 DEF RowsChange, RunChange, PrChange
<1>7. HoldsThen(p, t)
  BY <1>1, <1>3 DEF HoldsThen
<1>8. AskedThen(p)
  BY <1>1, <1>3 DEF AskedThen, PmPending
<1>9. IssueThen /\ PrsThen /\ AsksThen(p, t)
  BY DEF IssueThen, PrsThen, AsksThen
<1>10. QED
  BY <1>4, <1>6, <1>7, <1>8, <1>9, FlowMoves

LEMMA Approvals ==
  ASSUME FlowInv, UNCHANGED scene, NEW p \in Process, Claim(p) \/ Settle(p) \/ Reject(p)
  PROVE  SafeThen
<1> DEFINE a == pc[p].approval
<1> USE DEF At
<1>0. pc[p] \in Row /\ Relies(pc[p]) /\ RowsOK /\ pc \in [Process -> Row]
  BY Known
<1>1. pc[p].at \in {"claim", "settle", "reject"}
  BY DEF Claim, Settle, Reject
<1>2. a \in DOMAIN approval /\ pc[p].run \in Runs
  BY <1>0, <1>1 DEF Relies, Runless
<1> HIDE DEF a
<1>3. CASE Settle(p) \/ Reject(p)
  <2>1. PICK status \in {"executed", "failed", "rejected"} : SetApproval(a, status)
    BY <1>3 DEF Settle, Reject, a
  <2>2. Goes(p, IdleRow) /\ UNCHANGED <<issue, run, pr>>
    BY <1>3 DEF Settle, Reject, End
  <2>3. QED
    BY <1>2, <2>1, <2>2, IdleRelies, ApprovalMoves DEF ApprovalStatus, a
<1>4. CASE Claim(p)
  <2> DEFINE place == IF approval[a].action = "merge_pr" THEN "merge" ELSE "pr"
  <2>1. SetApproval(a, "executing") /\ Goto(p, place) /\ UNCHANGED <<issue, run, pr>>
    BY <1>4 DEF Claim, a
  <2>2. place \in Places /\ place \in {"merge", "pr"}
        /\ (place = "pr" => approval[a].action = "create_pr")
    <3>1. approval[a] \in ApprovalRows(Runs)
      BY <1>0, <1>2 DEF RowsOK
    <3>2. approval[a].action \in {"create_pr", "merge_pr"}
      BY <3>1 DEF ApprovalRows, Action
    <3>3. QED
      BY <3>2 DEF Places
  <2> HIDE DEF place
  <2>3. PICK t \in Row : /\ Goes(p, t) /\ t.at = place /\ t.run = pc[p].run
                         /\ t.approval = a
    BY <1>0, <2>1, <2>2, Went DEF a
  <2>4. approval[a].run = t.run
    BY <1>0, <1>4, <2>3 DEF Claim, Relies, a
  <2>5. ASSUME DOMAIN approval' = DOMAIN approval, approval'[a].run = approval[a].run,
               approval'[a].action = approval[a].action, approval'[a].status = "executing"
        PROVE  ReliesThen(t)
    BY <1>2, <2>1, <2>2, <2>3, <2>4, <2>5 DEF ReliesThen, ControlsThen, Holding, Runs
  <2>6. QED
    BY <1>2, <2>1, <2>2, <2>3, <2>5, ApprovalMoves DEF ApprovalStatus, a
<1>5. QED
  BY <1>3, <1>4

LEMMA Requests ==
  ASSUME FlowInv, UNCHANGED scene, NEW p \in Process, RequestCheck(p) \/ RequestCreate(p)
  PROVE  SafeThen
<1> USE DEF At
<1>0. /\ pc[p] \in Row /\ Relies(pc[p]) /\ RowsOK /\ pc \in [Process -> Row]
      /\ pc[p].approval = 0 /\ pc[p].run \in Runs
  BY Known DEF Relies, RequestCheck, RequestCreate, Holding, Runless
<1>1. CASE RequestCheck(p)
  <2>1. RunChange /\ IssueThen /\ UNCHANGED <<approval, pr, run>>
    BY <1>1 DEF RequestCheck, RunChange, IssueThen
  <2>2. CASE End(p)
    BY <1>0, <1>1, <2>1, <2>2, PlainMoves DEF RequestCheck, Holding
  <2>3. CASE OpenFor(pc[p].run, pc[p].action) = {} /\ Goto(p, "ask")
    <3>1. PICK t \in Row : /\ Goes(p, t) /\ t.at = "ask" /\ t.run = pc[p].run
                           /\ t.approval = pc[p].approval /\ t.action = pc[p].action
      BY <1>0, <2>3, Went DEF Places
    <3>2. Unasked(t)
      BY <2>3, <3>1 DEF Unasked, PmPending, OpenFor, Open
    <3>3. ReliesThen(t)
      BY <1>0, <2>1, <3>1 DEF ReliesThen, Runs
    <3>4. QED
      BY <2>1, <3>1, <3>2, <3>3, QuietMoves
  <2>4. QED
    BY <1>1, <2>2, <2>3 DEF RequestCheck
<1>2. CASE RequestCreate(p)
  <2> DEFINE entry == [run |-> pc[p].run, action |-> pc[p].action, status |-> "pending",
                     by |-> IF p = Pm THEN "pm_auto" ELSE "user"]
  <2>1. entry \in ApprovalRows(Runs) /\ entry.run = pc[p].run /\ entry.action = pc[p].action
        /\ entry.status = "pending" /\ (entry.by = "pm_auto" => p = Pm)
    BY <1>0 DEF ApprovalRows, Row, ApprovalStatus
  <2>2. approval' = Append(approval, entry) /\ UNCHANGED <<issue, run, pr>> /\ Goes(p, IdleRow)
    BY <1>2 DEF RequestCreate, End
  <2> HIDE DEF entry
  <2>3. /\ DOMAIN approval' = DOMAIN approval \cup {Len(approval) + 1}
        /\ approval'[Len(approval) + 1] = entry
        /\ \A a \in DOMAIN approval : approval'[a] = approval[a]
    BY <1>0, <2>2, Appended DEF RowsOK
  <2>4. RowsChange
    BY <2>1, <2>2 DEF RowsChange, RunChange, ApprovalChange, PrChange
  <2>5. AskedThen(p)
    BY <1>2, <2>1, <2>3 DEF AskedThen, PmPending, RequestCreate
  <2>6. 0 \notin DOMAIN approval
    BY <1>0 DEF RowsOK
  <2>7. HoldsThen(p, IdleRow)
    BY <1>0, <2>1, <2>3, <2>6 DEF HoldsThen
  <2>8. IssueThen /\ PrsThen /\ AsksThen(p, IdleRow)
    BY <2>2, IdleRelies DEF IssueThen, PrsThen, AsksThen
  <2>9. QED
    BY <2>2, <2>4, <2>5, <2>7, <2>8, IdleRelies, FlowMoves
<1>3. QED
  BY <1>1, <1>2

-----------------------------------------------------------------------------
(* Review requests.                                                          *)

LEMMA ReturnsMoves ==
  ASSUME FlowInv, UNCHANGED <<scene, approval, pr>>, RunChange, NEW p \in Process,
         pc[p].at \in Holding, IssueThen, NEW ok \in BOOLEAN, Returns(p, ok)
  PROVE  SafeThen
<1>0. pc[p] \in Row /\ Relies(pc[p]) /\ RowsOK /\ Runs \subseteq DOMAIN run'
  BY Known, RunsGrow
<1>1. CASE pc[p].approval = 0
  BY <1>1, IdleRelies, QuietMoves DEF Returns, End
<1>2. CASE pc[p].approval # 0
  <2> DEFINE t == [pc[p] EXCEPT !.at = "settle", !.ok = ok]
  <2>1. t \in Row /\ t.at = "settle" /\ t.run = pc[p].run /\ t.approval = pc[p].approval
    BY <1>0 DEF Row, Places
  <2>2. Goes(p, t)
    BY <1>2 DEF Returns
  <2> HIDE DEF t
  <2>3. ReliesThen(t)
    BY <1>0, <1>2, <2>1 DEF ReliesThen, Relies, Holding, Runless
  <2>4. QED
    BY <2>1, <2>2, <2>3, QuietMoves
<1>3. QED
  BY <1>1, <1>2

\* A handler of a review request goes on to one of its places.
LEMMA ReviewMoves ==
  ASSUME FlowInv, UNCHANGED <<scene, approval, pr>>, RunChange, NEW p \in Process,
         pc[p].at \in Holding, IssueThen, NEW t \in Row, Goes(p, t),
         t.at \in {"push", "call", "write", "done"}, t.run = pc[p].run,
         t.approval = pc[p].approval, t.at = "push" => pc[p].at = "pr",
         t.at = "call" => t.pr \in DOMAIN pr,
         t.at = "done" \/ (t.at = "write" /\ t.seen = "merged") => AnyMerged
  PROVE  SafeThen
<1>0. pc[p] \in Row /\ Relies(pc[p]) /\ RowsOK /\ Runs \subseteq DOMAIN run'
  BY Known, RunsGrow
<1>1. ReliesThen(t)
  BY <1>0 DEF ReliesThen, Relies, Controls, ControlsThen, Decided, Holding, Runless, AnyMerged
<1>2. QED
  BY <1>1, QuietMoves

LEMMA Reviews ==
  ASSUME FlowInv, UNCHANGED scene, NEW p \in Process,
         \/ CreateRead(p) \/ MergeRead(p) \/ StateWrite(p) \/ MergedWrite(p)
  PROVE  SafeThen
<1> USE DEF At
<1>0. /\ pc[p] \in Row /\ Relies(pc[p]) /\ RowsOK /\ pc \in [Process -> Row]
      /\ pc[p].at \in {"pr", "merge", "write", "done"} /\ pc[p].at \in Holding
      /\ pc[p].run \in Runs
  BY Known DEF Relies, CreateRead, MergeRead, StateWrite, MergedWrite, Holding, Runless
<1>1. CASE CreateRead(p)
  <2>1. RunChange /\ IssueThen /\ UNCHANGED <<approval, pr>>
    BY <1>1 DEF CreateRead, RunChange, IssueThen
  <2>2. CASE Goto(p, "push")
    <3>1. PICK t \in Row : /\ Goes(p, t) /\ t.at = "push" /\ t.run = pc[p].run
                           /\ t.approval = pc[p].approval
      BY <1>0, <2>2, Went DEF Places
    <3>2. pc[p].at = "pr"
      BY <1>1 DEF CreateRead
    <3>3. QED
      BY <1>0, <2>1, <3>1, <3>2, ReviewMoves
  <2>3. CASE Returns(p, TRUE) \/ Returns(p, FALSE)
    BY <1>0, <2>1, <2>3, ReturnsMoves
  <2>4. QED
    <3>1. Returns(p, TRUE) \/ Returns(p, FALSE) \/ Goto(p, "push")
      BY <1>1 DEF CreateRead
    <3>2. QED
      BY <2>2, <2>3, <3>1
<1>2. CASE MergeRead(p)
  <2> DEFINE n == run[pc[p].run].pr
  <2>1. RunChange /\ IssueThen /\ UNCHANGED <<approval, pr>>
    BY <1>2 DEF MergeRead, RunChange, IssueThen
  <2>2. n \in 0 .. Len(pr)
    <3>1. run[pc[p].run] \in RunRows(Len(pr))
      BY <1>0 DEF RowsOK, Runs
    <3>2. QED
      BY <3>1 DEF RunRows
  <2>3. n # 0 => n \in DOMAIN pr /\ n \in Nat
    BY <1>0, <2>2 DEF RowsOK
  <2>4. Returns(p, FALSE) \/ (n # 0 /\ Goes(p, [pc[p] EXCEPT !.at = "call", !.pr = n]))
    BY <1>2 DEF MergeRead
  <2> HIDE DEF n
  <2>5. CASE n # 0 /\ Goes(p, [pc[p] EXCEPT !.at = "call", !.pr = n])
    <3> DEFINE t == [pc[p] EXCEPT !.at = "call", !.pr = n]
    <3>1. /\ t \in Row /\ t.at = "call" /\ t.run = pc[p].run /\ t.approval = pc[p].approval
          /\ t.pr = n
      BY <1>0, <2>3, <2>5 DEF Row, Places
    <3>2. Goes(p, t)
      BY <2>5
    <3> HIDE DEF t
    <3>3. QED
      BY <1>0, <2>1, <2>3, <2>5, <3>1, <3>2, ReviewMoves
  <2>6. QED
    BY <1>0, <2>1, <2>4, <2>5, ReturnsMoves
<1>3. CASE StateWrite(p)
  <2>1. RunChange /\ IssueThen /\ UNCHANGED <<approval, pr>>
    BY <1>0, <1>3, RunEdited DEF StateWrite, IssueThen, Row
  <2>2. CASE pc[p].seen = "merged" /\ Goto(p, "done")
    <3>1. PICK t \in Row : /\ Goes(p, t) /\ t.at = "done" /\ t.run = pc[p].run
                           /\ t.approval = pc[p].approval
      BY <1>0, <2>2, Went DEF Places
    <3>2. AnyMerged
      BY <1>0, <1>3, <2>2 DEF StateWrite, Relies
    <3>3. QED
      BY <1>0, <2>1, <3>1, <3>2, ReviewMoves
  <2>3. CASE Returns(p, TRUE)
    BY <1>0, <2>1, <2>3, ReturnsMoves
  <2>4. QED
    BY <1>3, <2>2, <2>3 DEF StateWrite
<1>4. CASE MergedWrite(p)
  <2>1. RunChange /\ UNCHANGED <<approval, pr>> /\ Returns(p, TRUE)
    BY <1>0, <1>4, RunEdited DEF MergedWrite, RunStatus
  <2>2. IssueThen
    BY <1>0, <1>4 DEF MergedWrite, Relies, IssueThen
  <2>3. QED
    BY <1>0, <2>1, <2>2, ReturnsMoves
<1>5. QED
  BY <1>1, <1>2, <1>3, <1>4

LEMMA Creates ==
  ASSUME FlowInv, UNCHANGED scene, NEW p \in Process, CreateCall(p)
  PROVE  SafeThen
<1> USE DEF At
<1>0. /\ pc[p] \in Row /\ Relies(pc[p]) /\ RowsOK /\ pc[p].at = "push"
      /\ pc[p].at \in Holding /\ pc[p].run \in Runs
  BY Known DEF Relies, CreateCall, Holding, Runless
<1>1. RunChange /\ IssueThen /\ UNCHANGED <<issue, run, approval>>
  BY DEF CreateCall, RunChange, IssueThen
<1>2. CASE Returns(p, FALSE) /\ UNCHANGED pr
  BY <1>0, <1>1, <1>2, ReturnsMoves
<1>3. CASE /\ pr' = Append(pr, [run |-> pc[p].run, state |-> "open", by |-> pc[p].approval])
           /\ Goes(p, [pc[p] EXCEPT !.at = "record", !.pr = Len(pr) + 1])
  <2> DEFINE entry == [run |-> pc[p].run, state |-> "open", by |-> pc[p].approval]
             t == [pc[p] EXCEPT !.at = "record", !.pr = Len(pr) + 1]
  <2>1. pc[p].approval \in 0 .. Len(approval)
    <3>1. DOMAIN approval = 1 .. Len(approval) /\ Len(approval) \in Nat
      BY <1>0 DEF RowsOK
    <3>2. pc[p].approval = 0 \/ pc[p].approval \in 1 .. Len(approval)
      BY <1>0, <3>1 DEF Relies
    <3>3. QED
      BY <3>1, <3>2
  <2>2. entry \in PrRows(Runs, Len(approval)) /\ entry.run = pc[p].run /\ entry.by = pc[p].approval
    BY <1>0, <2>1 DEF PrRows, PrState
  <2>3. /\ t \in Row /\ t.at = "record" /\ t.run = pc[p].run /\ t.approval = pc[p].approval
        /\ t.pr = Len(pr) + 1
    <3>1. Len(pr) + 1 \in Nat
      BY <1>0 DEF RowsOK
    <3>2. QED
      BY <1>0, <3>1 DEF Row, Places
  <2>4. pr' = Append(pr, entry) /\ Goes(p, t)
    BY <1>3
  <2> HIDE DEF entry, t
  <2>5. DOMAIN pr' = DOMAIN pr \cup {Len(pr) + 1} /\ pr'[Len(pr) + 1] = entry
    BY <1>0, <2>4, Appended DEF RowsOK
  <2>6. RowsChange
    BY <1>1, <2>2, <2>4 DEF RowsChange, ApprovalChange, PrChange
  <2>7. ReliesThen(t)
    BY <1>0, <1>1, <2>3, <2>5 DEF ReliesThen, Relies, Holding, Runs
  <2>8. scene.createApproval => Controls(pc[p].approval, pc[p].run)
    BY <1>0 DEF Relies
  <2>9. 0 \notin DOMAIN approval
    BY <1>0 DEF RowsOK
  <2>10. PrsThen
    BY <1>1, <2>2, <2>5, <2>8, <2>9 DEF PrsThen, ControlsThen, Controls, Decided
  <2>11. HoldsThen(p, t) /\ AskedThen(p) /\ AsksThen(p, t)
    BY <1>1, <2>3 DEF HoldsThen, AskedThen, AsksThen, PmPending
  <2>12. QED
    BY <1>1, <2>3, <2>4, <2>6, <2>7, <2>10, <2>11, FlowMoves
<1>4. QED
  BY <1>2, <1>3 DEF CreateCall

LEMMA Records ==
  ASSUME FlowInv, UNCHANGED scene, NEW p \in Process, CreateRecord(p)
  PROVE  SafeThen
<1> USE DEF At
<1>0. /\ pc[p] \in Row /\ Relies(pc[p]) /\ RowsOK /\ pc[p].at = "record"
      /\ pc[p].at \in Holding /\ pc[p].run \in Runs /\ pc[p].pr \in DOMAIN pr
  BY Known DEF Relies, CreateRecord, Holding, Runless
<1> DEFINE r == pc[p].run
           entry == [run[r] EXCEPT !.pr = pc[p].pr, !.prState = "open", !.status = "waiting_ci"]
<1>1. run[r] \in RunRows(Len(pr)) /\ pc[p].pr \in 0 .. Len(pr)
  BY <1>0 DEF RowsOK, Runs
<1>2. entry \in RunRows(Len(pr))
  BY <1>1 DEF RunRows, PrState, RunStatus
<1>3. run' = [run EXCEPT ![r] = entry]
  BY DEF CreateRecord
<1> HIDE DEF entry
<1>4. RunChange
  BY <1>0, <1>2, <1>3 DEF RunChange
<1>5. IssueThen /\ UNCHANGED <<approval, pr>> /\ Returns(p, TRUE)
  BY DEF CreateRecord, IssueThen
<1>6. QED
  BY <1>0, <1>4, <1>5, ReturnsMoves

LEMMA Merges ==
  ASSUME FlowInv, UNCHANGED scene, NEW p \in Process, MergeCall(p)
  PROVE  SafeThen
<1> USE DEF At
<1> DEFINE n == pc[p].pr
           Seen(state) == Goes(p, [pc[p] EXCEPT !.at = "write", !.seen = state])
<1>0. /\ pc[p] \in Row /\ Relies(pc[p]) /\ RowsOK /\ pc[p].at = "call"
      /\ pc[p].at \in Holding /\ pc[p].run \in Runs /\ n \in DOMAIN pr
  BY Known DEF Relies, MergeCall, Holding, Runless
<1>1. RunChange /\ IssueThen /\ UNCHANGED <<issue, run, approval>>
  BY DEF MergeCall, RunChange, IssueThen
<1>t. ASSUME NEW state \in {"open", "merged"}, Seen(state)
      PROVE  \E t \in Row : /\ Goes(p, t) /\ t.at = "write" /\ t.run = pc[p].run
                            /\ t.approval = pc[p].approval /\ t.seen = state
  <2> DEFINE t == [pc[p] EXCEPT !.at = "write", !.seen = state]
  <2>1. /\ t \in Row /\ t.at = "write" /\ t.run = pc[p].run /\ t.approval = pc[p].approval
        /\ t.seen = state
    BY <1>0 DEF Row, Places, PrState
  <2>2. Goes(p, t)
    BY <1>t
  <2>3. QED
    BY <2>1, <2>2
<1>2. CASE Returns(p, FALSE) /\ UNCHANGED pr
  BY <1>0, <1>1, <1>2, ReturnsMoves
<1>3. CASE Seen("open") /\ UNCHANGED pr
  <2>1. PICK t \in Row : /\ Goes(p, t) /\ t.at = "write" /\ t.run = pc[p].run
                         /\ t.approval = pc[p].approval /\ t.seen = "open"
    BY <1>3, <1>t
  <2>2. QED
    BY <1>0, <1>1, <1>3, <2>1, ReviewMoves
<1>4. CASE pr[n].state = "open" /\ pr' = [pr EXCEPT ![n].state = "merged"] /\ Seen("merged")
  <2> DEFINE entry == [pr[n] EXCEPT !.state = "merged"]
  <2>0. pr[n] \in PrRows(Runs, Len(approval))
    BY <1>0 DEF RowsOK
  <2>1. /\ entry \in PrRows(Runs, Len(approval)) /\ entry.run = pr[n].run /\ entry.by = pr[n].by
        /\ entry.state = "merged"
    BY <2>0 DEF PrRows, PrState
  <2>2. pr' = [pr EXCEPT ![n] = entry]
    BY <1>4
  <2>3. PICK t \in Row : /\ Goes(p, t) /\ t.at = "write" /\ t.run = pc[p].run
                         /\ t.approval = pc[p].approval /\ t.seen = "merged"
    BY <1>4, <1>t
  <2> HIDE DEF entry
  <2>4. DOMAIN pr' = DOMAIN pr /\ pr'[n].state = "merged"
    BY <1>0, <2>1, <2>2, Replaced DEF RowsOK
  <2>5. RowsChange
    BY <1>0, <1>1, <1>4, <2>1, <2>2 DEF RowsChange, ApprovalChange, PrChange
  <2>6. ReliesThen(t)
    BY <1>0, <1>1, <2>3, <2>4 DEF ReliesThen, Relies, Holding, Runs
  <2>7. PrsThen
    BY <2>4 DEF PrsThen
  <2>8. HoldsThen(p, t) /\ AskedThen(p) /\ AsksThen(p, t)
    BY <1>1, <2>3 DEF HoldsThen, AskedThen, AsksThen, PmPending
  <2>9. QED
    BY <1>1, <2>3, <2>5, <2>6, <2>7, <2>8, FlowMoves
<1>5. QED
  BY <1>2, <1>3, <1>4 DEF MergeCall

LEMMA CiEnds ==
  ASSUME FlowInv, UNCHANGED scene, NEW p \in Process, CiEnd(p)
  PROVE  SafeThen
<1> DEFINE s == IF pc[p].ok THEN "completed" ELSE "failed"
<1>1. Relies(pc[p]) /\ RowsOK /\ pc[p].at = "ci"
  BY Known DEF CiEnd, At
<1>2. SetRun(pc[p].run, s) /\ s \in RunStatus
  BY DEF CiEnd, RunStatus
<1> HIDE DEF s
<1>3. RunChange
  BY <1>1, <1>2, RunEdited DEF Relies, Runless
<1>4. QED
  BY <1>1, <1>3, PlainMoves DEF CiEnd, IssueThen, Holding

-----------------------------------------------------------------------------
(* Requests, deliveries and queues.                                          *)

\* A free process takes up a run at a place where it relies on that run alone.
Fresh == Places \ {"ask", "claim", "reject", "settle", "record", "call", "write", "done"}

LEMMA RunTaken ==
  ASSUME FlowInv, UNCHANGED <<scene, issue, approval, pr>>, RunChange, NEW p \in Process,
         pc[p].at \notin Holding, NEW place \in Fresh, NEW r \in Runs,
         place \in {"pr", "push"} => ~scene.createApproval,
         \/ Goes(p, OnRun(place, r))
         \/ Goes(p, [OnRun(place, r) EXCEPT !.action = "merge_pr"])
         \/ \E ok \in BOOLEAN : Goes(p, [OnRun(place, r) EXCEPT !.ok = ok])
  PROVE  SafeThen
<1>0. /\ pc[p] \in Row /\ Relies(pc[p]) /\ RowsOK /\ pc[p].approval = 0
      /\ Runs \subseteq DOMAIN run' /\ IssueThen
  BY Known, RunsGrow DEF Relies, IssueThen
<1>1. r \in Nat /\ place \in Places
  BY <1>0 DEF RowsOK, Runs, Fresh
<1>2. ASSUME NEW t \in Row, Goes(p, t), t.at = place, t.run = r, t.approval = 0
      PROVE  SafeThen
  <2>1. ReliesThen(t)
    BY <1>0, <1>2 DEF ReliesThen, Fresh
  <2>2. t.at # "ask"
    BY <1>2 DEF Fresh
  <2>3. QED
    BY <1>0, <1>2, <2>1, <2>2, QuietMoves
<1> DEFINE t == OnRun(place, r)
<1>3. t \in Row /\ t.at = place /\ t.run = r /\ t.approval = 0
  BY <1>1, OnRunRow
<1>4. Goes(p, t) \/ Goes(p, [t EXCEPT !.action = "merge_pr"])
      \/ \E ok \in BOOLEAN : Goes(p, [t EXCEPT !.ok = ok])
  OBVIOUS
<1> HIDE DEF t
<1>5. CASE Goes(p, t)
  BY <1>2, <1>3, <1>5
<1>6. CASE Goes(p, [t EXCEPT !.action = "merge_pr"])
  <2> DEFINE u == [t EXCEPT !.action = "merge_pr"]
  <2>1. u \in Row /\ u.at = place /\ u.run = r /\ u.approval = 0
    BY <1>3 DEF Row, Action
  <2>2. QED
    BY <1>2, <1>6, <2>1
<1>7. ASSUME NEW ok \in BOOLEAN, Goes(p, [t EXCEPT !.ok = ok])
      PROVE  SafeThen
  <2> DEFINE u == [t EXCEPT !.ok = ok]
  <2>1. u \in Row /\ u.at = place /\ u.run = r /\ u.approval = 0
    BY <1>3 DEF Row
  <2>2. QED
    BY <1>2, <1>7, <2>1
<1>8. QED
  BY <1>4, <1>5, <1>6, <1>7

\* A step after which every process is where it was.
LEMMA StaysThere ==
  ASSUME FlowInv, UNCHANGED <<scene, run, approval, pc>>, PrChange, DOMAIN pr' = DOMAIN pr, IssueThen
  PROVE  SafeThen
<1>p. Starter \in Process /\ Starter # Pm
  BY DEF Process, Starter, Pm
<1>0. /\ Starter \in Process /\ Starter # Pm /\ pc[Starter] \in Row /\ Relies(pc[Starter]) /\ RowsOK
      /\ pc \in [Process -> Row]
  BY <1>p, Known
<1>1. Goes(Starter, pc[Starter])
  BY <1>0 DEF Goes
<1>2. RowsChange
  BY DEF RowsChange, RunChange, ApprovalChange
<1>3. ReliesThen(pc[Starter])
  BY <1>0, <1>2, RowsGrow, ReliesStays
<1>4. PrsThen /\ HoldsThen(Starter, pc[Starter]) /\ AskedThen(Starter) /\ AsksThen(Starter, pc[Starter])
  BY <1>0 DEF PrsThen, HoldsThen, AskedThen, AsksThen, PmPending
<1>5. QED
  BY <1>0, <1>1, <1>2, <1>3, <1>4, FlowMoves

LEMMA RunRequests ==
  ASSUME FlowInv, UNCHANGED scene, NEW p \in Process, NEW r \in Runs,
         \/ Cancel(p, r) \/ Complete(p, r) \/ CreatePrRoute(p, r) \/ MergePrRoute(p, r)
         \/ Resume(p, r) \/ InitResult(p, r) \/ \E passed \in BOOLEAN : CiHook(p, r, passed)
  PROVE  SafeThen
<1>0. RowsOK /\ pc[p].at \notin Holding
  BY Known DEF Cancel, Complete, CreatePrRoute, MergePrRoute, Resume, InitResult, CiHook,
               Begin, Free, At, Holding
<1>u. UNCHANGED run => RunChange
  BY DEF RunChange
<1>1. CASE Cancel(p, r) \/ Complete(p, r)
  <2>1. RunChange
    BY <1>0, <1>1, RunEdited DEF Cancel, Complete, RunStatus
  <2>2. QED
    BY <1>0, <1>1, <2>1, PlainMoves
       DEF Cancel, Complete, IssueThen, Plain, Places, Holding, Runless
<1>2. CASE CreatePrRoute(p, r)
  <2> DEFINE place == IF scene.createApproval THEN "request" ELSE "pr"
  <2>1. place \in Fresh /\ (place \in {"pr", "push"} => ~scene.createApproval)
    BY DEF Fresh, Places
  <2>2. Goes(p, OnRun(place, r)) /\ UNCHANGED <<issue, run, approval, pr>>
    BY <1>2 DEF CreatePrRoute
  <2> HIDE DEF place
  <2>3. QED
    BY <1>0, <1>u, <2>1, <2>2, RunTaken
<1>3. CASE MergePrRoute(p, r)
  BY <1>0, <1>u, <1>3, RunTaken DEF MergePrRoute, Fresh, Places
<1>4. CASE Resume(p, r) \/ InitResult(p, r)
  <2>1. /\ UNCHANGED <<issue, run, approval, pr>>
        /\ Goes(p, OnRun("prompt", r)) \/ Goes(p, OnRun("initRead", r))
    BY <1>4 DEF Resume, InitResult
  <2>2. {"prompt", "initRead"} \subseteq Fresh
    BY DEF Fresh, Places
  <2>3. QED
    BY <1>0, <1>u, <2>1, <2>2, RunTaken
<1>5. ASSUME NEW passed \in BOOLEAN, CiHook(p, r, passed)
      PROVE  SafeThen
  <2> DEFINE c == IF passed THEN "passed" ELSE "failed"
  <2>1. c \in {"passed", "failed"} /\ run' = [run EXCEPT ![r].ci = c]
    BY <1>5 DEF CiHook
  <2> HIDE DEF c
  <2>2. RunChange
    BY <1>0, <2>1, RunEdited
  <2>3. UNCHANGED <<issue, approval, pr>> /\ Goes(p, [OnRun("ci", r) EXCEPT !.ok = passed])
    BY <1>5 DEF CiHook
  <2>4. "ci" \in Fresh
    BY DEF Fresh, Places
  <2>5. QED
    BY <1>0, <2>2, <2>3, <2>4, RunTaken
<1>6. QED
  BY <1>1, <1>2, <1>3, <1>4, <1>5

LEMMA SyncReads ==
  ASSUME FlowInv, UNCHANGED scene, NEW p \in Process, NEW r \in Runs, SyncRead(p, r)
  PROVE  SafeThen
<1> DEFINE n == run[r].pr
           o == OnRun("write", r)
           t == [o EXCEPT !.pr = n, !.seen = pr[n].state]
<1>0. /\ pc[p] \in Row /\ Relies(pc[p]) /\ RowsOK /\ pc[p].at = "idle" /\ pc[p].approval = 0
      /\ r \in Nat
  BY Known DEF Relies, SyncRead, Begin, Free, At, Holding, RowsOK, Runs
<1>1. n # 0 /\ Goes(p, t) /\ UNCHANGED <<issue, run, approval, pr>>
  BY DEF SyncRead
<1>2. n \in DOMAIN pr /\ n \in Nat
  <2>1. run[r] \in RunRows(Len(pr))
    BY <1>0 DEF RowsOK, Runs
  <2>2. n \in 0 .. Len(pr)
    BY <2>1 DEF RunRows
  <2>3. QED
    BY <1>0, <1>1, <2>2 DEF RowsOK
<1>3. pr[n].state \in PrState
  <2>1. pr[n] \in PrRows(Runs, Len(approval))
    BY <1>0, <1>2 DEF RowsOK
  <2>2. QED
    BY <2>1 DEF PrRows
<1>4. o \in Row /\ o.at = "write" /\ o.run = r /\ o.approval = 0
  BY <1>0, OnRunRow DEF Places
<1> HIDE DEF n, o
<1>5. t \in Row /\ t.at = "write" /\ t.run = r /\ t.approval = 0 /\ t.seen = pr[n].state
  BY <1>2, <1>3, <1>4 DEF Row
<1> HIDE DEF t
<1>6. ReliesThen(t)
  BY <1>1, <1>2, <1>5 DEF ReliesThen, Runs
<1>7. RunChange /\ IssueThen
  BY <1>1 DEF RunChange, IssueThen
<1>8. QED
  BY <1>0, <1>1, <1>5, <1>6, <1>7, QuietMoves

LEMMA Decisions ==
  ASSUME FlowInv, UNCHANGED scene, NEW p \in Process, NEW a \in DOMAIN approval,
         ApproveRead(p, a) \/ RejectRead(p, a)
  PROVE  SafeThen
<1> DEFINE r == approval[a].run
           place == IF ApproveRead(p, a) THEN "claim" ELSE "reject"
           o == OnRun(place, r)
           t == [o EXCEPT !.approval = a]
<1>0. /\ pc[p] \in Row /\ Relies(pc[p]) /\ RowsOK /\ pc[p].at = "idle" /\ pc[p].approval = 0
  BY Known DEF Relies, ApproveRead, RejectRead, Begin, Free, At, Holding
<1>1. Goes(p, t) /\ UNCHANGED <<issue, run, approval, pr>>
  BY DEF ApproveRead, RejectRead
<1>2. r \in Runs /\ r \in Nat /\ a \in Nat /\ a # 0
  <2>1. approval[a] \in ApprovalRows(Runs)
    BY <1>0 DEF RowsOK
  <2>2. r \in Runs
    BY <2>1 DEF ApprovalRows
  <2>3. QED
    BY <1>0, <2>2 DEF RowsOK, Runs
<1>3. place \in Places /\ place \in {"claim", "reject"}
  BY DEF Places
<1> HIDE DEF place
<1>4. o \in Row /\ o.at = place /\ o.run = r /\ o.approval = 0
  BY <1>2, <1>3, OnRunRow
<1> HIDE DEF o
<1>5. t \in Row /\ t.at = place /\ t.run = r /\ t.approval = a
  BY <1>2, <1>4 DEF Row
<1> HIDE DEF t
<1>6. ReliesThen(t)
  BY <1>1, <1>2, <1>3, <1>5 DEF ReliesThen, Holding, Runs
<1>7. RunChange /\ IssueThen /\ t.at # "ask"
  BY <1>1, <1>3, <1>5 DEF RunChange, IssueThen
<1>8. QED
  BY <1>0, <1>1, <1>5, <1>6, <1>7, QuietMoves

LEMMA OtherSteps ==
  ASSUME FlowInv, UNCHANGED scene, NEW p \in Process,
         StartRoute(p) \/ ReopenHook(p) \/ Dispatch \/ Analyzed
  PROVE  SafeThen
<1>0. Starter \in Process /\ RunChange /\ UNCHANGED <<run, approval, pr>>
  <2>1. Starter \in Process
    BY DEF Process
  <2>2. UNCHANGED <<run, approval, pr>>
    BY DEF StartRoute, ReopenHook, Dispatch, Analyzed
  <2>3. QED
    BY <2>1, <2>2 DEF RunChange
<1>1. CASE StartRoute(p)
  BY <1>0, <1>1, PlainMoves
     DEF StartRoute, Begin, Free, At, IssueThen, Plain, Places, Holding, Runless
<1>2. CASE ReopenHook(p)
  BY <1>0, <1>2, StaysThere DEF ReopenHook, IssueThen, PrChange
<1>3. CASE Dispatch
  <2>1. pc[Starter].at = "idle" /\ issue' = issue /\ (UNCHANGED pc \/ Goto(Starter, "check"))
    BY <1>3 DEF Dispatch, Free, At
  <2>2. IssueThen /\ PrChange
    BY <1>0, <2>1 DEF IssueThen, PrChange
  <2>3. QED
    BY <1>0, <2>1, <2>2, PlainMoves, StaysThere DEF Plain, Places, Holding, Runless
<1>4. CASE Analyzed
  <2>1. pc[Starter].at = "check" /\ issue' = issue /\ (End(Starter) \/ Goto(Starter, "create"))
    BY <1>4 DEF Analyzed, At
  <2>2. QED
    BY <1>0, <2>1, PlainMoves DEF IssueThen, Plain, Places, Holding, Runless
<1>5. QED
  BY <1>1, <1>2, <1>3, <1>4

LEMMA PmAdvances ==
  ASSUME FlowInv, UNCHANGED scene, PmAdvance
  PROVE  SafeThen
<1> DEFINE r == Head(queue).run
           place == IF scene.createApproval THEN "request" ELSE "pr"
<1>0. Pm \in Process /\ pc[Pm].at \notin Holding
  BY DEF Process, PmAdvance, Free, At, Holding
<1>1. r \in Runs
  <2>1. queue \in Seq([run : Runs, trigger : Trigger]) /\ queue # <<>>
    BY DEF FlowInv, TypeOK, Runs, PmAdvance
  <2>2. Head(queue) \in [run : Runs, trigger : Trigger]
    BY <2>1, Taken
  <2>3. QED
    BY <2>2
<1>2. /\ UNCHANGED <<issue, run, approval, pr>>
      /\ \/ Goes(Pm, OnRun(place, r))
         \/ Goes(Pm, [OnRun("request", r) EXCEPT !.action = "merge_pr"])
         \/ UNCHANGED pc
  BY DEF PmAdvance
<1>3. place \in Fresh /\ (place \in {"pr", "push"} => ~scene.createApproval)
      /\ "request" \in Fresh
  BY DEF Fresh, Places
<1> HIDE DEF place, r
<1>4. RunChange /\ IssueThen /\ PrChange
  BY <1>2 DEF RunChange, IssueThen, PrChange
<1>5. QED
  BY <1>0, <1>1, <1>2, <1>3, <1>4, RunTaken, StaysThere

LEMMA HandMerges ==
  ASSUME FlowInv, UNCHANGED scene, NEW n \in DOMAIN pr, NEW state \in {"merged", "closed"},
         ByHand(n, state)
  PROVE  SafeThen
<1> DEFINE entry == [pr[n] EXCEPT !.state = state]
<1>0. RowsOK
  BY Known DEF Process
<1>1. entry \in PrRows(Runs, Len(approval)) /\ entry.run = pr[n].run /\ entry.by = pr[n].by
  <2>1. pr[n] \in PrRows(Runs, Len(approval))
    BY <1>0 DEF RowsOK
  <2>2. QED
    BY <2>1 DEF PrRows, PrState
<1>2. pr' = [pr EXCEPT ![n] = entry]
  BY DEF ByHand
<1> HIDE DEF entry
<1>3. PrChange /\ DOMAIN pr' = DOMAIN pr
  BY <1>0, <1>1, <1>2, Replaced DEF PrChange, ByHand, RowsOK
<1>4. QED
  BY <1>3, StaysThere DEF ByHand, IssueThen

LEMMA Crashes ==
  ASSUME FlowInv, UNCHANGED scene, Crash
  PROVE  SafeThen
<1>1. RowsOK /\ Pm \in Process
  BY Known DEF Process
<1>2. RowsOK' /\ Runs \subseteq DOMAIN run'
  BY <1>1 DEF RowsOK, Runs, Crash
<1>3. pc' \in [Process -> Row] /\ \A q \in Process : pc'[q] = IdleRow
  BY IdleRelies DEF Crash
<1>5. QED
  BY <1>1, <1>2, <1>3, IdleRelies
     DEF SafeThen, Crash, FlowInv, PmAsks, At, DoneMeansMerged, PmAsksOnce, ControlledCreate,
         ClaimHeld

-----------------------------------------------------------------------------
(* All steps together.                                                       *)

LEMMA FlowSafe ==
  ASSUME FlowInv, Next
  PROVE  SafeThen
<1>1. UNCHANGED scene
  BY DEF Next
<1>2. ASSUME NEW p \in Process, Continue(p)
      PROVE  SafeThen
  BY <1>1, <1>2, Starts, Prompts, Approvals, Requests, Reviews, Creates, Records, Merges, CiEnds
     DEF Continue
<1>3. ASSUME NEW p \in Handlers, Arrive(p)
      PROVE  SafeThen
  <2>1. p \in Process
    BY DEF Process
  <2>2. CASE StartRoute(p) \/ ReopenHook(p)
    BY <1>1, <2>1, <2>2, OtherSteps
  <2>3. CASE \E r \in Runs : \/ Cancel(p, r) \/ Complete(p, r) \/ CreatePrRoute(p, r)
                             \/ MergePrRoute(p, r) \/ SyncRead(p, r) \/ Resume(p, r)
                             \/ InitResult(p, r) \/ \E passed \in BOOLEAN : CiHook(p, r, passed)
    BY <1>1, <2>1, <2>3, RunRequests, SyncReads
  <2>4. CASE \E a \in DOMAIN approval : ApproveRead(p, a) \/ RejectRead(p, a)
    BY <1>1, <2>1, <2>4, Decisions
  <2>5. QED
    BY <1>3, <2>2, <2>3, <2>4 DEF Arrive
<1>4. CASE Queues
  <2>1. Starter \in Process
    BY DEF Process
  <2>2. QED
    BY <1>1, <1>4, <2>1, OtherSteps, PmAdvances DEF Queues
<1>5. CASE Happens
  BY <1>1, <1>5, Crashes, HandMerges DEF Happens
<1>6. QED
  BY <1>2, <1>3, <1>4, <1>5 DEF Next

\* The variables that no handler relies on keep their types.
Counts == issue \in IssueStatus /\ load \in Int /\ wake \in Nat /\ events \in Nat

LEMMA CountsStay ==
  ASSUME FlowInv, Next
  PROVE  Counts'
<1>0. Counts
  BY DEF FlowInv, TypeOK, Counts
<1> USE DEF Counts, IssueStatus
<1>1. ASSUME NEW p \in Process, Continue(p)
      PROVE  Counts'
  <2>1. CASE StartCreate(p) \/ StartMark(p) \/ StartWorkspace(p) \/ StartInit(p) \/ StartFailed(p)
    BY <1>0, <2>1 DEF StartCreate, StartMark, StartWorkspace, StartInit, StartFailed
  <2>2. CASE PromptEnds(p) \/ FinalizeRead(p) \/ FinalizeRun(p) \/ FinalizeIssue(p)
    BY <1>0, <2>2 DEF PromptEnds, FinalizeRead, FinalizeRun, FinalizeIssue
  <2>3. CASE \/ InitFailed(p) \/ InitFailedRun(p) \/ InitFailedIssue(p)
             \/ CancelIssue(p) \/ CompleteIssue(p)
    BY <1>0, <2>3 DEF InitFailed, InitFailedRun, InitFailedIssue, CancelIssue, CompleteIssue
  <2>4. CASE RequestCheck(p) \/ RequestCreate(p) \/ Claim(p) \/ Settle(p) \/ Reject(p)
    BY <1>0, <2>4 DEF RequestCheck, RequestCreate, Claim, Settle, Reject
  <2>5. CASE \/ CreateRead(p) \/ CreateCall(p) \/ CreateRecord(p) \/ MergeRead(p)
             \/ MergeCall(p) \/ StateWrite(p) \/ MergedWrite(p) \/ CiEnd(p)
    BY <1>0, <2>5 DEF CreateRead, CreateCall, CreateRecord, MergeRead, MergeCall, StateWrite,
                      MergedWrite, CiEnd
  <2>6. QED
    BY <1>1, <2>1, <2>2, <2>3, <2>4, <2>5 DEF Continue
<1>2. ASSUME NEW p \in Handlers, Arrive(p)
      PROVE  Counts'
  <2>1. Begin(p) => events' \in Nat
    BY <1>0 DEF Begin
  <2>2. CASE StartRoute(p) \/ ReopenHook(p)
    BY <1>0, <2>1, <2>2 DEF StartRoute, ReopenHook
  <2>3. ASSUME NEW r \in Runs,
               \/ Cancel(p, r) \/ Complete(p, r) \/ CreatePrRoute(p, r) \/ MergePrRoute(p, r)
               \/ SyncRead(p, r) \/ Resume(p, r) \/ InitResult(p, r)
        PROVE  Counts'
    BY <1>0, <2>1, <2>3
       DEF Cancel, Complete, CreatePrRoute, MergePrRoute, SyncRead, Resume, InitResult
  <2>4. ASSUME NEW r \in Runs, NEW passed \in BOOLEAN, CiHook(p, r, passed)
        PROVE  Counts'
    BY <1>0, <2>1, <2>4 DEF CiHook
  <2>5. ASSUME NEW a \in DOMAIN approval, ApproveRead(p, a) \/ RejectRead(p, a)
        PROVE  Counts'
    BY <1>0, <2>1, <2>5 DEF ApproveRead, RejectRead
  <2>6. QED
    BY <1>2, <2>2, <2>3, <2>4, <2>5 DEF Arrive
<1>3. CASE Queues
  BY <1>0, <1>3 DEF Queues, Dispatch, Analyzed, PmAdvance
<1>4. CASE Happens
  BY <1>0, <1>4 DEF Happens, Crash, ByHand
<1>5. QED
  BY <1>1, <1>2, <1>3, <1>4 DEF Next

LEMMA QueueStays ==
  ASSUME FlowInv, Next, Runs \subseteq DOMAIN run'
  PROVE  queue' \in Seq([run : DOMAIN run', trigger : Trigger])
<1> DEFINE T == [run : Runs, trigger : Trigger]
           U == [run : DOMAIN run', trigger : Trigger]
<1>1. queue \in Seq(T) /\ T \subseteq U
  BY DEF FlowInv, TypeOK, Runs
<1>2. queue \in Seq(U) /\ <<>> \in Seq(U)
  <2> HIDE DEF T, U
  <2>1. \A i \in DOMAIN queue : queue[i] \in U
    BY <1>1
  <2>2. QED
    BY <1>1, <2>1, Typed
<1>3. ASSUME NEW r \in Runs, NEW trigger \in Trigger, TriggerPm(r, trigger)
      PROVE  queue' \in Seq(U)
  <2>1. [run |-> r, trigger |-> trigger] \in U
    OBVIOUS
  <2> HIDE DEF U
  <2>2. QED
    BY <1>2, <1>3, <2>1, AppendTyped DEF TriggerPm
<1>4. ASSUME NEW p \in Process, Continue(p)
      PROVE  queue' \in Seq(U)
  <2>1. Relies(pc[p])
    BY Known
  <2>2. CASE FinalizeIssue(p)
    BY <1>3, <2>1, <2>2 DEF FinalizeIssue, At, Relies, Runless, Trigger
  <2>3. CASE CiEnd(p)
    BY <1>3, <2>1, <2>3 DEF CiEnd, At, Relies, Runless, Trigger
  <2>4. CASE ~(FinalizeIssue(p) \/ CiEnd(p))
    <3>1. UNCHANGED queue
      BY <1>4, <2>4
         DEF Continue, StartCreate, StartMark, StartWorkspace, StartInit, StartFailed, PromptEnds,
             FinalizeRead, FinalizeRun, InitFailed, InitFailedRun, InitFailedIssue, CancelIssue,
             CompleteIssue, RequestCheck, RequestCreate, Claim, Settle, Reject, CreateRead,
             CreateCall, CreateRecord, MergeRead, MergeCall, StateWrite, MergedWrite
    <3>2. QED
      BY <1>2, <3>1
  <2>5. QED
    BY <2>2, <2>3, <2>4
<1>5. ASSUME NEW p \in Handlers, Arrive(p)
      PROVE  queue' \in Seq(U)
  <2>1. UNCHANGED queue
    BY <1>5 DEF Arrive, StartRoute, ReopenHook, Cancel, Complete, CreatePrRoute, MergePrRoute,
                SyncRead, Resume, InitResult, CiHook, ApproveRead, RejectRead
  <2>2. QED
    BY <1>2, <2>1
<1>6. CASE Queues
  <2>1. CASE Dispatch \/ Analyzed
    BY <1>2, <2>1 DEF Dispatch, Analyzed
  <2>2. CASE PmAdvance
    <3>1. queue # <<>> /\ queue' = Tail(queue)
      BY <2>2 DEF PmAdvance
    <3> HIDE DEF U
    <3>2. Tail(queue) \in Seq(U)
      BY <1>2, <3>1, Taken
    <3>3. QED
      BY <3>1, <3>2 DEF U
  <2>3. QED
    BY <1>6, <2>1, <2>2 DEF Queues
<1>7. CASE Happens
  <2>1. queue' = <<>> \/ queue' = queue
    BY <1>7 DEF Happens, Crash, ByHand
  <2>2. QED
    BY <1>2, <2>1
<1>8. QED
  BY <1>4, <1>5, <1>6, <1>7 DEF Next

LEMMA FlowStep ==
  ASSUME FlowInv, [Next]_vars
  PROVE  FlowInv'
<1>1. CASE UNCHANGED vars
  BY <1>1 DEF vars, FlowInv, TypeOK, Relies, Controls, Decided, AnyMerged, Runs, PmAsks, At,
              DoneMeansMerged, PmAsksOnce, ControlledCreate, ClaimHeld
<1>2. CASE Next
  <2>1. SafeThen
    BY <1>2, FlowSafe
  <2>2. Counts'
    BY <1>2, CountsStay
  <2>3. queue' \in Seq([run : DOMAIN run', trigger : Trigger])
    BY <1>2, <2>1, QueueStays DEF SafeThen
  <2>4. scene' = scene /\ scene \in Scenes
    BY <1>2 DEF Next, FlowInv, TypeOK
  <2>5. TypeOK'
    BY <2>1, <2>2, <2>3, <2>4
       DEF TypeOK, SafeThen, Counts, RowsOK, RunRows, ApprovalRows, PrRows, Runs
  <2>6. \A q \in Process : Relies(pc[q])'
    BY <2>1, <2>4
       DEF SafeThen, Relies, ReliesThen, Controls, ControlsThen, Decided, AnyMerged, Runs
  <2>7. QED
    BY <2>1, <2>5, <2>6 DEF FlowInv, SafeThen
<1>3. QED
  BY <1>1, <1>2

LEMMA FlowInit ==
  ASSUME Init
  PROVE  FlowInv
<1>1. scene \in Scene /\ scene \in Scenes
  BY ScenesAreScenes DEF Init
<1>2. /\ run = <<>> /\ approval = <<>> /\ pr = <<>> /\ queue = <<>> /\ load = 0 /\ wake = 1
      /\ issue = "pending" /\ events = scene.events /\ pc = [p \in Process |-> IdleRow]
  BY DEF Init
<1>3. pc \in [Process -> Row] /\ \A p \in Process : pc[p] = IdleRow
  BY <1>2, IdleRelies
<1>4. TypeOK
  BY <1>1, <1>2, <1>3 DEF TypeOK, Scene, IssueStatus
<1>5. \A p \in Process : Relies(pc[p])
  BY <1>3, IdleRelies DEF Relies, Runless
<1>6. Pm \in Process
  BY DEF Process
<1>7. QED
  BY <1>2, <1>3, <1>4, <1>5, <1>6, IdleRelies
     DEF FlowInv, PmAsks, At, DoneMeansMerged, PmAsksOnce, ControlledCreate, ClaimHeld

LEMMA FlowHolds == Spec => []FlowInv
<1>1. Init => FlowInv
  BY FlowInit
<1>2. FlowInv /\ [Next]_vars => FlowInv'
  BY FlowStep
<1>3. QED
  BY <1>1, <1>2, PTL DEF Spec

\* An issue is only done when a pull request of it is merged at the SCM
\* (runReviewRequest.ts:533 and 752).
THEOREM DoneMeansMergedHolds == Spec => []DoneMeansMerged
<1>1. FlowInv => DoneMeansMerged
  BY DEF FlowInv
<1>2. QED
  BY <1>1, FlowHolds, PTL

\* The PM never leaves one thing pending twice (pmAutoAdvance.ts:166).
THEOREM PmAsksOnceHolds == Spec => []PmAsksOnce
<1>1. FlowInv => PmAsksOnce
  BY DEF FlowInv
<1>2. QED
  BY <1>1, FlowHolds, PTL

\* Under the policy every pull request the backend opened has its decided approval
\* (pmAutoAdvance.ts, approvalRequests.ts, approvals.ts).
THEOREM ControlledCreateHolds == Spec => []ControlledCreate
<1>1. FlowInv => ControlledCreate
  BY DEF FlowInv
<1>2. QED
  BY <1>1, FlowHolds, PTL

\* Without crashes, no approval stays executing that no handler holds (approvals.ts:86).
THEOREM ClaimHeldHolds == Spec => []ClaimHeld
<1>1. FlowInv => ClaimHeld
  BY DEF FlowInv
<1>2. QED
  BY <1>1, FlowHolds, PTL

-----------------------------------------------------------------------------
(* Decisions are final when handlers do not overlap.                         *)

\* The state an approval is in while a handler is at a place.
Held(place) == IF place \in {"claim", "reject"} THEN "pending" ELSE "executing"

\* A process starts on approvals only when no other is at work on them.
Enters(p, t) == t.at \in Holding => pc[p].at \in Holding \/ Calm

LEMMA AloneMoves ==
  ASSUME FlowInv, Alone, UNCHANGED scene, NEW p \in Process, NEW t, Goes(p, t), Enters(p, t),
         ~scene.overlap /\ t.approval # 0 => approval'[t.approval].status = Held(t.at),
         \A a \in DOMAIN approval : a # pc[p].approval => approval'[a] = approval[a]
  PROVE  Alone'
<1> SUFFICES ASSUME ~scene.overlap
             PROVE  /\ \A q, s \in Process : pc'[q].at \in Holding /\ pc'[s].at \in Holding => q = s
                    /\ \A q \in Process : pc'[q].approval # 0 =>
                         approval'[pc'[q].approval].status = Held(pc'[q].at)
  BY DEF Alone, Held
<1>1. \A q \in Process : pc'[q] = IF q = p THEN t ELSE pc[q]
  BY Known DEF Goes
<1>2. \A q, s \in Process : pc[q].at \in Holding /\ pc[s].at \in Holding => q = s
  BY DEF Alone
<1>3. ASSUME NEW q \in Process, pc[q].approval # 0
      PROVE  /\ approval[pc[q].approval].status = Held(pc[q].at)
             /\ pc[q].at \in Holding /\ pc[q].approval \in DOMAIN approval
  BY <1>3, Known DEF Alone, Held, Relies
<1>4. t.at \in Holding => \A q \in Process : pc[q].at \in Holding => q = p
  BY <1>2 DEF Enters, Calm, Holding
<1>5. ASSUME NEW q \in Process, q # p, pc[q].approval # 0
      PROVE  approval'[pc[q].approval].status = Held(pc[q].at)
  <2>1. pc[q].approval # pc[p].approval
    BY <1>2, <1>3, <1>5
  <2>2. QED
    BY <1>3, <1>5, <2>1
<1>6. QED
  BY <1>1, <1>2, <1>4, <1>5

\* A step that decides nothing: it keeps the approval it holds or lets go of it.
Keeps(p) ==
  /\ approval' = approval
  /\ \E t \in Row : /\ Goes(p, t) /\ Enters(p, t)
                    /\ \/ t.approval = 0
                       \/ /\ t.approval = pc[p].approval
                          /\ t.at \notin {"claim", "reject"} /\ pc[p].at \notin {"claim", "reject"}

LEMMA KeptAlone ==
  ASSUME FlowInv, Alone, UNCHANGED scene, NEW p \in Process, Keeps(p)
  PROVE  Alone'
<1>1. PICK t \in Row : /\ Goes(p, t) /\ Enters(p, t)
                       /\ \/ t.approval = 0
                          \/ /\ t.approval = pc[p].approval /\ t.at \notin {"claim", "reject"}
                             /\ pc[p].at \notin {"claim", "reject"}
  BY DEF Keeps
<1>2. ~scene.overlap /\ t.approval # 0 => approval'[t.approval].status = Held(t.at)
  BY <1>1 DEF Keeps, Alone, Held
<1>3. QED
  BY <1>1, <1>2, AloneMoves DEF Keeps

LEMMA EndKeeps ==
  ASSUME NEW p \in Process, End(p), approval' = approval
  PROVE  Keeps(p)
BY IdleRelies DEF End, Keeps, Enters, Holding

LEMMA GotoKeeps ==
  ASSUME NEW p \in Process, pc \in [Process -> Row], NEW place \in Places \ {"claim", "reject"},
         Goto(p, place), approval' = approval, pc[p].at \notin {"claim", "reject"},
         place \in Holding => pc[p].at \in Holding
  PROVE  Keeps(p)
BY Went DEF Keeps, Enters

LEMMA ReturnKeeps ==
  ASSUME NEW p \in Process, pc \in [Process -> Row], NEW ok \in BOOLEAN, Returns(p, ok),
         approval' = approval, pc[p].at \notin {"claim", "reject"}, pc[p].at \in Holding
  PROVE  Keeps(p)
<1>1. CASE pc[p].approval = 0
  BY <1>1, EndKeeps DEF Returns
<1>2. CASE pc[p].approval # 0
  <2> DEFINE t == [pc[p] EXCEPT !.at = "settle", !.ok = ok]
  <2>1. t \in Row /\ t.at = "settle" /\ t.approval = pc[p].approval
    <3>1. pc[p] \in Row /\ "settle" \in Places
      BY DEF Places
    <3>2. QED
      BY <3>1 DEF Row
  <2>2. Goes(p, t)
    BY <1>2 DEF Returns
  <2> HIDE DEF t
  <2>3. QED
    BY <2>1, <2>2 DEF Keeps, Enters
<1>3. QED
  BY <1>1, <1>2

LEMMA ContinueKeeps ==
  ASSUME FlowInv, NEW p \in Process, Continue(p),
         ~(RequestCreate(p) \/ Claim(p) \/ Settle(p) \/ Reject(p))
  PROVE  Keeps(p)
<1> USE DEF At
<1>0. pc[p] \in Row /\ pc \in [Process -> Row] /\ RowsOK
  BY Known
<1>1. CASE StartCreate(p)
  <2>1. Len(run) + 1 \in Nat /\ "mark" \in Places
    BY <1>0 DEF RowsOK, Places
  <2>2. QED
    BY <1>1, <2>1, OnRunRow DEF StartCreate, Keeps, Enters, Holding
<1>2. CASE StartMark(p) \/ StartWorkspace(p) \/ StartFailed(p) \/ PromptEnds(p)
  BY <1>0, <1>2, EndKeeps, GotoKeeps
     DEF StartMark, StartWorkspace, StartFailed, PromptEnds, Places, Holding
<1>3. CASE StartInit(p)
  <2>1. CASE Goto(p, "startFailed")
    BY <1>0, <1>3, <2>1, GotoKeeps DEF StartInit, Places, Holding
  <2>2. CASE Goes(p, [pc[p] EXCEPT !.at = "prompt", !.fails = TRUE])
    <3> DEFINE t == [pc[p] EXCEPT !.at = "prompt", !.fails = TRUE]
    <3>1. t \in Row /\ t.at = "prompt" /\ t.approval = pc[p].approval
      BY <1>0 DEF Row, Places
    <3>2. Goes(p, t) /\ approval' = approval /\ pc[p].at = "init"
      BY <1>3, <2>2 DEF StartInit
    <3> HIDE DEF t
    <3>3. QED
      BY <3>1, <3>2 DEF Keeps, Enters, Holding
  <2>3. QED
    BY <1>3, <2>1, <2>2 DEF StartInit
<1>4. CASE FinalizeRead(p) \/ FinalizeRun(p) \/ FinalizeIssue(p)
  BY <1>0, <1>4, EndKeeps, GotoKeeps DEF FinalizeRead, FinalizeRun, FinalizeIssue, Places, Holding
<1>5. CASE InitFailed(p) \/ InitFailedRun(p) \/ InitFailedIssue(p)
  BY <1>0, <1>5, EndKeeps, GotoKeeps
     DEF InitFailed, InitFailedRun, InitFailedIssue, Places, Holding
<1>6. CASE CancelIssue(p) \/ CompleteIssue(p) \/ CiEnd(p)
  BY <1>6, EndKeeps DEF CancelIssue, CompleteIssue, CiEnd
<1>7. CASE RequestCheck(p)
  BY <1>0, <1>7, EndKeeps, GotoKeeps DEF RequestCheck, Places, Holding
<1>8. CASE CreateRead(p)
  <2>1. /\ approval' = approval /\ pc[p].at = "pr"
        /\ Returns(p, TRUE) \/ Returns(p, FALSE) \/ Goto(p, "push")
    BY <1>8 DEF CreateRead
  <2>2. QED
    BY <1>0, <2>1, ReturnKeeps, GotoKeeps DEF Places, Holding
<1>9. CASE CreateCall(p)
  <2>1. /\ approval' = approval /\ pc[p].at = "push"
        /\ \/ Returns(p, FALSE)
           \/ Goes(p, [pc[p] EXCEPT !.at = "record", !.pr = Len(pr) + 1])
    BY <1>9 DEF CreateCall
  <2>2. CASE Returns(p, FALSE)
    BY <1>0, <2>1, <2>2, ReturnKeeps DEF Holding
  <2>3. CASE Goes(p, [pc[p] EXCEPT !.at = "record", !.pr = Len(pr) + 1])
    <3> DEFINE t == [pc[p] EXCEPT !.at = "record", !.pr = Len(pr) + 1]
    <3>1. Len(pr) + 1 \in Nat
      BY <1>0 DEF RowsOK
    <3>2. t \in Row /\ t.at = "record" /\ t.approval = pc[p].approval
      BY <1>0, <3>1 DEF Row, Places
    <3>3. Goes(p, t)
      BY <2>3
    <3> HIDE DEF t
    <3>4. QED
      BY <2>1, <3>2, <3>3 DEF Keeps, Enters, Holding
  <2>4. QED
    BY <2>1, <2>2, <2>3
<1>10. CASE CreateRecord(p) \/ MergedWrite(p)
  BY <1>0, <1>10, ReturnKeeps DEF CreateRecord, MergedWrite, Holding
<1>11. CASE MergeRead(p)
  <2> DEFINE n == run[pc[p].run].pr
  <2>1. n \in Nat
    <3>1. pc[p].run \in Runs
      BY <1>11, Known DEF MergeRead, Relies, Runless
    <3>2. run[pc[p].run] \in RunRows(Len(pr))
      BY <1>0, <3>1 DEF RowsOK, Runs
    <3>3. QED
      BY <3>2 DEF RunRows
  <2>2. /\ approval' = approval /\ pc[p].at = "merge"
        /\ Returns(p, FALSE) \/ Goes(p, [pc[p] EXCEPT !.at = "call", !.pr = n])
    BY <1>11 DEF MergeRead
  <2> HIDE DEF n
  <2>3. CASE Returns(p, FALSE)
    BY <1>0, <2>2, <2>3, ReturnKeeps DEF Holding
  <2>4. CASE Goes(p, [pc[p] EXCEPT !.at = "call", !.pr = n])
    <3> DEFINE t == [pc[p] EXCEPT !.at = "call", !.pr = n]
    <3>1. t \in Row /\ t.at = "call" /\ t.approval = pc[p].approval
      BY <1>0, <2>1 DEF Row, Places
    <3>2. Goes(p, t)
      BY <2>4
    <3> HIDE DEF t
    <3>3. QED
      BY <2>2, <3>1, <3>2 DEF Keeps, Enters, Holding
  <2>5. QED
    BY <2>2, <2>3, <2>4
<1>12. CASE MergeCall(p)
  <2>1. PICK state \in {"open", "merged"} :
          /\ approval' = approval /\ pc[p].at = "call"
          /\ Returns(p, FALSE) \/ Goes(p, [pc[p] EXCEPT !.at = "write", !.seen = state])
    BY <1>12 DEF MergeCall
  <2>2. CASE Returns(p, FALSE)
    BY <1>0, <2>1, <2>2, ReturnKeeps DEF Holding
  <2>3. CASE Goes(p, [pc[p] EXCEPT !.at = "write", !.seen = state])
    <3> DEFINE t == [pc[p] EXCEPT !.at = "write", !.seen = state]
    <3>1. t \in Row /\ t.at = "write" /\ t.approval = pc[p].approval
      BY <1>0 DEF Row, Places, PrState
    <3>2. Goes(p, t)
      BY <2>3
    <3> HIDE DEF t
    <3>3. QED
      BY <2>1, <3>1, <3>2 DEF Keeps, Enters, Holding
  <2>4. QED
    BY <2>1, <2>2, <2>3
<1>13. CASE StateWrite(p)
  BY <1>0, <1>13, ReturnKeeps, GotoKeeps DEF StateWrite, Places, Holding
<1>14. QED
  BY <1>1, <1>2, <1>3, <1>4, <1>5, <1>6, <1>7, <1>8, <1>9, <1>10, <1>11, <1>12, <1>13 DEF Continue

LEMMA DecidingAlone ==
  ASSUME FlowInv, Alone, UNCHANGED scene, NEW p \in Process,
         RequestCreate(p) \/ Claim(p) \/ Settle(p) \/ Reject(p)
  PROVE  Alone'
<1> USE DEF At
<1>0. pc[p] \in Row /\ pc \in [Process -> Row] /\ RowsOK /\ Relies(pc[p])
  BY Known
<1>1. CASE RequestCreate(p)
  <2>1. \E x : approval' = Append(approval, x)
    BY <1>1 DEF RequestCreate
  <2>2. \A a \in DOMAIN approval : approval'[a] = approval[a]
    BY <1>0, <2>1, Appended DEF RowsOK
  <2>3. QED
    BY <1>1, <2>2, IdleRelies, AloneMoves DEF RequestCreate, End, Enters, Holding
<1>2. CASE Settle(p) \/ Reject(p)
  <2>1. \A a \in DOMAIN approval : a # pc[p].approval => approval'[a] = approval[a]
    BY <1>2 DEF Settle, Reject, SetApproval
  <2>2. QED
    BY <1>2, <2>1, IdleRelies, AloneMoves DEF Settle, Reject, End, Enters, Holding
<1>3. CASE Claim(p)
  <2>1. pc[p].at = "claim" /\ SetApproval(pc[p].approval, "executing")
        /\ \E place \in {"merge", "pr"} : Goto(p, place)
    BY <1>3 DEF Claim
  <2>2. PICK place \in {"merge", "pr"} : Goto(p, place)
    BY <2>1
  <2>3. PICK t \in Row : Goes(p, t) /\ t.at = place /\ t.approval = pc[p].approval
    BY <1>0, <2>2, Went DEF Places
  <2>4. pc[p].approval \in DOMAIN approval
    BY <1>0, <2>1 DEF Relies
  <2>5. approval'[t.approval].status = "executing"
    <3>1. approval[pc[p].approval] \in ApprovalRows(Runs)
      BY <1>0, <2>4 DEF RowsOK
    <3>2. QED
      BY <2>1, <2>3, <2>4, <3>1 DEF SetApproval, ApprovalRows
  <2>6. \A a \in DOMAIN approval : a # pc[p].approval => approval'[a] = approval[a]
    BY <2>1 DEF SetApproval
  <2>7. QED
    BY <2>1, <2>2, <2>3, <2>5, <2>6, AloneMoves DEF Enters, Held, Holding
<1>4. QED
  BY <1>1, <1>2, <1>3

LEMMA ArriveAlone ==
  ASSUME FlowInv, Alone, UNCHANGED scene, NEW p \in Handlers, Arrive(p)
  PROVE  Alone'
<1>0. p \in Process /\ pc \in [Process -> Row] /\ RowsOK
  BY Known DEF Process
<1>1. approval' = approval /\ Calm
  BY DEF Arrive, StartRoute, ReopenHook, Cancel, Complete, CreatePrRoute, MergePrRoute, SyncRead,
         Resume, InitResult, CiHook, ApproveRead, RejectRead, Begin, Free
<1>2. ASSUME NEW t, Goes(p, t), t.approval = 0
      PROVE  Alone'
  BY <1>0, <1>1, <1>2, AloneMoves DEF Enters
<1>i. pc[p].at = "idle" /\ pc[p].approval = 0
  <2>1. pc[p].at = "idle"
    BY DEF Arrive, StartRoute, ReopenHook, Cancel, Complete, CreatePrRoute, MergePrRoute, SyncRead,
           Resume, InitResult, CiHook, ApproveRead, RejectRead, Begin, Free, At
  <2>2. QED
    BY <1>0, <2>1, Known DEF Relies, Holding
<1>3. ASSUME NEW place \in Places, Goto(p, place)
      PROVE  Alone'
  BY <1>0, <1>2, <1>3, <1>i, Went
<1>4. CASE ReopenHook(p)
  BY <1>1, <1>4 DEF ReopenHook, Alone
<1>5. CASE StartRoute(p)
  BY <1>3, <1>5 DEF StartRoute, Places
<1>6. ASSUME NEW r \in Runs,
             \/ Cancel(p, r) \/ Complete(p, r) \/ CreatePrRoute(p, r) \/ MergePrRoute(p, r)
             \/ SyncRead(p, r) \/ Resume(p, r) \/ InitResult(p, r)
             \/ \E passed \in BOOLEAN : CiHook(p, r, passed)
      PROVE  Alone'
  <2>1. CASE Cancel(p, r) \/ Complete(p, r)
    BY <1>3, <2>1 DEF Cancel, Complete, Places
  <2>2. CASE CreatePrRoute(p, r)
    BY <1>2, <2>2 DEF CreatePrRoute, OnRun, IdleRow
  <2>3. CASE MergePrRoute(p, r)
    BY <1>2, <2>3 DEF MergePrRoute, OnRun, IdleRow
  <2>4. CASE SyncRead(p, r)
    BY <1>2, <2>4 DEF SyncRead, OnRun, IdleRow
  <2>5. CASE Resume(p, r) \/ InitResult(p, r)
    BY <1>2, <2>5 DEF Resume, InitResult, OnRun, IdleRow
  <2>6. ASSUME NEW passed \in BOOLEAN, CiHook(p, r, passed)
        PROVE  Alone'
    BY <1>2, <2>6 DEF CiHook, OnRun, IdleRow
  <2>7. QED
    BY <1>6, <2>1, <2>2, <2>3, <2>4, <2>5, <2>6
<1>7. ASSUME NEW a \in DOMAIN approval, ApproveRead(p, a) \/ RejectRead(p, a)
      PROVE  Alone'
  <2>1. PICK place \in {"claim", "reject"} :
          approval[a].status = "pending"
          /\ Goes(p, [OnRun(place, approval[a].run) EXCEPT !.approval = a])
    BY <1>7 DEF ApproveRead, RejectRead
  <2> DEFINE t == [OnRun(place, approval[a].run) EXCEPT !.approval = a]
  <2>2. t.at = place /\ t.approval = a
    BY DEF OnRun, IdleRow
  <2>3. Goes(p, t)
    BY <2>1
  <2> HIDE DEF t
  <2>4. approval'[t.approval].status = Held(t.at)
    BY <1>1, <2>1, <2>2 DEF Held
  <2>5. QED
    BY <1>0, <1>1, <2>3, <2>4, AloneMoves DEF Enters
<1>8. QED
  BY <1>4, <1>5, <1>6, <1>7 DEF Arrive

LEMMA AloneStep ==
  ASSUME FlowInv, Alone, [Next]_vars
  PROVE  Alone'
<1>0. pc \in [Process -> Row] /\ {Pm, Starter} \subseteq Process
  BY DEF FlowInv, TypeOK, Process
<1>1. CASE UNCHANGED vars
  BY <1>1 DEF vars, Alone
<1>2. ASSUME UNCHANGED scene, NEW p \in Process, Continue(p)
      PROVE  Alone'
  BY <1>2, ContinueKeeps, KeptAlone, DecidingAlone
<1>3. ASSUME UNCHANGED scene, NEW p \in Handlers, Arrive(p)
      PROVE  Alone'
  BY <1>3, ArriveAlone
<1>s. UNCHANGED <<scene, approval, pc>> => Alone'
  BY DEF Alone
<1>4. ASSUME UNCHANGED scene, Queues
      PROVE  Alone'
  <2>1. CASE Dispatch
    <3>1. approval' = approval /\ pc[Starter].at = "idle"
          /\ (UNCHANGED pc \/ Goto(Starter, "check"))
      BY <2>1 DEF Dispatch, Free, At
    <3>2. QED
      BY <1>0, <1>4, <1>s, <3>1, GotoKeeps, KeptAlone DEF Places, Holding
  <2>2. CASE Analyzed
    <3>1. approval' = approval /\ pc[Starter].at = "check"
          /\ (End(Starter) \/ Goto(Starter, "create"))
      BY <2>2 DEF Analyzed, At
    <3>2. QED
      BY <1>0, <1>4, <3>1, EndKeeps, GotoKeeps, KeptAlone DEF Places, Holding
  <2>3. CASE PmAdvance
    <3>1. approval' = approval /\ Calm
      BY <2>3 DEF PmAdvance, Free
    <3>2. CASE UNCHANGED pc
      BY <1>4, <1>s, <3>1, <3>2
    <3>3. ASSUME NEW t, Goes(Pm, t), t.approval = 0
          PROVE  Alone'
      BY <1>0, <1>4, <3>1, <3>3, AloneMoves DEF Enters
    <3>4. \/ UNCHANGED pc
          \/ \E place, r : Goes(Pm, OnRun(place, r))
          \/ \E place, r : Goes(Pm, [OnRun(place, r) EXCEPT !.action = "merge_pr"])
      BY <2>3 DEF PmAdvance
    <3>5. ASSUME NEW place, NEW r, Goes(Pm, OnRun(place, r))
          PROVE  Alone'
      BY <3>3, <3>5 DEF OnRun, IdleRow
    <3>6. ASSUME NEW place, NEW r, Goes(Pm, [OnRun(place, r) EXCEPT !.action = "merge_pr"])
          PROVE  Alone'
      BY <3>3, <3>6 DEF OnRun, IdleRow
    <3>7. QED
      BY <3>2, <3>4, <3>5, <3>6
  <2>4. QED
    BY <1>4, <2>1, <2>2, <2>3 DEF Queues
<1>5. ASSUME UNCHANGED scene, Happens
      PROVE  Alone'
  <2>1. CASE Crash
    BY <2>1, IdleRelies DEF Crash, Alone, Holding
  <2>2. CASE ~Crash
    BY <1>5, <1>s, <2>2 DEF Happens, ByHand
  <2>3. QED
    BY <2>1, <2>2
<1>6. QED
  BY <1>1, <1>2, <1>3, <1>4, <1>5 DEF Next

\* Without overlap an approval that has been executed, has failed or was rejected keeps
\* its row for ever: no later read-then-write of it finds a stale status (approvals.ts:77).
THEOREM DecisionFinalHolds == Spec => DecisionFinal
<1> DEFINE Final == \A a \in DOMAIN approval : ~Open(a) /\ ~scene.overlap =>
                      approval'[a] = approval[a]
<1>1. Init => FlowInv /\ Alone
  <2> SUFFICES ASSUME Init
               PROVE  FlowInv /\ Alone
    OBVIOUS
  <2>1. FlowInv /\ pc = [p \in Process |-> IdleRow]
    BY FlowInit DEF Init
  <2>2. QED
    BY <2>1, IdleRelies DEF Alone, Holding
<1>2. FlowInv /\ Alone /\ [Next]_vars => FlowInv' /\ Alone'
  BY FlowStep, AloneStep
<1>3. FlowInv /\ Alone /\ [Next]_vars => [Final]_vars
  <2> SUFFICES ASSUME FlowInv, Alone, Next, NEW a \in DOMAIN approval, ~Open(a), ~scene.overlap
               PROVE  approval'[a] = approval[a]
    OBVIOUS
  <2>1. RowsOK
    BY Known DEF Process
  <2>2. ASSUME NEW p \in Process, Continue(p)
        PROVE  approval'[a] = approval[a]
    <3>1. CASE RequestCreate(p)
      <4>1. \E x : approval' = Append(approval, x)
        BY <3>1 DEF RequestCreate
      <4>2. QED
        BY <2>1, <4>1, Appended DEF RowsOK
    <3>2. CASE Claim(p) \/ Settle(p) \/ Reject(p)
      <4>1. pc[p].at \in {"claim", "settle", "reject"} /\ Relies(pc[p])
        BY <3>2, Known DEF Claim, Settle, Reject, At
      <4>2. Open(pc[p].approval)
        BY <4>1 DEF Alone, Relies, Open
      <4>3. \E s : SetApproval(pc[p].approval, s)
        BY <3>2 DEF Claim, Settle, Reject
      <4>4. QED
        BY <4>2, <4>3 DEF SetApproval
    <3>3. CASE ~(RequestCreate(p) \/ Claim(p) \/ Settle(p) \/ Reject(p))
      BY <2>2, <3>3, ContinueKeeps DEF Keeps
    <3>4. QED
      BY <3>1, <3>2, <3>3
  <2>3. ASSUME NEW p \in Handlers, Arrive(p)
        PROVE  approval'[a] = approval[a]
    BY <2>3 DEF Arrive, StartRoute, ReopenHook, Cancel, Complete, CreatePrRoute, MergePrRoute,
                SyncRead, Resume, InitResult, CiHook, ApproveRead, RejectRead
  <2>4. CASE Queues \/ Happens
    BY <2>4 DEF Queues, Dispatch, Analyzed, PmAdvance, Happens, Crash, ByHand
  <2>5. QED
    BY <2>2, <2>3, <2>4 DEF Next
<1>4. QED
  BY <1>1, <1>2, <1>3, PTL DEF Spec, DecisionFinal

-----------------------------------------------------------------------------
(* GitHub I, with its clock behind by b and the pull requests L; the rows R, *)
(* the recorded pull requests D, the cursor c, the time t, the loop P.       *)

Sayings  == [item : Nat, version : Nat, stamp : Int, open : BOOLEAN]
ItemRecs == [version : Nat, changed : Nat, open : BOOLEAN]
RowRecs  == [version : Nat, newest : Nat, status : {"pending", "ended"}, task : BOOLEAN]
HandRecs == [at : {"idle", "hook", "create", "import"}, said : Sayings, reopens : BOOLEAN]
Mails    == [said : Sayings, action : {"opened", "reopened", "other"}]
PollRecs == [at : {"idle", "timer", "list", "each", "run", "write", "task", "end"},
             list : {"issues", "pulls"}, now : Nat, since : Nat, page : Nat \ {0},
             todo : Seq(Sayings), full : BOOLEAN, found : Nat, ended : BOOLEAN]

SyncTypes ==
  /\ setup \in SyncScenes /\ clock \in Nat /\ cursor \in Nat /\ poll \in PollRecs
  /\ item \in [Items -> ItemRecs] /\ row \in [Items -> RowRecs] /\ recorded \subseteq Items
  /\ hand \in [Hands -> HandRecs] /\ mail \subseteq Mails

\* What is said of an item was once so.
Told(I, said) == said.item \in Items /\ said.version >= 1 /\ said.version <= I[said.item].version

Sane(I, R, t) ==
  \A i \in Items : I[i].changed <= t /\ R[i].version <= R[i].newest /\ R[i].newest <= I[i].version

Blank(R) == \A i \in Items : R[i].version = 0 => R[i].newest = 0

\* The row has said what the item says now.
Dealt(I, R, i) == R[i].version > 0 /\ R[i].newest = I[i].version

\* An item that wants a row and has last changed before n.
Seen(I, D, n, i) == I[i].version > 0 /\ I[i].changed < n /\ i \notin D

Kept(I, R, D, c) == \A i \in Items : Seen(I, D, c, i) => Dealt(I, R, i)

\* The lists, as in the model.
In(I, b, L, list, since) ==
  IF list = "issues" THEN {i \in Items : I[i].version > 0 /\ (since = 0 \/ I[i].changed - b >= since)}
  ELSE {i \in L : I[i].version > 0}
Before(I, b, list, j, i) ==
  IF list = "issues" THEN j > i
  ELSE I[j].changed - b > I[i].changed - b \/ (I[j].changed - b = I[i].changed - b /\ j > i)
Foregoers(I, b, L, list, since, i) == {j \in In(I, b, L, list, since) : Before(I, b, list, j, i)}
PlaceIn(I, b, L, list, since, i) == Cardinality(Foregoers(I, b, L, list, since, i))

\* What is still to be done with a page is so, or has changed since the sync began.
TodoOK(I, b, P) ==
  \A k \in DOMAIN P.todo :
    LET i == P.todo[k].item
    IN /\ Told(I, P.todo[k])
       /\ I[i].changed < P.now => P.todo[k].version = I[i].version /\ P.todo[k].stamp = I[i].changed - b

\* The page has the pull requests in their order.
Sorted(P) ==
  P.list = "pulls" => \A k, l \in DOMAIN P.todo : k < l => P.todo[l].stamp <= P.todo[k].stamp

\* Item i is on a page still to be read: from the n-th place on.
FromPlace(I, b, L, P, n, i) ==
  /\ i \in In(I, b, L, P.list, P.since)
  /\ PlaceIn(I, b, L, P.list, P.since, i) >= n

Behind(I, b, L, P, i) ==
  /\ P.full /\ P.page < MaxPages
  /\ FromPlace(I, b, L, P, P.page * PageSize, i)
  /\ P.list = "pulls" => \A k \in DOMAIN P.todo : I[i].changed - b <= P.todo[k].stamp

InTodo(P, first, i) == \E k \in DOMAIN P.todo : k >= first /\ P.todo[k].item = i

\* Pull requests have their list, which comes last.
Later(L, P, i) == P.list = "issues" /\ i \in L
Now(L, P, i)   == P.list = "pulls" <=> i \in L

Awaited(I, b, L, P, i) ==
  CASE P.at = "list" -> Later(L, P, i) \/ (Now(L, P, i) /\ FromPlace(I, b, L, P, (P.page - 1) * PageSize, i))
    [] P.at = "end"  -> FALSE
    [] OTHER -> Later(L, P, i) \/ (Now(L, P, i) /\ ( \/ InTodo(P, IF P.at = "task" THEN 2 ELSE 1, i)
                                                     \/ Behind(I, b, L, P, i)))

Paged == {"each", "run", "write", "task"}
Busy  == {"list", "end"} \cup Paged

Timed(c, t, P) ==
  /\ P.at \in Busy => c <= P.now /\ P.now <= t /\ P.page <= MaxPages
  /\ P.at # "idle" => P.since = 0 \/ P.since + Overlap <= c
  /\ P.at = "timer" => P.list = "issues" /\ P.page = 1 /\ P.todo = <<>>

Holds(R, D, P) ==
  /\ P.at \in Paged => P.todo # <<>>
  /\ P.at = "run" => P.todo[1].item \in D
  /\ P.at = "write" /\ P.found # 0 => LET r == R[P.todo[1].item] IN r.version > 0 /\ P.found <= r.newest

Pending(I, R, D, b, L, P) ==
  \A i \in Items : Seen(I, D, P.now, i) => Dealt(I, R, i) \/ Awaited(I, b, L, P, i)

PollOK(I, R, D, c, t, b, L, P) ==
  /\ Timed(c, t, P) /\ Holds(R, D, P)
  /\ P.at \in Busy => TodoOK(I, b, P) /\ Sorted(P) /\ Pending(I, R, D, b, L, P)

TellsSo(I, H, M) ==
  /\ \A m \in M : Told(I, m.said)
  /\ \A h \in Hands : H[h].at # "idle" => Told(I, H[h].said)

SyncInv ==
  /\ SyncTypes
  /\ Sane(item, row, clock) /\ Blank(row) /\ cursor <= clock /\ TellsSo(item, hand, mail)
  /\ Kept(item, row, recorded, cursor)
  /\ PollOK(item, row, recorded, cursor, clock, setup.behind, setup.pulls, poll)

-----------------------------------------------------------------------------
(* The lists and their pages                                                 *)

LEMMA SequenceIs ==
  ASSUME NEW S, NEW s \in Seq(S)
  PROVE  Len(s) \in Nat /\ DOMAIN s = 1 .. Len(s) /\ \A k \in DOMAIN s : s[k] \in S
BY LenProperties, ElementOfSeq

Arranged(S, A) == [n \in 1 .. Cardinality(S) |-> CHOOSE i \in S : Cardinality(A[i]) = n - 1]

InPlace(S, A, q) ==
  /\ Cardinality(S) \in Nat /\ q \in Seq(S) /\ Len(q) = Cardinality(S)
  /\ \A i \in S : /\ Cardinality(A[i]) \in Nat /\ Cardinality(A[i]) < Cardinality(S)
                  /\ q[Cardinality(A[i]) + 1] = i
  /\ \A n \in 1 .. Cardinality(S) : q[n] \in S /\ Cardinality(A[q[n]]) = n - 1
  /\ \A i, j \in S : Cardinality(A[i]) < Cardinality(A[j]) => i \in A[j]

\* A set in the order in which each element has A of it before it.
LEMMA ByPlace ==
  ASSUME NEW S, IsFiniteSet(S), NEW A \in [S -> SUBSET S],
         \A i \in S : i \notin A[i],
         \A i, j \in S : i \in A[j] => A[i] \subseteq A[j],
         \A i, j \in S : i # j => i \in A[j] \/ j \in A[i],
         NEW q, q = Arranged(S, A)
  PROVE  InPlace(S, A, q)
<1> DEFINE N == Cardinality(S)
           rank == [k \in S |-> Cardinality(A[k]) + 1]
<1>1. N \in Nat
  BY FS_CardinalityType
<1>2. ASSUME NEW k \in S
      PROVE  IsFiniteSet(A[k]) /\ Cardinality(A[k]) \in Nat /\ rank[k] \in 1 .. N
  <2>1. IsFiniteSet(S \ {k}) /\ Cardinality(S \ {k}) = N - 1
    BY FS_RemoveElement
  <2>2. A[k] \in SUBSET (S \ {k})
    OBVIOUS
  <2>3. IsFiniteSet(A[k]) /\ Cardinality(A[k]) <= Cardinality(S \ {k})
    BY <2>1, <2>2, FS_Subset
  <2>4. Cardinality(A[k]) \in Nat
    BY <2>3, FS_CardinalityType
  <2>5. QED
    BY <1>1, <2>1, <2>3, <2>4
<1>3. ASSUME NEW k \in S, NEW l \in S, k \in A[l]
      PROVE  rank[k] < rank[l]
  <2>1. IsFiniteSet(A[k]) /\ Cardinality(A[k]) \in Nat /\ IsFiniteSet(A[l]) /\ Cardinality(A[l]) \in Nat
    BY <1>2
  <2>2. Cardinality(A[k] \cup {k}) = Cardinality(A[k]) + 1
    <3>1. k \notin A[k]
      OBVIOUS
    <3>2. QED
      BY <2>1, <3>1, FS_AddElement
  <2>3. A[k] \cup {k} \in SUBSET A[l]
    BY <1>3
  <2>4. Cardinality(A[k] \cup {k}) <= Cardinality(A[l])
    BY <2>1, <2>3, FS_Subset
  <2>5. QED
    BY <2>1, <2>2, <2>4
<1>4. ASSUME NEW k \in S, NEW l \in S, rank[k] = rank[l]
      PROVE  k = l
  <2>1. rank[k] \in Int /\ rank[l] \in Int
    BY <1>1, <1>2
  <2>2. k # l => k \in A[l] \/ l \in A[k]
    OBVIOUS
  <2> HIDE DEF rank
  <2>3. QED
    BY <1>3, <1>4, <2>1, <2>2
<1>5. rank \in Injection(S, 1 .. N)
  <2>1. rank \in [S -> 1 .. N]
    BY <1>2
  <2> HIDE DEF rank
  <2>2. QED
    BY <1>4, <2>1 DEF Injection, IsInjective
<1>6. Cardinality(1 .. N) = N /\ IsFiniteSet(1 .. N)
  BY <1>1, FS_Interval
<1>7. rank \in Surjection(S, 1 .. N)
  BY <1>5, <1>6, FS_Injection
<1>8. ASSUME NEW n \in 1 .. N
      PROVE  q[n] \in S /\ rank[q[n]] = n /\ Cardinality(A[q[n]]) = n - 1
  <2>1. PICK k \in S : rank[k] = n
    BY <1>7 DEF Surjection
  <2>2. Cardinality(A[k]) = n - 1
    <3>1. Cardinality(A[k]) + 1 = n /\ Cardinality(A[k]) \in Nat
      BY <1>2, <2>1
    <3>2. QED
      BY <3>1
  <2>3. q[n] \in S /\ Cardinality(A[q[n]]) = n - 1
    BY <2>2 DEF Arranged
  <2>4. QED
    BY <1>1, <2>3
<1>9. DOMAIN q = 1 .. N /\ q \in [1 .. N -> S]
  <2> DEFINE e(n) == CHOOSE i \in S : Cardinality(A[i]) = n - 1
  <2>1. q = [n \in 1 .. N |-> e(n)]
    BY DEF Arranged
  <2> HIDE DEF e, N, rank
  <2>2. \A n \in 1 .. N : e(n) \in S
    <3>1. \A n \in 1 .. N : q[n] \in S
      BY <1>8
    <3>2. QED
      BY <2>1, <3>1
  <2>3. QED
    BY <2>1, <2>2
<1>10. ASSUME NEW i \in S
       PROVE  Cardinality(A[i]) < N /\ q[Cardinality(A[i]) + 1] = i
  <2>1. rank[i] \in 1 .. N /\ rank[i] = Cardinality(A[i]) + 1 /\ Cardinality(A[i]) \in Nat
    BY <1>2
  <2>2. q[rank[i]] \in S /\ rank[q[rank[i]]] = rank[i]
    BY <1>8, <2>1
  <2> HIDE DEF rank, N
  <2>3. q[rank[i]] = i
    BY <1>4, <2>2
  <2>4. QED
    BY <1>1, <2>1, <2>3
<1>11. q \in Seq(S) /\ Len(q) = N
  <2> HIDE DEF N, rank
  <2>1. q \in Seq(S)
    BY <1>1, <1>9
  <2>2. QED
    BY <1>1, <1>9, <2>1, LenProperties
<1>12. ASSUME NEW i \in S, NEW j \in S, Cardinality(A[i]) < Cardinality(A[j])
       PROVE  i \in A[j]
  <2>1. Cardinality(A[i]) \in Nat /\ Cardinality(A[j]) \in Nat /\ i # j
    BY <1>2, <1>12
  <2>2. j \in A[i] => rank[j] < rank[i]
    BY <1>3
  <2>3. ~(j \in A[i])
    BY <1>12, <2>1, <2>2
  <2>4. QED
    BY <2>1, <2>3
<1>13. QED
  BY <1>1, <1>2, <1>8, <1>10, <1>11, <1>12 DEF InPlace

LEMMA WhereListed ==
  ASSUME NEW I \in [Items -> ItemRecs], NEW b \in Int, NEW L \in SUBSET Items,
         NEW list \in {"issues", "pulls"}, NEW since
  PROVE  LET S == In(I, b, L, list, since)
         IN  /\ S \in SUBSET Items /\ IsFiniteSet(S)
             /\ Cardinality(S) \in Nat /\ Cardinality(S) <= Cardinality(Items)
             /\ Cardinality(Items) \in Nat
<1>1. In(I, b, L, list, since) \in SUBSET Items
  BY DEF In
<1>2. IsFiniteSet(Items)
  BY ItemsAreNumbered
<1>3. QED
  BY <1>1, <1>2, FS_Subset, FS_CardinalityType

LEMMA ItemsAreInts == \A i \in Items : i \in Nat /\ i >= 1
<1>1. Cardinality(Items) \in Nat
  BY ItemsAreNumbered, FS_CardinalityType
<1>2. QED
  BY <1>1, ItemsAreNumbered

PlacesIn(I, b, L, list, since) ==
  [i \in In(I, b, L, list, since) |-> PlaceIn(I, b, L, list, since, i)]

\* The sequence q has the set S, each element at its place.
Ranked(I, b, list, S, place, q) ==
  /\ Cardinality(S) \in Nat /\ q \in Seq(S) /\ Len(q) = Cardinality(S)
  /\ \A i \in S : place[i] \in Nat /\ place[i] < Cardinality(S) /\ q[place[i] + 1] = i
  /\ \A n \in 1 .. Cardinality(S) : q[n] \in S /\ place[q[n]] = n - 1
  /\ \A i, j \in S : place[i] < place[j] => Before(I, b, list, i, j)

LEMMA ListedIs ==
  ASSUME item \in [Items -> ItemRecs], setup.behind \in Int, setup.pulls \in SUBSET Items,
         NEW list \in {"issues", "pulls"}, NEW since
  PROVE  Ranked(item, setup.behind, list, In(item, setup.behind, setup.pulls, list, since),
                PlacesIn(item, setup.behind, setup.pulls, list, since), Listed(list, since))
<1> DEFINE S == In(item, setup.behind, setup.pulls, list, since)
           place == PlacesIn(item, setup.behind, setup.pulls, list, since)
<1>p. \A i \in S : place[i] = PlaceIn(item, setup.behind, setup.pulls, list, since, i)
  BY DEF PlacesIn
<1>q. S = In(item, setup.behind, setup.pulls, list, since)
  OBVIOUS
<1> HIDE DEF S, place
<1> DEFINE A == [i \in S |-> Foregoers(item, setup.behind, setup.pulls, list, since, i)]
           q == Listed(list, since)
           stamp(i) == item[i].changed - setup.behind
<1>1. S \in SUBSET Items /\ IsFiniteSet(S)
  BY <1>q, WhereListed
<1>2. A \in [S -> SUBSET S] /\ \A i \in S : A[i] = {j \in S : Before(item, setup.behind, list, j, i)}
  BY <1>q DEF Foregoers
<1>3. InList(list, since) = S
  BY <1>q DEF InList, In, Exists, Stamp
<1>4. \A i \in S : Place(list, since, i) = Cardinality(A[i]) /\ place[i] = Cardinality(A[i])
  <2>1. ASSUME NEW i \in S
        PROVE  {j \in InList(list, since) : Ahead(list, j, i)} = A[i]
    BY <1>3, <1>q DEF Ahead, Stamp, Foregoers, Before
  <2>2. QED
    BY <1>p, <2>1 DEF Place, PlaceIn
<1>5. q = Arranged(S, A)
  <2>1. q = [n \in 1 .. Cardinality(S) |-> CHOOSE i \in S : Place(list, since, i) = n - 1]
    BY <1>3 DEF Listed
  <2>2. ASSUME NEW n
        PROVE  (CHOOSE i \in S : Place(list, since, i) = n - 1) = CHOOSE i \in S : Cardinality(A[i]) = n - 1
    BY <1>4
  <2>3. QED
    BY <2>1, <2>2 DEF Arranged
<1>6. \A i \in S : i \in Int /\ stamp(i) \in Int
  BY <1>1, ItemsAreInts DEF ItemRecs
<1>7. \A i, j \in S : i \in A[j] <=> IF list = "issues" THEN i > j
                                     ELSE stamp(i) > stamp(j) \/ (stamp(i) = stamp(j) /\ i > j)
  BY <1>2 DEF Before
<1> HIDE DEF A, stamp, q
<1>8. \A i \in S : i \notin A[i]
  BY <1>6, <1>7
<1>9. \A i, j \in S : i # j => i \in A[j] \/ j \in A[i]
  BY <1>6, <1>7
<1>10. ASSUME NEW i \in S, NEW j \in S, i \in A[j]
       PROVE  A[i] \subseteq A[j]
  <2>1. ASSUME NEW k \in A[i]
        PROVE  k \in A[j]
    <3>1. k \in S
      BY <1>2
    <3>2. QED
      BY <1>6, <1>7, <1>10, <2>1, <3>1
  <2>2. QED
    BY <2>1
<1>a. \A i, j \in S : i \in A[j] => A[i] \subseteq A[j]
  BY <1>10
<1>11. InPlace(S, A, q)
  BY <1>1, <1>2, <1>5, <1>8, <1>9, <1>a, ByPlace
<1>12. \A i \in S : place[i] = Cardinality(A[i])
  BY <1>4
<1>13. \A i, j \in S : i \in A[j] => Before(item, setup.behind, list, i, j)
  BY <1>2
<1>14. Cardinality(S) \in Nat /\ q \in Seq(S) /\ Len(q) = Cardinality(S)
  BY <1>11 DEF InPlace
<1>15. ASSUME NEW i \in S
       PROVE  place[i] \in Nat /\ place[i] < Cardinality(S) /\ q[place[i] + 1] = i
  BY <1>11, <1>12 DEF InPlace
<1>16. ASSUME NEW n \in 1 .. Cardinality(S)
       PROVE  q[n] \in S /\ place[q[n]] = n - 1
  BY <1>11, <1>12 DEF InPlace
<1>17. ASSUME NEW i \in S, NEW j \in S, place[i] < place[j]
       PROVE  Before(item, setup.behind, list, i, j)
  BY <1>11, <1>12, <1>13, <1>17 DEF InPlace
<1>18. QED
  BY <1>14, <1>15, <1>16, <1>17 DEF q, S, place, Ranked

LEMMA Between ==
  ASSUME NEW a \in Nat, NEW p \in Nat, NEW n \in Nat, p >= 1,
         NEW z, z = IF a + p < n THEN a + p ELSE n,
         NEW l, l = IF a + 1 <= z THEN z - (a + 1) + 1 ELSE 0
  PROVE  l = IF n <= a THEN 0 ELSE IF n >= a + p THEN p ELSE n - a
OBVIOUS

\* The n-th page of q: what is at a + 1 and the places that follow.
Cut(S, q, n, a, pg) ==
  /\ a \in Nat /\ n * PageSize = a + PageSize /\ PageSize \in Nat /\ PageSize >= 1
  /\ pg \in Seq(S)
  /\ Len(pg) = IF Len(q) <= a THEN 0 ELSE IF Len(q) >= a + PageSize THEN PageSize ELSE Len(q) - a
  /\ \A k \in 1 .. Len(pg) : a + k \in 1 .. Len(q) /\ pg[k] = q[a + k]

LEMMA PageIs ==
  ASSUME NEW S, NEW q \in Seq(S), NEW n \in Nat \ {0}
  PROVE  Cut(S, q, n, (n - 1) * PageSize, PageOf(q, n))
<1> DEFINE a == (n - 1) * PageSize
           pg == PageOf(q, n)
<1>1. PageSize \in Nat /\ PageSize >= 1
  BY SizesArePositive
<1>2. a \in Nat /\ n * PageSize = a + PageSize
  BY <1>1
<1>3. Len(q) \in Nat /\ DOMAIN q = 1 .. Len(q) /\ \A k \in 1 .. Len(q) : q[k] \in S
  BY SequenceIs
<1> DEFINE z == IF a + PageSize < Len(q) THEN a + PageSize ELSE Len(q)
<1>4. pg = SubSeq(q, a + 1, z)
  BY <1>2 DEF PageOf
<1>5. z \in Int /\ a + 1 \in Int /\ z <= Len(q) /\ \A k \in a + 1 .. z : q[k] \in S
  BY <1>1, <1>2, <1>3
<1>6. /\ pg \in Seq(S) /\ Len(pg) = (IF a + 1 <= z THEN z - (a + 1) + 1 ELSE 0)
      /\ \A k \in 1 .. z - (a + 1) + 1 : pg[k] = q[a + 1 + k - 1]
  BY <1>4, <1>5, SubSeqProperties
<1>z. z = IF a + PageSize < Len(q) THEN a + PageSize ELSE Len(q)
  OBVIOUS
<1> HIDE DEF z
<1>7. Len(pg) = IF Len(q) <= a THEN 0 ELSE IF Len(q) >= a + PageSize THEN PageSize ELSE Len(q) - a
  <2> DEFINE n0 == Len(q)
             l  == Len(pg)
             p  == PageSize
  <2>1. l = (IF a + 1 <= z THEN z - (a + 1) + 1 ELSE 0) /\ z = (IF a + p < n0 THEN a + p ELSE n0)
        /\ a \in Nat /\ p \in Nat /\ p >= 1 /\ n0 \in Nat
    BY <1>1, <1>2, <1>3, <1>6, <1>z
  <2> HIDE DEF n0, l, p
  <2>2. l = IF n0 <= a THEN 0 ELSE IF n0 >= a + p THEN p ELSE n0 - a
    BY <2>1, Between
  <2>3. QED
    BY <2>2 DEF n0, l, p
<1>8. ASSUME NEW k \in 1 .. Len(pg)
      PROVE  a + k \in 1 .. Len(q) /\ pg[k] = q[a + k]
  <2>1. k \in 1 .. z - (a + 1) + 1 /\ k \in Int
    BY <1>2, <1>5, <1>6
  <2>2. a + 1 + k - 1 = a + k
    BY <1>2, <2>1
  <2>3. a + k \in 1 .. Len(q)
    BY <1>2, <1>3, <1>5, <2>1
  <2>4. QED
    BY <1>6, <2>1, <2>2, <2>3
<1>9. QED
  BY <1>1, <1>2, <1>6, <1>7, <1>8 DEF Cut

-----------------------------------------------------------------------------
(* What changes beside the loop                                              *)

KeepsPlace(I, I2, b, L, list, since, i) ==
  /\ i \in In(I2, b, L, list, since)
  /\ PlaceIn(I, b, L, list, since, i) \in Nat /\ PlaceIn(I2, b, L, list, since, i) \in Nat
  /\ PlaceIn(I, b, L, list, since, i) <= PlaceIn(I2, b, L, list, since, i)

\* An item changes: it comes before all others in the list of pull requests.
LEMMA PlaceGrows ==
  ASSUME NEW I \in [Items -> ItemRecs], NEW I2 \in [Items -> ItemRecs], NEW b \in Int,
         NEW L \in SUBSET Items, NEW list \in {"issues", "pulls"}, NEW since \in Nat, NEW t \in Nat,
         NEW j \in Items, \A i \in Items \ {j} : I2[i] = I[i], I2[j].version > 0, I2[j].changed = t,
         \A i \in Items : I[i].changed <= t,
         NEW i \in Items \ {j}, i \in In(I, b, L, list, since)
  PROVE  KeepsPlace(I, I2, b, L, list, since, i)
<1>1. \A k \in Items : I[k].changed \in Nat /\ I2[k].changed \in Nat /\ k \in Int
  BY ItemsAreInts DEF ItemRecs
<1>2. i \in In(I2, b, L, list, since)
  BY DEF In
<1>3. ASSUME NEW k \in Foregoers(I, b, L, list, since, i)
      PROVE  k \in Foregoers(I2, b, L, list, since, i)
  <2>1. k \in Items /\ k \in In(I, b, L, list, since) /\ Before(I, b, list, k, i)
    BY DEF Foregoers, In
  <2>2. CASE k # j
    BY <2>1, <2>2 DEF Foregoers, In, Before
  <2>3. CASE k = j
    <3>1. I[j].changed <= t /\ I[i].changed <= t /\ I2[i] = I[i]
      OBVIOUS
    <3>2. j \in In(I2, b, L, list, since)
      BY <1>1, <2>1, <2>3, <3>1 DEF In
    <3>3. Before(I2, b, list, j, i)
      BY <1>1, <2>1, <2>3, <3>1 DEF Before
    <3>4. QED
      BY <2>3, <3>2, <3>3 DEF Foregoers
  <2>4. QED
    BY <2>2, <2>3
<1>4. /\ IsFiniteSet(Foregoers(I2, b, L, list, since, i)) /\ IsFiniteSet(Foregoers(I, b, L, list, since, i))
  <2>1. Foregoers(I2, b, L, list, since, i) \subseteq In(I2, b, L, list, since)
        /\ Foregoers(I, b, L, list, since, i) \subseteq In(I, b, L, list, since)
    BY DEF Foregoers
  <2>2. IsFiniteSet(In(I2, b, L, list, since)) /\ IsFiniteSet(In(I, b, L, list, since))
    BY WhereListed
  <2>3. QED
    BY <2>1, <2>2, FS_Subset
<1>5. Foregoers(I, b, L, list, since, i) \in SUBSET Foregoers(I2, b, L, list, since, i)
  BY <1>3
<1>6. QED
  BY <1>2, <1>4, <1>5, FS_Subset, FS_CardinalityType DEF PlaceIn, KeepsPlace

LEMMA ItemChanges ==
  ASSUME NEW I \in [Items -> ItemRecs], NEW I2 \in [Items -> ItemRecs], NEW b \in Int,
         NEW L \in SUBSET Items, NEW t \in Nat, NEW c \in Nat, NEW R, NEW D, NEW P \in PollRecs,
         NEW j \in Items, \A i \in Items \ {j} : I2[i] = I[i],
         I2[j].version = I[j].version + 1, I2[j].changed = t,
         Sane(I, R, t), c <= t, Kept(I, R, D, c), PollOK(I, R, D, c, t, b, L, P)
  PROVE  Kept(I2, R, D, c) /\ PollOK(I2, R, D, c, t, b, L, P)
<1>1. /\ \A i \in Items : I[i].changed <= t /\ I[i].changed \in Nat /\ I[i].version \in Nat
                          /\ I2[i].changed \in Nat /\ I2[i].version \in Nat
      /\ I2[j].version > 0
  BY DEF Sane, ItemRecs
<1>2. ASSUME NEW i \in Items, NEW n \in Nat, n <= t, Seen(I2, D, n, i)
      PROVE  i # j /\ I2[i] = I[i] /\ Seen(I, D, n, i)
  BY <1>1, <1>2 DEF Seen
<1>3. Kept(I2, R, D, c)
  BY <1>2 DEF Kept, Dealt
<1>4. CASE P.at \notin Busy
  BY <1>3, <1>4 DEF PollOK
<1>5. CASE P.at \in Busy
  <2>1. /\ c <= P.now /\ P.now <= t /\ P.now \in Nat /\ TodoOK(I, b, P) /\ Sorted(P)
        /\ Pending(I, R, D, b, L, P)
        /\ P.list \in {"issues", "pulls"} /\ P.since \in Nat /\ P.page \in Nat \ {0} /\ P.todo \in Seq(Sayings)
    BY <1>5 DEF PollOK, Timed, PollRecs
  <2>2. TodoOK(I2, b, P)
    <3> SUFFICES ASSUME NEW k \in DOMAIN P.todo
                 PROVE  LET i == P.todo[k].item
                        IN /\ Told(I2, P.todo[k])
                           /\ I2[i].changed < P.now => /\ P.todo[k].version = I2[i].version
                                                       /\ P.todo[k].stamp = I2[i].changed - b
      BY DEF TodoOK
    <3> DEFINE i == P.todo[k].item
    <3>1. Told(I, P.todo[k]) /\ (I[i].changed < P.now => /\ P.todo[k].version = I[i].version
                                                        /\ P.todo[k].stamp = I[i].changed - b)
      BY <2>1 DEF TodoOK
    <3>2. P.todo[k].version \in Nat
      <4>1. P.todo[k] \in Sayings
        BY <2>1, SequenceIs
      <4>2. QED
        BY <4>1 DEF Sayings
    <3>3. i \in Items
      BY <3>1 DEF Told
    <3>4. CASE i # j
      BY <3>1, <3>3, <3>4 DEF Told
    <3>5. CASE i = j
      <4>1. I[j].version \in Nat /\ I2[j].version = I[j].version + 1 /\ ~(I2[j].changed < P.now)
        BY <1>1, <2>1
      <4>2. P.todo[k].version >= 1 /\ P.todo[k].version <= I[j].version
        BY <3>1, <3>5 DEF Told
      <4>3. P.todo[k].version <= I2[j].version
        BY <3>2, <4>1, <4>2
      <4>4. QED
        BY <3>5, <4>1, <4>2, <4>3 DEF Told
    <3>6. QED
      BY <3>4, <3>5
  <2>3. ASSUME NEW i \in Items, Seen(I2, D, P.now, i)
        PROVE  Dealt(I2, R, i) \/ Awaited(I2, b, L, P, i)
    <3>1. i # j /\ I2[i] = I[i] /\ Seen(I, D, P.now, i)
      BY <1>2, <2>1, <2>3
    <3>2. CASE Dealt(I, R, i)
      BY <3>1, <3>2 DEF Dealt
    <3>3. CASE Awaited(I, b, L, P, i)
      <4>1. ASSUME NEW n \in Nat, FromPlace(I, b, L, P, n, i)
            PROVE  FromPlace(I2, b, L, P, n, i)
        <5>1. i \in In(I, b, L, P.list, P.since) /\ PlaceIn(I, b, L, P.list, P.since, i) >= n
          BY <4>1 DEF FromPlace
        <5>2. i \in Items \ {j} /\ \A k \in Items : I[k].changed <= t
          BY <1>1, <3>1
        <5>3. P.list \in {"issues", "pulls"} /\ P.since \in Nat /\ I2[j].version > 0
          BY <1>1, <2>1
        <5>4. KeepsPlace(I, I2, b, L, P.list, P.since, i)
          BY <5>1, <5>2, <5>3, PlaceGrows
        <5> DEFINE x == PlaceIn(I, b, L, P.list, P.since, i)
                   y == PlaceIn(I2, b, L, P.list, P.since, i)
        <5>5. x \in Nat /\ y \in Nat /\ x <= y /\ x >= n /\ i \in In(I2, b, L, P.list, P.since)
          BY <5>1, <5>4 DEF KeepsPlace
        <5> HIDE DEF x, y
        <5>6. y >= n
          BY <5>5
        <5>7. QED
          BY <5>5, <5>6 DEF FromPlace, y
      <4>2. (P.page - 1) * PageSize \in Nat /\ P.page * PageSize \in Nat
        <5>1. PageSize \in Nat /\ P.page \in Nat /\ P.page - 1 \in Nat
          BY <2>1, SizesArePositive
        <5>2. \A x, y \in Nat : x * y \in Nat
          OBVIOUS
        <5>3. QED
          BY <5>1, <5>2
      <4>3. Behind(I, b, L, P, i) => Behind(I2, b, L, P, i)
        BY <3>1, <4>1, <4>2 DEF Behind
      <4>4. QED
        BY <3>3, <4>1, <4>2, <4>3 DEF Awaited
    <3>4. QED
      BY <2>1, <3>1, <3>2, <3>3 DEF Pending
  <2>4. Timed(c, t, P) /\ Holds(R, D, P)
    BY DEF PollOK
  <2>5. QED
    BY <1>3, <2>1, <2>2, <2>3, <2>4 DEF PollOK, Pending
<1>6. QED
  BY <1>3, <1>4, <1>5

\* Rows that say newer things, pull requests that a run has, and time.
LEMMA RowsNewer ==
  ASSUME NEW I \in [Items -> ItemRecs], NEW R \in [Items -> RowRecs], NEW R2 \in [Items -> RowRecs],
         NEW b, NEW L, NEW t \in Nat, NEW t2 \in Nat, NEW c \in Nat, NEW D, NEW D2, NEW P \in PollRecs,
         \A i \in Items : /\ R[i].newest <= R2[i].newest /\ R2[i].newest <= I[i].version
                          /\ R[i].version > 0 => R2[i].version > 0,
         D \subseteq D2, t <= t2,
         Kept(I, R, D, c), PollOK(I, R, D, c, t, b, L, P)
  PROVE  Kept(I, R2, D2, c) /\ PollOK(I, R2, D2, c, t2, b, L, P)
<1>1. ASSUME NEW i \in Items, Dealt(I, R, i)
      PROVE  Dealt(I, R2, i)
  <2>1. R[i].newest \in Nat /\ R2[i].newest \in Nat /\ I[i].version \in Nat
    BY DEF RowRecs, ItemRecs
  <2>2. /\ R[i].newest <= R2[i].newest /\ R2[i].newest <= I[i].version
        /\ R[i].version > 0 => R2[i].version > 0
    OBVIOUS
  <2>3. R[i].version > 0 /\ R[i].newest = I[i].version
    BY <1>1 DEF Dealt
  <2> DEFINE x == R[i].newest
             y == R2[i].newest
             z == I[i].version
  <2>4. x = z /\ x <= y /\ y <= z /\ x \in Nat /\ y \in Nat /\ z \in Nat
    BY <2>1, <2>2, <2>3
  <2> HIDE DEF x, y, z
  <2>5. y = z
    BY <2>4
  <2>6. QED
    BY <2>2, <2>3, <2>5 DEF Dealt, y, z
<1>2. \A n : \A i \in Items : Seen(I, D2, n, i) => Seen(I, D, n, i)
  BY DEF Seen
<1>3. Kept(I, R2, D2, c)
  BY <1>1, <1>2 DEF Kept
<1>4. Timed(c, t2, P)
  <2>1. P.now \in Nat
    BY DEF PollRecs
  <2>2. QED
    BY <2>1 DEF PollOK, Timed
<1>5. P.at \in Busy => TodoOK(I, b, P) /\ Sorted(P) /\ Pending(I, R2, D2, b, L, P)
  BY <1>1, <1>2 DEF PollOK, Pending
<1>6. Holds(R2, D2, P)
  <2>1. (P.at \in Paged => P.todo # <<>>) /\ (P.at = "run" => P.todo[1].item \in D2)
    BY DEF PollOK, Holds
  <2>2. ASSUME P.at = "write", P.found # 0
        PROVE  LET r == R2[P.todo[1].item] IN r.version > 0 /\ P.found <= r.newest
    <3> DEFINE i == P.todo[1].item
    <3>1. P.at \in Paged /\ P.at \in Busy
      BY <2>2 DEF Paged, Busy
    <3>2. TodoOK(I, b, P) /\ P.todo # <<>> /\ P.todo \in Seq(Sayings)
      BY <3>1 DEF PollOK, Holds, PollRecs
    <3>3. 1 \in DOMAIN P.todo
      BY <3>2
    <3>4. i \in Items
      BY <3>2, <3>3 DEF TodoOK, Told
    <3>5. R[i].version > 0 /\ P.found <= R[i].newest
      BY <2>2 DEF PollOK, Holds
    <3>6. R[i].newest \in Nat /\ R2[i].newest \in Nat /\ P.found \in Nat
      BY <3>4 DEF RowRecs, PollRecs
    <3>7. QED
      BY <3>4, <3>5, <3>6
  <2>3. QED
    BY <2>1, <2>2 DEF Holds
<1>7. QED
  BY <1>3, <1>4, <1>5, <1>6 DEF PollOK

-----------------------------------------------------------------------------
(* The loop                                                                  *)

\* The page was read, and up to now it was gone through.
ReadUp(I, R, D, b, L, P) ==
  \A i \in Items : Seen(I, D, P.now, i) =>
    Dealt(I, R, i) \/ Later(L, P, i) \/ (Now(L, P, i) /\ (InTodo(P, 1, i) \/ Behind(I, b, L, P, i)))

\* So was the list.
ListDone(I, R, D, L, P) ==
  \A i \in Items : Seen(I, D, P.now, i) => Dealt(I, R, i) \/ Later(L, P, i)

Turned(I, R, D, c, t, b, L, P) == P \in PollRecs /\ PollOK(I, R, D, c, t, b, L, P)

InTime(c, t, P) ==
  c <= P.now /\ P.now <= t /\ P.page <= MaxPages /\ (P.since = 0 \/ P.since + Overlap <= c)

LEMMA NoTodo ==
  ASSUME NEW P, P.todo = <<>>, NEW I, NEW b
  PROVE  <<>> \in Seq(Sayings) /\ DOMAIN P.todo = {} /\ TodoOK(I, b, P) /\ Sorted(P)
<1>1. <<>> \in Seq(Sayings) /\ DOMAIN <<>> = {}
  OBVIOUS
<1>2. DOMAIN P.todo = {}
  BY <1>1
<1>3. QED
  BY <1>1, <1>2 DEF TodoOK, Sorted

LEMMA NextListOK ==
  ASSUME NEW I \in [Items -> ItemRecs], NEW R, NEW D, NEW c, NEW t, NEW b \in Int, NEW L \in SUBSET Items,
         NEW P \in PollRecs, InTime(c, t, P), ListDone(I, R, D, L, P)
  PROVE  Turned(I, R, D, c, t, b, L, NextList(P))
<1>1. P.list \in {"issues", "pulls"} /\ P.page \in Nat \ {0} /\ 1 <= MaxPages
  <2>1. P.page \in Nat \ {0} /\ P.list \in {"issues", "pulls"}
    BY DEF PollRecs
  <2>2. QED
    BY <2>1, SizesArePositive
<1> DEFINE none == <<>>
<1>n. none \in Seq(Sayings)
  OBVIOUS
<1>2. CASE P.list = "issues"
  <2> DEFINE P2 == [P EXCEPT !.at = "list", !.list = "pulls", !.page = 1, !.todo = none]
  <2>1. NextList(P) = P2
    BY <1>2 DEF NextList
  <2> HIDE DEF none
  <2>2. P2 \in PollRecs /\ P2.at = "list" /\ P2.list = "pulls" /\ P2.page = 1 /\ P2.todo = none
        /\ P2.now = P.now /\ P2.since = P.since
    <3>1. 1 \in Nat \ {0}
      OBVIOUS
    <3>2. P2 \in PollRecs
      BY <1>n, <3>1 DEF PollRecs
    <3>3. P2.at = "list" /\ P2.list = "pulls" /\ P2.page = 1 /\ P2.todo = none
          /\ P2.now = P.now /\ P2.since = P.since
      BY DEF PollRecs
    <3>4. QED
      BY <3>2, <3>3
  <2> HIDE DEF P2
  <2>3. TodoOK(I, b, P2) /\ Sorted(P2)
    BY <2>2, NoTodo DEF none
  <2>4. Timed(c, t, P2) /\ Holds(R, D, P2)
    BY <1>1, <2>2 DEF Timed, Holds, InTime, Busy, Paged
  <2>5. ASSUME NEW i \in Items, Seen(I, D, P2.now, i)
        PROVE  Dealt(I, R, i) \/ Awaited(I, b, L, P2, i)
    <3>1. Dealt(I, R, i) \/ i \in L
      BY <2>2, <2>5 DEF ListDone, Later
    <3>2. CASE i \in L
      <4>1. Now(L, P2, i)
        BY <2>2, <3>2 DEF Now
      <4>2. (P2.page - 1) * PageSize = 0
        BY <2>2, SizesArePositive
      <4>3. i \in In(I, b, L, P2.list, P2.since)
        BY <2>2, <2>5, <3>2 DEF In, Seen
      <4>4. PlaceIn(I, b, L, P2.list, P2.since, i) >= 0
        <5>1. P2.list \in {"issues", "pulls"}
          BY <2>2
        <5>2. IsFiniteSet(In(I, b, L, P2.list, P2.since))
          BY <5>1, WhereListed
        <5>3. Foregoers(I, b, L, P2.list, P2.since, i) \in SUBSET In(I, b, L, P2.list, P2.since)
          BY DEF Foregoers
        <5>4. PlaceIn(I, b, L, P2.list, P2.since, i) \in Nat
          BY <5>2, <5>3, FS_Subset, FS_CardinalityType DEF PlaceIn
        <5>5. QED
          BY <5>4
      <4>5. QED
        BY <2>2, <4>1, <4>2, <4>3, <4>4 DEF Awaited, FromPlace
    <3>3. QED
      BY <3>1, <3>2
  <2>6. QED
    BY <2>1, <2>2, <2>3, <2>4, <2>5 DEF Turned, PollOK, Pending
<1>3. CASE P.list = "pulls"
  <2> DEFINE P2 == [P EXCEPT !.at = "end", !.todo = none]
  <2>1. NextList(P) = P2
    BY <1>3 DEF NextList
  <2> HIDE DEF none
  <2>2. P2 \in PollRecs /\ P2.at = "end" /\ P2.list = "pulls" /\ P2.page = P.page /\ P2.todo = none
        /\ P2.now = P.now /\ P2.since = P.since
    BY <1>3, <1>n DEF PollRecs
  <2> HIDE DEF P2
  <2>3. TodoOK(I, b, P2) /\ Sorted(P2)
    BY <2>2, NoTodo DEF none
  <2>4. Timed(c, t, P2) /\ Holds(R, D, P2)
    BY <1>1, <2>2 DEF Timed, Holds, InTime, Busy, Paged
  <2>5. ASSUME NEW i \in Items, Seen(I, D, P2.now, i)
        PROVE  Dealt(I, R, i)
    BY <1>3, <2>2, <2>5 DEF ListDone, Later
  <2>6. QED
    BY <2>1, <2>2, <2>3, <2>4, <2>5 DEF Turned, PollOK, Pending
<1>4. QED
  BY <1>1, <1>2, <1>3

LEMMA FurtherOK ==
  ASSUME NEW I \in [Items -> ItemRecs], NEW R, NEW D, NEW c, NEW t, NEW b \in Int, NEW L \in SUBSET Items,
         NEW P \in PollRecs, InTime(c, t, P), TodoOK(I, b, P), Sorted(P), ReadUp(I, R, D, b, L, P)
  PROVE  Turned(I, R, D, c, t, b, L, Further(P))
<1>1. CASE P.todo # <<>>
  <2> DEFINE P2 == [P EXCEPT !.at = "each"]
  <2>1. Further(P) = P2
    BY <1>1 DEF Further
  <2>2. P2 \in PollRecs /\ P2.at = "each" /\ P2.list = P.list /\ P2.page = P.page /\ P2.todo = P.todo
        /\ P2.now = P.now /\ P2.since = P.since /\ P2.full = P.full
    BY DEF PollRecs
  <2> HIDE DEF P2
  <2>3. TodoOK(I, b, P2) /\ Sorted(P2)
    BY <2>2 DEF TodoOK, Sorted
  <2>4. Timed(c, t, P2) /\ Holds(R, D, P2)
    BY <1>1, <2>2 DEF Timed, Holds, InTime, Busy, Paged
  <2>5. ASSUME NEW i \in Items, Seen(I, D, P2.now, i)
        PROVE  Dealt(I, R, i) \/ Awaited(I, b, L, P2, i)
    BY <2>2, <2>5 DEF ReadUp, Awaited, Later, Now, InTodo, Behind, FromPlace
  <2>6. QED
    BY <2>1, <2>2, <2>3, <2>4, <2>5 DEF Turned, PollOK, Pending
<1>2. CASE P.todo = <<>> /\ P.full /\ P.page < MaxPages
  <2> DEFINE n  == P.page + 1
             P2 == [P EXCEPT !.at = "list", !.page = n]
  <2>1. Further(P) = P2
    BY <1>2 DEF Further
  <2>2. n \in Nat \ {0} /\ n <= MaxPages /\ n - 1 = P.page
    <3>1. P.page \in Nat \ {0}
      BY DEF PollRecs
    <3>2. QED
      BY <1>2, <3>1, SizesArePositive
  <2> HIDE DEF n
  <2>3. P2 \in PollRecs /\ P2.at = "list" /\ P2.list = P.list /\ P2.page = n /\ P2.todo = P.todo
        /\ P2.now = P.now /\ P2.since = P.since
    BY <2>2 DEF PollRecs
  <2> HIDE DEF P2
  <2>4. TodoOK(I, b, P2) /\ Sorted(P2)
    BY <2>3 DEF TodoOK, Sorted
  <2>5. Timed(c, t, P2) /\ Holds(R, D, P2)
    BY <2>2, <2>3 DEF Timed, Holds, InTime, Busy, Paged
  <2>6. ASSUME NEW i \in Items, Seen(I, D, P2.now, i)
        PROVE  Dealt(I, R, i) \/ Awaited(I, b, L, P2, i)
    <3>1. ~InTodo(P, 1, i)
      BY <1>2, NoTodo DEF InTodo
    <3>2. Dealt(I, R, i) \/ Later(L, P, i) \/ (Now(L, P, i) /\ Behind(I, b, L, P, i))
      BY <2>3, <2>6, <3>1 DEF ReadUp
    <3>3. (P2.page - 1) * PageSize = P.page * PageSize
      BY <2>2, <2>3
    <3>4. QED
      BY <2>3, <3>2, <3>3 DEF Awaited, Later, Now, Behind, FromPlace
  <2>7. QED
    BY <2>1, <2>3, <2>4, <2>5, <2>6 DEF Turned, PollOK, Pending
<1>3. CASE P.todo = <<>> /\ ~(P.full /\ P.page < MaxPages)
  <2>1. Further(P) = NextList(P)
    BY <1>3 DEF Further
  <2>2. ListDone(I, R, D, L, P)
    BY <1>3, NoTodo DEF ListDone, ReadUp, InTodo, Behind
  <2>3. QED
    BY <2>1, <2>2, NextListOK
<1>4. QED
  BY <1>1, <1>2, <1>3

\* The loop is done with the first of the page.
LEMMA RestOK ==
  ASSUME NEW I \in [Items -> ItemRecs], NEW R, NEW R2, NEW D, NEW c, NEW t, NEW b \in Int,
         NEW L \in SUBSET Items, NEW P \in PollRecs, PollOK(I, R, D, c, t, b, L, P), P.at \in Paged,
         \A i \in Items : Seen(I, D, P.now, i) /\ Dealt(I, R, i) => Dealt(I, R2, i),
         P.at = "task" \/ (LET i == P.todo[1].item
                           IN Seen(I, D, P.now, i) => Dealt(I, R2, i) \/ Later(L, P, i))
  PROVE  Turned(I, R2, D, c, t, b, L, Further([P EXCEPT !.todo = Tail(P.todo), !.found = 0, !.ended = FALSE]))
<1> DEFINE q  == Tail(P.todo)
           P2 == [P EXCEPT !.todo = q, !.found = 0, !.ended = FALSE]
<1>1. /\ P.at \in Busy /\ P.todo \in Seq(Sayings) /\ P.todo # <<>>
      /\ Timed(c, t, P) /\ TodoOK(I, b, P) /\ Sorted(P) /\ Pending(I, R, D, b, L, P)
  BY DEF PollOK, Holds, PollRecs, Busy
<1>2. /\ q \in Seq(Sayings) /\ DOMAIN q = 1 .. Len(P.todo) - 1
      /\ \A k \in DOMAIN q : k + 1 \in DOMAIN P.todo /\ q[k] = P.todo[k + 1]
      /\ DOMAIN P.todo = 1 .. Len(P.todo) /\ Len(P.todo) \in Nat
  <2>1. DOMAIN P.todo = 1 .. Len(P.todo) /\ Len(P.todo) \in Nat
    BY <1>1, SequenceIs
  <2>2. q \in Seq(Sayings) /\ Len(q) = Len(P.todo) - 1 /\ \A k \in 1 .. Len(q) : q[k] = P.todo[k + 1]
    BY <1>1, HeadTailProperties
  <2>3. DOMAIN q = 1 .. Len(q)
    BY <2>2, SequenceIs
  <2>4. QED
    BY <2>1, <2>2, <2>3
<1> HIDE DEF q
<1>3. P2 \in PollRecs /\ P2.at = P.at /\ P2.list = P.list /\ P2.page = P.page /\ P2.todo = q
      /\ P2.now = P.now /\ P2.since = P.since /\ P2.full = P.full
  BY <1>2 DEF PollRecs
<1> HIDE DEF P2
<1>4. InTime(c, t, P2)
  <2>1. P.at \in Busy /\ P.at # "idle"
    BY <1>1 DEF Busy, Paged
  <2>2. QED
    BY <1>1, <1>3, <2>1 DEF InTime, Timed
<1>5. TodoOK(I, b, P2)
  BY <1>1, <1>2, <1>3 DEF TodoOK
<1>6. Sorted(P2)
  <2>1. ASSUME P.list = "pulls", NEW k \in DOMAIN q, NEW l \in DOMAIN q, k < l
        PROVE  q[l].stamp <= q[k].stamp
    <3>1. k + 1 \in DOMAIN P.todo /\ l + 1 \in DOMAIN P.todo /\ k + 1 < l + 1
      BY <1>2, <2>1
    <3>2. P.todo[l + 1].stamp <= P.todo[k + 1].stamp
      BY <1>1, <2>1, <3>1 DEF Sorted
    <3>3. QED
      BY <1>2, <3>2
  <2>2. QED
    BY <1>3, <2>1 DEF Sorted
<1>7. ASSUME NEW i \in Items, Seen(I, D, P2.now, i)
      PROVE  Dealt(I, R2, i) \/ Later(L, P2, i) \/ (Now(L, P2, i) /\ (InTodo(P2, 1, i) \/ Behind(I, b, L, P2, i)))
  <2> DEFINE first == IF P.at = "task" THEN 2 ELSE 1
  <2>1. Seen(I, D, P.now, i)
    BY <1>3, <1>7
  <2>2. Dealt(I, R, i) \/ Later(L, P, i) \/ (Now(L, P, i) /\ (InTodo(P, first, i) \/ Behind(I, b, L, P, i)))
    BY <1>1, <2>1 DEF Pending, Awaited, Paged
  <2>3. Dealt(I, R, i) => Dealt(I, R2, i)
    BY <2>1
  <2>4. Later(L, P, i) => Later(L, P2, i)
    BY <1>3 DEF Later
  <2>5. Now(L, P, i) => Now(L, P2, i)
    BY <1>3 DEF Now
  <2>6. ASSUME Behind(I, b, L, P, i)
        PROVE  Behind(I, b, L, P2, i)
    BY <1>2, <1>3, <2>6 DEF Behind, FromPlace
  <2>7. ASSUME InTodo(P, first, i)
        PROVE  Dealt(I, R2, i) \/ Later(L, P2, i) \/ InTodo(P2, 1, i)
    <3>1. PICK k \in DOMAIN P.todo : k >= first /\ P.todo[k].item = i
      BY <2>7 DEF InTodo
    <3>2. k \in Int /\ k >= 1
      BY <1>2
    <3>3. CASE k = 1
      BY <2>1, <2>4, <3>1, <3>3
    <3>4. CASE k > 1
      <4>1. k - 1 \in DOMAIN q /\ k - 1 + 1 = k /\ k - 1 >= 1
        BY <1>2, <3>2, <3>4
      <4>2. q[k - 1] = P.todo[k]
        BY <1>2, <4>1
      <4>3. QED
        BY <1>3, <3>1, <4>1, <4>2 DEF InTodo
    <3>5. QED
      BY <3>2, <3>3, <3>4
  <2> HIDE DEF first
  <2>8. QED
    BY <2>2, <2>3, <2>4, <2>5, <2>6, <2>7
<1>8. ReadUp(I, R2, D, b, L, P2)
  BY <1>7 DEF ReadUp
<1>9. Turned(I, R2, D, c, t, b, L, Further(P2))
  BY <1>3, <1>4, <1>5, <1>6, <1>8, FurtherOK
<1>10. QED
  BY <1>9 DEF P2, q

-----------------------------------------------------------------------------
(* The steps of the loop                                                     *)

Enough == Cardinality(Items) <= MaxPages * PageSize

LEMMA SceneIs ==
  ASSUME SyncTypes
  PROVE  setup.behind \in Int /\ 0 <= setup.behind /\ setup.behind <= Overlap /\ Overlap \in Nat
         /\ setup.pulls \in SUBSET Items
<1>1. setup \in [pulls : SUBSET Items, handlers : SUBSET Hands, webhook : BOOLEAN,
                 behind : 0 .. Overlap, lastTime : Nat, changes : Nat, faults : Nat]
  BY SyncScenesAreKnown DEF SyncTypes
<1>2. Overlap \in Nat
  BY SizesArePositive
<1>3. setup.behind \in 0 .. Overlap /\ setup.pulls \in SUBSET Items
  BY <1>1
<1>4. QED
  BY <1>2, <1>3

\* What an item that is not in the list says has been said: it changed before the cursor.
LEMMA BeforeSince ==
  ASSUME NEW x \in Nat, NEW b \in Int, b <= Overlap, NEW since \in Nat, since + Overlap <= cursor, cursor \in Nat,
         x - b < since
  PROVE  x < cursor
<1>1. Overlap \in Nat
  BY SizesArePositive
<1>2. QED
  BY <1>1

\* A step of the loop that leaves the cursor, and may write a row.
LEMMA TurnedKeeps ==
  ASSUME SyncInv, UNCHANGED <<setup, clock, item, mail, recorded, hand, cursor>>,
         row' \in [Items -> RowRecs], Sane(item, row', clock), Blank(row'),
         Turned(item, row', recorded, cursor, clock, setup.behind, setup.pulls, poll'),
         \A i \in Items : Seen(item, recorded, cursor, i) /\ Dealt(item, row, i) => Dealt(item, row', i)
  PROVE  SyncInv'
<1>1. SyncTypes'
  BY DEF SyncInv, SyncTypes, Turned
<1>2. Kept(item, row', recorded, cursor)
  BY DEF SyncInv, Kept
<1>3. PollOK(item, row', recorded, cursor, clock, setup.behind, setup.pulls, poll')
  BY DEF Turned
<1>4. QED
  BY <1>1, <1>2, <1>3 DEF SyncInv

\* So does one that writes none.
LEMMA OnlyTurned ==
  ASSUME SyncInv, UNCHANGED <<setup, clock, item, mail, recorded, hand, cursor, row>>,
         Turned(item, row, recorded, cursor, clock, setup.behind, setup.pulls, poll')
  PROVE  SyncInv'
<1>1. row \in [Items -> RowRecs] /\ Sane(item, row, clock) /\ Blank(row)
  BY DEF SyncInv, SyncTypes
<1>2. QED
  BY <1>1, TurnedKeeps

LEMMA IdleOK ==
  ASSUME NEW I, NEW R, NEW D, NEW c, NEW t, NEW b, NEW L
  PROVE  Turned(I, R, D, c, t, b, L, IdlePoll)
<1>1. 1 \in Nat \ {0} /\ 0 \in Nat /\ <<>> \in Seq(Sayings)
  OBVIOUS
<1>2. IdlePoll \in PollRecs
  BY <1>1 DEF IdlePoll, PollRecs
<1>3. IdlePoll.at = "idle"
  BY DEF IdlePoll
<1>4. QED
  BY <1>2, <1>3 DEF Turned, PollOK, Timed, Holds, Busy, Paged

LEMMA TimerOK ==
  ASSUME NEW I, NEW R, NEW D, NEW c \in Nat, NEW c2 \in Nat, c <= c2, NEW t, NEW b, NEW L
  PROVE  Turned(I, R, D, c2, t, b, L, [IdlePoll EXCEPT !.at = "timer", !.since = Since(c)])
<1> DEFINE since == Since(c)
           P == [IdlePoll EXCEPT !.at = "timer", !.since = since]
<1>1. since \in Nat /\ (since = 0 \/ since + Overlap <= c2)
  BY SizesArePositive DEF Since
<1> HIDE DEF since
<1>2. 1 \in Nat \ {0} /\ 0 \in Nat /\ <<>> \in Seq(Sayings)
  OBVIOUS
<1>3. P \in PollRecs
  BY <1>1, <1>2 DEF IdlePoll, PollRecs
<1>4. P.at = "timer" /\ P.since = since /\ P.list = "issues" /\ P.page = 1 /\ P.todo = <<>>
  BY DEF IdlePoll
<1> HIDE DEF P
<1>5. Turned(I, R, D, c2, t, b, L, P)
  BY <1>1, <1>3, <1>4 DEF Turned, PollOK, Timed, Holds, Busy, Paged
<1>6. QED
  BY <1>5 DEF P, since

LEMMA PollTimerKeeps ==
  ASSUME SyncInv, PollTimer
  PROVE  SyncInv'
<1>1. cursor \in Nat /\ cursor <= cursor
  BY DEF SyncInv, SyncTypes
<1>2. Turned(item, row, recorded, cursor, clock, setup.behind, setup.pulls,
             [IdlePoll EXCEPT !.at = "timer", !.since = Since(cursor)])
  BY <1>1, TimerOK
<1>3. Turned(item, row, recorded, cursor, clock, setup.behind, setup.pulls, poll')
  BY <1>2 DEF PollTimer, Turn
<1>4. QED
  BY <1>3, OnlyTurned DEF PollTimer, Turn, world

LEMMA PollFailsKeeps ==
  ASSUME SyncInv, PollFails
  PROVE  SyncInv'
<1>1. Turned(item, row, recorded, cursor, clock, setup.behind, setup.pulls, poll')
  BY IdleOK DEF PollFails, Turn
<1>2. QED
  BY <1>1, OnlyTurned DEF PollFails, Turn, world

LEMMA PollEndKeeps ==
  ASSUME SyncInv, PollEnd
  PROVE  SyncInv'
<1>1. cursor \in Nat /\ poll \in PollRecs /\ poll.now \in Nat /\ cursor' = poll.now
      /\ UNCHANGED <<setup, clock, item, mail, recorded, hand, row>>
  BY DEF SyncInv, SyncTypes, PollRecs, PollEnd, Turn, world
<1>2. poll.at = "end" /\ poll.at \in Busy
  BY DEF PollEnd, Busy
<1>3. cursor <= poll.now /\ poll.now <= clock /\ Pending(item, row, recorded, setup.behind, setup.pulls, poll)
  BY <1>2 DEF SyncInv, PollOK, Timed
<1>4. Kept(item, row, recorded, poll.now)
  BY <1>2, <1>3 DEF Pending, Kept, Awaited
<1>5. Turned(item, row, recorded, poll.now, clock, setup.behind, setup.pulls, poll')
  <2> DEFINE timer == [IdlePoll EXCEPT !.at = "timer", !.since = Since(cursor)]
  <2>1. poll' = IdlePoll \/ poll' = timer
    BY DEF PollEnd, Turn
  <2>2. Turned(item, row, recorded, poll.now, clock, setup.behind, setup.pulls, timer)
    BY <1>1, <1>3, TimerOK
  <2>3. Turned(item, row, recorded, poll.now, clock, setup.behind, setup.pulls, IdlePoll)
    BY IdleOK
  <2> HIDE DEF timer
  <2>4. QED
    BY <2>1, <2>2, <2>3
<1>6. SyncTypes'
  BY <1>1, <1>5 DEF SyncInv, SyncTypes, Turned
<1>7. QED
  BY <1>1, <1>3, <1>4, <1>5, <1>6 DEF SyncInv, Turned

LEMMA PollStartKeeps ==
  ASSUME SyncInv, PollStart
  PROVE  SyncInv'
<1> DEFINE I == item
           b == setup.behind
           L == setup.pulls
           P2 == [poll EXCEPT !.at = "list", !.now = clock]
<1>1. /\ poll.at = "timer" /\ poll' = P2 /\ UNCHANGED <<setup, clock, item, mail, recorded, hand, cursor, row>>
  BY DEF PollStart, Turn, world
<1>2. /\ poll \in PollRecs /\ clock \in Nat /\ cursor \in Nat /\ cursor <= clock
      /\ item \in [Items -> ItemRecs] /\ Kept(item, row, recorded, cursor)
  BY DEF SyncInv, SyncTypes
<1>3. /\ poll.list = "issues" /\ poll.page = 1 /\ poll.todo = <<>>
      /\ poll.since = 0 \/ poll.since + Overlap <= cursor
  BY <1>1 DEF SyncInv, PollOK, Timed
<1>4. /\ P2 \in PollRecs /\ P2.at = "list" /\ P2.list = "issues" /\ P2.page = 1 /\ P2.todo = <<>>
      /\ P2.now = clock /\ P2.since = poll.since /\ P2.since \in Nat
  BY <1>2, <1>3 DEF PollRecs
<1>5. b \in Int /\ 0 <= b /\ b <= Overlap /\ L \in SUBSET Items
  BY SceneIs DEF SyncInv
<1> HIDE DEF P2, b, L
<1>6. TodoOK(I, b, P2) /\ Sorted(P2)
  BY <1>4, NoTodo
<1>7. Timed(cursor, clock, P2) /\ Holds(row, recorded, P2)
  <2>1. 1 <= MaxPages /\ clock <= clock
    BY <1>2, SizesArePositive
  <2>2. QED
    BY <1>2, <1>3, <1>4, <2>1 DEF Timed, Holds, Busy, Paged
<1>8. ASSUME NEW i \in Items, Seen(I, recorded, P2.now, i)
      PROVE  Dealt(I, row, i) \/ Awaited(I, b, L, P2, i)
  <2>1. CASE i \in L
    BY <1>4, <2>1 DEF Awaited, Later
  <2>2. CASE i \notin L /\ (P2.since = 0 \/ I[i].changed - b >= P2.since)
    <3>1. Now(L, P2, i)
      BY <1>4, <2>2 DEF Now
    <3>2. i \in In(I, b, L, P2.list, P2.since)
      BY <1>4, <1>8, <2>2 DEF In, Seen
    <3>3. PlaceIn(I, b, L, P2.list, P2.since, i) >= 0
      <4>1. IsFiniteSet(In(I, b, L, P2.list, P2.since))
        BY <1>2, <1>4, <1>5, WhereListed
      <4>2. Foregoers(I, b, L, P2.list, P2.since, i) \in SUBSET In(I, b, L, P2.list, P2.since)
        BY DEF Foregoers
      <4>3. PlaceIn(I, b, L, P2.list, P2.since, i) \in Nat
        BY <4>1, <4>2, FS_Subset, FS_CardinalityType DEF PlaceIn
      <4>4. QED
        BY <4>3
    <3>4. (P2.page - 1) * PageSize = 0
      BY <1>4, SizesArePositive
    <3>5. QED
      BY <1>4, <3>1, <3>2, <3>3, <3>4 DEF Awaited, FromPlace
  <2>3. CASE P2.since # 0 /\ ~(I[i].changed - b >= P2.since)
    <3>1. I[i].changed \in Nat
      BY <1>2 DEF ItemRecs
    <3>2. I[i].changed - b < P2.since
      BY <1>4, <1>5, <2>3, <3>1
    <3>3. P2.since + Overlap <= cursor
      BY <1>3, <1>4, <2>3
    <3>4. I[i].changed < cursor
      BY <1>2, <1>4, <1>5, <3>1, <3>2, <3>3, BeforeSince
    <3>5. QED
      BY <1>2, <1>8, <3>4 DEF Kept, Seen
  <2>4. QED
    BY <2>1, <2>2, <2>3
<1>9. PollOK(I, row, recorded, cursor, clock, b, L, P2)
  BY <1>6, <1>7, <1>8 DEF PollOK, Pending
<1>10. Turned(item, row, recorded, cursor, clock, setup.behind, setup.pulls, poll')
  BY <1>1, <1>4, <1>9 DEF Turned, b, L
<1>11. QED
  BY <1>1, <1>10, OnlyTurned

\* A page as it is read: what comes before it has been read, what comes after it is behind.
LEMMA PollListKeeps ==
  ASSUME SyncInv, PollList, Enough
  PROVE  SyncInv'
<1> DEFINE I == item
           b == setup.behind
           L == setup.pulls
           P == poll
           S == In(I, b, L, P.list, P.since)
           place == PlacesIn(I, b, L, P.list, P.since)
           q == Listed(P.list, P.since)
           seq == PageOf(q, P.page)
           todo == [k \in 1 .. Len(seq) |-> Says(seq[k])]
           full == Len(todo) = PageSize
           P1 == [P EXCEPT !.todo = todo, !.full = full]
           a == (P.page - 1) * PageSize
<1>1. /\ P.at = "list" /\ poll' = Further(P1) /\ UNCHANGED <<setup, clock, item, mail, recorded, hand, cursor, row>>
  BY DEF PollList, Turn, world
<1>2. /\ P \in PollRecs /\ clock \in Nat /\ cursor \in Nat
      /\ I \in [Items -> ItemRecs] /\ P.page \in Nat \ {0} /\ P.list \in {"issues", "pulls"} /\ P.since \in Nat
  BY DEF SyncInv, SyncTypes, PollRecs
<1>3. /\ Timed(cursor, clock, P) /\ Pending(I, row, recorded, b, L, P)
  BY <1>1 DEF SyncInv, PollOK, Busy
<1>4. b \in Int /\ L \in SUBSET Items
  BY SceneIs DEF SyncInv
<1>5. S \in SUBSET Items /\ Cardinality(S) \in Nat /\ Cardinality(S) <= Cardinality(Items) /\ Cardinality(Items) \in Nat
  BY <1>2, <1>4, WhereListed
<1>6. /\ q \in Seq(S) /\ Len(q) = Cardinality(S)
      /\ \A i \in S : place[i] \in Nat /\ place[i] < Cardinality(S) /\ q[place[i] + 1] = i
      /\ \A n \in 1 .. Cardinality(S) : q[n] \in S /\ place[q[n]] = n - 1
      /\ \A i, j \in S : place[i] < place[j] => Before(I, b, P.list, i, j)
  <2>1. item \in [Items -> ItemRecs] /\ setup.behind \in Int /\ setup.pulls \in SUBSET Items
    BY <1>2, <1>4
  <2>2. Ranked(I, b, P.list, S, place, q)
    BY <1>2, <2>1, ListedIs
  <2> HIDE DEF q, S, place
  <2>3. QED
    BY <2>2 DEF Ranked
<1>7. \A i \in S : place[i] = PlaceIn(I, b, L, P.list, P.since, i)
  BY DEF PlacesIn
<1>s. \A i : Says(i) = [item |-> i, version |-> I[i].version, stamp |-> I[i].changed - b, open |-> I[i].open]
  BY DEF Says, Stamp
<1>i. \A i \in S : I[i].version > 0
  BY DEF In
<1> HIDE DEF S, place, q
<1>e. Cut(S, q, P.page, a, seq)
  BY <1>2, <1>6, PageIs
<1> HIDE DEF seq, a
<1>8. /\ a \in Nat /\ P.page * PageSize = a + PageSize /\ PageSize \in Nat /\ PageSize >= 1
      /\ seq \in Seq(S)
      /\ Len(seq) = IF Len(q) <= a THEN 0 ELSE IF Len(q) >= a + PageSize THEN PageSize ELSE Len(q) - a
      /\ \A k \in 1 .. Len(seq) : a + k \in 1 .. Len(q) /\ seq[k] = q[a + k]
  BY <1>e DEF Cut
<1>9. Len(seq) \in Nat
  BY <1>8, SequenceIs
<1>10. ASSUME NEW k \in 1 .. Len(seq)
       PROVE  /\ seq[k] \in S /\ seq[k] \in Items /\ place[seq[k]] = a + k - 1 /\ todo[k] = Says(seq[k])
              /\ todo[k].item = seq[k] /\ todo[k].version = I[seq[k]].version
              /\ todo[k].stamp = I[seq[k]].changed - b /\ todo[k] \in Sayings
  <2>1. a + k \in 1 .. Cardinality(S) /\ seq[k] = q[a + k]
    BY <1>6, <1>8
  <2> DEFINE n == a + k
  <2>n. n \in 1 .. Cardinality(S) /\ seq[k] = q[n] /\ n - 1 = a + k - 1
    BY <1>8, <1>9, <2>1
  <2> HIDE DEF n
  <2>2. seq[k] \in S /\ place[seq[k]] = a + k - 1
    BY <1>6, <2>n
  <2>3. seq[k] \in Items
    BY <1>5, <2>2
  <2>4. todo[k] = Says(seq[k])
    OBVIOUS
  <2>5. todo[k] = [item |-> seq[k], version |-> I[seq[k]].version, stamp |-> I[seq[k]].changed - b, open |-> I[seq[k]].open]
    BY <1>s, <2>4
  <2>6. I[seq[k]] \in ItemRecs /\ seq[k] \in Nat
    BY <1>2, <2>3, ItemsAreInts
  <2>7. I[seq[k]].version \in Nat /\ I[seq[k]].changed - b \in Int /\ I[seq[k]].open \in BOOLEAN
    BY <1>4, <2>6 DEF ItemRecs
  <2> HIDE DEF todo
  <2>8. QED
    BY <2>2, <2>3, <2>4, <2>5, <2>6, <2>7 DEF Sayings
<1>11. todo \in Seq(Sayings) /\ Len(todo) = Len(seq) /\ DOMAIN todo = 1 .. Len(seq)
  <2>1. DOMAIN todo = 1 .. Len(seq) /\ \A k \in 1 .. Len(seq) : todo[k] \in Sayings
    BY <1>10
  <2>2. todo \in [1 .. Len(seq) -> Sayings]
    BY <2>1
  <2> HIDE DEF todo
  <2>3. todo \in Seq(Sayings)
    BY <1>9, <2>2
  <2>4. QED
    BY <1>9, <2>1, <2>3, LenProperties
<1> HIDE DEF todo
<1>12. full \in BOOLEAN
  OBVIOUS
<1> HIDE DEF full
<1>13. /\ P1 \in PollRecs /\ P1.at = "list" /\ P1.list = P.list /\ P1.page = P.page /\ P1.todo = todo
       /\ P1.full = full /\ P1.now = P.now /\ P1.since = P.since
  BY <1>1, <1>2, <1>11, <1>12 DEF PollRecs
<1> HIDE DEF P1
<1>14. InTime(cursor, clock, P1)
  BY <1>1, <1>3, <1>13 DEF InTime, Timed, Busy
<1>15. TodoOK(I, b, P1)
  <2>1. ASSUME NEW k \in DOMAIN todo
        PROVE  /\ Told(I, todo[k])
               /\ todo[k].version = I[todo[k].item].version /\ todo[k].stamp = I[todo[k].item].changed - b
    <3>1. k \in 1 .. Len(seq)
      BY <1>11
    <3>2. I[seq[k]].version \in Nat /\ I[seq[k]].version > 0
      BY <1>2, <1>10, <1>i, <3>1 DEF ItemRecs
    <3>3. QED
      BY <1>10, <3>1, <3>2 DEF Told
  <2>2. QED
    BY <1>13, <2>1 DEF TodoOK
<1>16. ASSUME P.list = "pulls", NEW i \in S, NEW j \in S, place[i] < place[j]
       PROVE  I[j].changed - b <= I[i].changed - b
  <2>1. Before(I, b, P.list, i, j)
    BY <1>6, <1>16
  <2>2. I[i].changed \in Nat /\ I[j].changed \in Nat
    BY <1>2, <1>5 DEF ItemRecs
  <2>3. QED
    BY <1>4, <1>16, <2>1, <2>2 DEF Before
<1>17. Sorted(P1)
  <2>1. ASSUME P.list = "pulls", NEW k \in DOMAIN todo, NEW l \in DOMAIN todo, k < l
        PROVE  todo[l].stamp <= todo[k].stamp
    <3>1. k \in 1 .. Len(seq) /\ l \in 1 .. Len(seq)
      BY <1>11
    <3>2. place[seq[k]] = a + k - 1 /\ place[seq[l]] = a + l - 1 /\ seq[k] \in S /\ seq[l] \in S
      BY <1>10, <3>1
    <3>3. place[seq[k]] < place[seq[l]]
      BY <1>8, <1>9, <2>1, <3>1, <3>2
    <3>4. QED
      BY <1>10, <1>16, <2>1, <3>1, <3>2, <3>3
  <2>2. QED
    BY <1>13, <2>1 DEF Sorted
<1>18. ASSUME NEW i \in S, place[i] >= a
       PROVE  InTodo(P1, 1, i) \/ Behind(I, b, L, P1, i)
  <2>1. place[i] \in Nat /\ place[i] < Cardinality(S) /\ q[place[i] + 1] = i
    BY <1>6
  <2>2. CASE place[i] < a + PageSize
    <3> DEFINE x == place[i]
               c == Cardinality(S)
               k == x - a + 1
    <3>x. x \in Nat /\ c \in Nat /\ a \in Nat /\ PageSize \in Nat /\ x >= a /\ x < a + PageSize /\ x < c
      BY <1>5, <1>8, <1>18, <2>1, <2>2
    <3> HIDE DEF x, c
    <3>k. k \in Int /\ k >= 1 /\ k <= PageSize /\ a + k = x + 1 /\ a + k <= c
      BY <3>x
    <3> HIDE DEF k
    <3>1. k \in Int /\ k >= 1 /\ k <= PageSize /\ a + k = place[i] + 1 /\ a + k <= Cardinality(S)
      BY <3>k DEF x, c
    <3>2. k \in 1 .. Len(seq)
      BY <1>5, <1>6, <1>8, <1>9, <3>1
    <3>3. seq[k] = i
      BY <1>8, <2>1, <3>1, <3>2
    <3>4. k \in DOMAIN todo /\ todo[k].item = i
      BY <1>10, <1>11, <3>2, <3>3
    <3>5. QED
      BY <1>13, <3>1, <3>4 DEF InTodo
  <2>3. CASE place[i] >= a + PageSize
    <3>1. Len(seq) = PageSize
      BY <1>5, <1>6, <1>8, <2>1, <2>3
    <3>2. full
      BY <1>11, <3>1 DEF full
    <3>3. P.page # MaxPages
      <4>1. P.page * PageSize < Cardinality(Items)
        BY <1>2, <1>5, <1>8, <2>1, <2>3
      <4>2. Cardinality(Items) <= MaxPages * PageSize /\ MaxPages * PageSize \in Nat
        BY SizesArePositive DEF Enough
      <4>3. P.page * PageSize \in Nat
        BY <1>8
      <4>4. P.page * PageSize # MaxPages * PageSize
        BY <1>5, <4>1, <4>2, <4>3
      <4>5. QED
        BY <4>4
    <3>4. P.page < MaxPages
      BY <1>2, <1>13, <1>14, <3>3, SizesArePositive DEF InTime
    <3>5. FromPlace(I, b, L, P1, P1.page * PageSize, i)
      BY <1>7, <1>8, <1>13, <2>3 DEF FromPlace, S
    <3>6. ASSUME P.list = "pulls", NEW k \in DOMAIN todo
          PROVE  I[i].changed - b <= todo[k].stamp
      <4>1. k \in 1 .. Len(seq) /\ seq[k] \in S /\ place[seq[k]] = a + k - 1 /\ todo[k].stamp = I[seq[k]].changed - b
        BY <1>10, <1>11
      <4>2. place[seq[k]] < place[i]
        BY <1>8, <2>1, <2>3, <3>1, <4>1
      <4>3. QED
        BY <1>16, <3>6, <4>1, <4>2
    <3>7. QED
      BY <1>13, <3>2, <3>4, <3>5, <3>6 DEF Behind
  <2>4. QED
    BY <1>8, <2>1, <2>2, <2>3
<1>19. ASSUME NEW i \in Items, Seen(I, recorded, P1.now, i)
       PROVE  Dealt(I, row, i) \/ Later(L, P1, i) \/ (Now(L, P1, i) /\ (InTodo(P1, 1, i) \/ Behind(I, b, L, P1, i)))
  <2>1. Dealt(I, row, i) \/ Later(L, P, i) \/ (Now(L, P, i) /\ FromPlace(I, b, L, P, a, i))
    BY <1>1, <1>3, <1>13, <1>19 DEF Pending, Awaited, a
  <2>2. FromPlace(I, b, L, P, a, i) => i \in S /\ place[i] >= a
    BY <1>7 DEF FromPlace, S
  <2>3. QED
    BY <1>13, <1>18, <2>1, <2>2 DEF Later, Now
<1>20. ReadUp(I, row, recorded, b, L, P1)
  BY <1>19 DEF ReadUp
<1>21. Turned(I, row, recorded, cursor, clock, b, L, Further(P1))
  BY <1>2, <1>4, <1>13, <1>14, <1>15, <1>17, <1>20, FurtherOK
<1>22. QED
  BY <1>1, <1>21, OnlyTurned

\* What the loop knows of the item it is at.
SaidIs(P, said) ==
  /\ P \in PollRecs /\ P.at \in Busy /\ P.todo # <<>> /\ P.todo \in Seq(Sayings)
  /\ 1 \in DOMAIN P.todo /\ said = P.todo[1]
  /\ said.item \in Items /\ said.version \in Nat /\ said.stamp \in Int /\ said.version >= 1
  /\ said.version <= item[said.item].version /\ item[said.item].version \in Nat
  /\ item[said.item].changed < P.now => /\ said.version = item[said.item].version
                                        /\ said.stamp = item[said.item].changed - setup.behind

LEMMA SaidKnown ==
  ASSUME SyncInv, poll.at \in Paged
  PROVE  SaidIs(poll, Said)
<1>1. poll \in PollRecs /\ poll.todo \in Seq(Sayings) /\ item \in [Items -> ItemRecs]
  BY DEF SyncInv, SyncTypes, PollRecs
<1>2. poll.at \in Busy /\ poll.todo # <<>> /\ TodoOK(item, setup.behind, poll)
  BY DEF SyncInv, PollOK, Busy, Holds
<1>3. 1 \in DOMAIN poll.todo /\ Said = poll.todo[1]
  BY <1>1, <1>2 DEF Said
<1>4. Said \in Sayings
  BY <1>1, <1>3, SequenceIs
<1>5. /\ Told(item, Said)
      /\ item[Said.item].changed < poll.now => /\ Said.version = item[Said.item].version
                                               /\ Said.stamp = item[Said.item].changed - setup.behind
  BY <1>2, <1>3 DEF TodoOK
<1>6. Said.version \in Nat /\ Said.stamp \in Int
  BY <1>4 DEF Sayings
<1>7. Said.item \in Items /\ Said.version >= 1 /\ Said.version <= item[Said.item].version
  BY <1>5 DEF Told
<1>8. item[Said.item].version \in Nat
  BY <1>1, <1>7 DEF ItemRecs
<1>9. QED
  BY <1>1, <1>2, <1>3, <1>5, <1>6, <1>7, <1>8 DEF SaidIs

\* The same page, at another of its stations.
LEMMA SamePage ==
  ASSUME NEW I, NEW R, NEW D, NEW c, NEW t, NEW b, NEW L, NEW P \in PollRecs, NEW P2 \in PollRecs,
         PollOK(I, R, D, c, t, b, L, P), P.at \in {"each", "write"}, P2.at \in {"run", "write"},
         P2.list = P.list, P2.now = P.now, P2.since = P.since, P2.page = P.page, P2.todo = P.todo,
         P2.full = P.full, Holds(R, D, P2)
  PROVE  Turned(I, R, D, c, t, b, L, P2)
<1>1. /\ P.at \in Busy /\ P2.at \in Busy /\ P.at \notin {"idle", "timer", "list", "end", "task"}
      /\ P2.at \notin {"idle", "timer", "list", "end", "task"}
  BY DEF Busy, Paged
<1>2. Timed(c, t, P2)
  BY <1>1 DEF PollOK, Timed
<1>3. TodoOK(I, b, P2) /\ Sorted(P2)
  BY <1>1 DEF PollOK, TodoOK, Sorted
<1>4. ASSUME NEW i
      PROVE  Awaited(I, b, L, P, i) => Awaited(I, b, L, P2, i)
  BY <1>1 DEF Awaited, Later, Now, InTodo, Behind, FromPlace
<1>5. Pending(I, R, D, b, L, P2)
  BY <1>1, <1>4 DEF PollOK, Pending
<1>6. QED
  BY <1>2, <1>3, <1>5 DEF Turned, PollOK

\* An item older than the cursor ends the list of pull requests.
LEMMA OldEnds ==
  ASSUME SyncInv, poll.at = "each", poll.list = "pulls", poll.since > 0, Said.stamp < poll.since
  PROVE  ListDone(item, row, recorded, setup.pulls, poll)
<1> DEFINE I == item
           b == setup.behind
           L == setup.pulls
           P == poll
<1>1. SaidIs(P, Said)
  BY SaidKnown DEF Paged
<1>2. /\ Timed(cursor, clock, P) /\ Pending(I, row, recorded, b, L, P) /\ TodoOK(I, b, P) /\ Sorted(P)
      /\ Kept(I, row, recorded, cursor) /\ cursor \in Nat /\ I \in [Items -> ItemRecs]
  BY DEF SyncInv, PollOK, SyncTypes, Busy, Paged
<1>3. b \in Int /\ b <= Overlap
  BY SceneIs DEF SyncInv
<1>4. P.since \in Nat /\ P.since + Overlap <= cursor
  BY <1>1, <1>2 DEF SaidIs, PollRecs, Timed
<1>5. ASSUME NEW i \in Items, Seen(I, recorded, P.now, i), I[i].changed - b <= Said.stamp
      PROVE  Dealt(I, row, i)
  <2>1. I[i].changed \in Nat
    BY <1>2 DEF ItemRecs
  <2>2. I[i].changed - b < P.since
    BY <1>1, <1>3, <1>4, <1>5, <2>1 DEF SaidIs
  <2>3. I[i].changed < cursor
    BY <1>2, <1>3, <1>4, <2>1, <2>2, BeforeSince
  <2>4. QED
    BY <1>2, <1>5, <2>3 DEF Kept, Seen
<1>6. ASSUME NEW i \in Items, Seen(I, recorded, P.now, i)
      PROVE  Dealt(I, row, i)
  <2>1. Dealt(I, row, i) \/ InTodo(P, 1, i) \/ Behind(I, b, L, P, i)
    BY <1>2, <1>6 DEF Pending, Awaited, Later
  <2>2. CASE InTodo(P, 1, i)
    <3>1. PICK k \in DOMAIN P.todo : k >= 1 /\ P.todo[k].item = i
      BY <2>2 DEF InTodo
    <3>2. P.todo[k].stamp = I[i].changed - b
      BY <1>2, <1>6, <3>1 DEF TodoOK, Seen
    <3>3. k \in Int
      BY <1>1, SequenceIs DEF SaidIs
    <3>4. k = 1 \/ 1 < k
      BY <3>1, <3>3
    <3>5. P.todo[k].stamp <= Said.stamp
      <4>1. CASE k = 1
        BY <1>1, <4>1 DEF SaidIs
      <4>2. CASE 1 < k
        BY <1>1, <1>2, <4>2 DEF SaidIs, Sorted
      <4>3. QED
        BY <3>4, <4>1, <4>2
    <3>6. QED
      BY <1>5, <1>6, <3>2, <3>5
  <2>3. CASE Behind(I, b, L, P, i)
    BY <1>1, <1>5, <1>6, <2>3 DEF Behind, SaidIs
  <2>4. QED
    BY <2>1, <2>2, <2>3
<1>7. QED
  BY <1>6 DEF ListDone

LEMMA RestTurns ==
  ASSUME SyncInv, poll.at \in Paged, NEW R2,
         \A i \in Items : Seen(item, recorded, poll.now, i) /\ Dealt(item, row, i) => Dealt(item, R2, i),
         \/ poll.at = "task"
         \/ Seen(item, recorded, poll.now, Said.item) => Dealt(item, R2, Said.item) \/ Later(setup.pulls, poll, Said.item)
  PROVE  Turned(item, R2, recorded, cursor, clock, setup.behind, setup.pulls, Further(Rest))
<1>1. SaidIs(poll, Said)
  BY SaidKnown
<1>2. /\ item \in [Items -> ItemRecs] /\ poll \in PollRecs
      /\ PollOK(item, row, recorded, cursor, clock, setup.behind, setup.pulls, poll)
  BY DEF SyncInv, SyncTypes
<1>3. setup.behind \in Int /\ setup.pulls \in SUBSET Items
  BY SceneIs DEF SyncInv
<1>4. Said = poll.todo[1]
  BY <1>1 DEF SaidIs
<1> DEFINE new == [poll EXCEPT !.todo = Tail(poll.todo), !.found = 0, !.ended = FALSE]
<1>5. Turned(item, R2, recorded, cursor, clock, setup.behind, setup.pulls, Further(new))
  BY <1>2, <1>3, <1>4, RestOK
<1>6. Rest = new
  BY DEF Rest
<1>7. QED
  BY <1>5, <1>6

LEMMA PollFindKeeps ==
  ASSUME SyncInv, PollFind
  PROVE  SyncInv'
<1> DEFINE i == Said.item
           P == poll
           old == P.since > 0 /\ Said.stamp < P.since
           TurnedTo(P2) == Turned(item, row, recorded, cursor, clock, setup.behind, setup.pulls, P2)
<1>1. P.at = "each" /\ P.at \in Paged /\ UNCHANGED <<setup, clock, item, mail, recorded, hand, cursor, row>>
  BY DEF PollFind, Turn, Paged, world
<1>2. SaidIs(P, Said)
  BY <1>1, SaidKnown
<1>3. /\ item \in [Items -> ItemRecs] /\ row \in [Items -> RowRecs] /\ Sane(item, row, clock) /\ P \in PollRecs
      /\ PollOK(item, row, recorded, cursor, clock, setup.behind, setup.pulls, P)
  BY DEF SyncInv, SyncTypes
<1>4. setup.behind \in Int /\ setup.pulls \in SUBSET Items
  BY SceneIs DEF SyncInv
<1>5. CASE P.list = "issues" /\ i \in setup.pulls
  <2>1. poll' = Further(Rest)
    BY <1>5 DEF PollFind, Turn
  <2>2. Later(setup.pulls, P, i)
    BY <1>5 DEF Later
  <2>3. TurnedTo(Further(Rest))
    BY <1>1, <2>2, RestTurns
  <2>4. QED
    BY <1>1, <2>1, <2>3, OnlyTurned
<1>6. CASE P.list = "pulls" /\ old
  <2>1. poll' = NextList(P)
    BY <1>6 DEF PollFind, Turn
  <2>2. ListDone(item, row, recorded, setup.pulls, P)
    BY <1>1, <1>6, OldEnds
  <2>3. InTime(cursor, clock, P)
    BY <1>1, <1>3 DEF PollOK, InTime, Timed, Busy
  <2>4. TurnedTo(NextList(P))
    BY <1>3, <1>4, <2>2, <2>3, NextListOK
  <2>5. QED
    BY <1>1, <2>1, <2>4, OnlyTurned
<1>7. CASE P.list = "pulls" /\ ~old /\ i \in recorded
  <2> DEFINE P2 == [P EXCEPT !.at = "run"]
  <2>1. poll' = P2
    BY <1>7 DEF PollFind, Turn
  <2>2. /\ P2 \in PollRecs /\ P2.at = "run" /\ P2.list = P.list /\ P2.now = P.now /\ P2.since = P.since
        /\ P2.page = P.page /\ P2.todo = P.todo /\ P2.full = P.full
    BY <1>3 DEF PollRecs
  <2> HIDE DEF P2
  <2>3. Holds(row, recorded, P2)
    BY <1>2, <1>7, <2>2 DEF Holds, SaidIs
  <2>4. TurnedTo(P2)
    BY <1>1, <1>3, <2>2, <2>3, SamePage
  <2>5. QED
    BY <1>1, <2>1, <2>4, OnlyTurned
<1>8. CASE ~(P.list = "issues" /\ i \in setup.pulls) /\ ~(P.list = "pulls" /\ old)
           /\ ~(P.list = "pulls" /\ ~old /\ i \in recorded)
  <2> DEFINE f == row[i].version
             e == row[i].status = "ended"
             P2 == [P EXCEPT !.at = "write", !.found = f, !.ended = e]
  <2>1. poll' = P2
    BY <1>8 DEF PollFind, Turn
  <2>2. /\ f \in Nat /\ e \in BOOLEAN
        /\ row[i].version \in Nat /\ row[i].newest \in Nat /\ row[i].version <= row[i].newest
    BY <1>2, <1>3 DEF RowRecs, SaidIs, Sane
  <2>f. f = row[i].version
    OBVIOUS
  <2> HIDE DEF f, e
  <2>3. /\ P2 \in PollRecs /\ P2.at = "write" /\ P2.list = P.list /\ P2.now = P.now /\ P2.since = P.since
        /\ P2.page = P.page /\ P2.todo = P.todo /\ P2.full = P.full /\ P2.found = f
    BY <1>3, <2>2 DEF PollRecs
  <2> HIDE DEF P2
  <2>4. Holds(row, recorded, P2)
    <3>1. f # 0 => row[i].version > 0 /\ f <= row[i].newest
      BY <2>2, <2>f
    <3>2. P2.todo[1].item = i /\ P2.todo # <<>>
      BY <1>2, <2>3 DEF SaidIs
    <3>3. QED
      BY <2>3, <3>1, <3>2 DEF Holds
  <2>5. TurnedTo(P2)
    BY <1>1, <1>3, <2>3, <2>4, SamePage
  <2>6. QED
    BY <1>1, <2>1, <2>5, OnlyTurned
<1>9. QED
  BY <1>5, <1>6, <1>7, <1>8

LEMMA PollRunKeeps ==
  ASSUME SyncInv, PollRun
  PROVE  SyncInv'
<1>1. poll.at = "run" /\ poll.at \in Paged /\ poll' = Further(Rest)
      /\ UNCHANGED <<setup, clock, item, mail, recorded, hand, cursor, row>>
  BY DEF PollRun, Turn, Paged, world
<1>2. SaidIs(poll, Said)
  BY <1>1, SaidKnown
<1>3. Said.item \in recorded
  BY <1>1, <1>2 DEF SyncInv, PollOK, Holds, SaidIs
<1>4. Turned(item, row, recorded, cursor, clock, setup.behind, setup.pulls, Further(Rest))
  BY <1>1, <1>3, RestTurns DEF Seen
<1>5. QED
  BY <1>1, <1>4, OnlyTurned

LEMMA PollTaskKeeps ==
  ASSUME SyncInv, PollTask
  PROVE  SyncInv'
<1> DEFINE i == Said.item
<1>1. /\ poll.at = "task" /\ poll.at \in Paged /\ poll' = Further(Rest)
      /\ UNCHANGED <<setup, clock, item, mail, recorded, hand, cursor>>
      /\ row' = [row EXCEPT ![i].task = TRUE] \/ row' = row
  BY DEF PollTask, Turn, Paged, world
<1>2. SaidIs(poll, Said) /\ row \in [Items -> RowRecs] /\ Sane(item, row, clock) /\ Blank(row)
  BY <1>1, SaidKnown DEF SyncInv, SyncTypes
<1>3. row' \in [Items -> RowRecs]
  <2> DEFINE r == [row[i] EXCEPT !.task = TRUE]
  <2>1. i \in Items /\ row[i] \in RowRecs
    BY <1>2 DEF SaidIs
  <2>2. r \in RowRecs
    BY <2>1 DEF RowRecs
  <2>3. row' = [row EXCEPT ![i] = r] \/ row' = row
    BY <1>1
  <2> HIDE DEF r
  <2>4. QED
    BY <1>2, <2>1, <2>2, <2>3
<1>4. \A j \in Items : row'[j].version = row[j].version /\ row'[j].newest = row[j].newest
  <2>1. ASSUME NEW j \in Items, row' = [row EXCEPT ![i].task = TRUE]
        PROVE  row'[j].version = row[j].version /\ row'[j].newest = row[j].newest
    <3>1. row[j] \in RowRecs
      BY <1>2
    <3>2. row'[j] = row[j] \/ row'[j] = [row[j] EXCEPT !.task = TRUE]
      BY <1>2, <2>1
    <3>3. QED
      BY <3>1, <3>2 DEF RowRecs
  <2>2. QED
    BY <1>1, <2>1
<1>5. Sane(item, row', clock) /\ Blank(row') /\ \A j \in Items : Dealt(item, row, j) => Dealt(item, row', j)
  BY <1>2, <1>4 DEF Sane, Blank, Dealt
<1> DEFINE R2 == row'
<1>6. \A j \in Items : Dealt(item, row, j) => Dealt(item, R2, j)
  BY <1>5
<1> HIDE DEF R2
<1>7. Turned(item, R2, recorded, cursor, clock, setup.behind, setup.pulls, Further(Rest))
  BY <1>1, <1>6, RestTurns
<1>8. QED
  BY <1>1, <1>3, <1>5, <1>7, TurnedKeeps DEF R2

\* The row of said is written: it says what said does.
LEMMA RowIsWritten ==
  ASSUME SyncInv, NEW said, SaidIs(poll, said), NEW r \in RowRecs,
         r.version = said.version, r.newest = said.version, NEW R2, R2 = [row EXCEPT ![said.item] = r]
  PROVE  /\ R2 \in [Items -> RowRecs] /\ Sane(item, R2, clock) /\ Blank(R2)
         /\ \A i \in Items : Seen(item, recorded, poll.now, i) /\ Dealt(item, row, i) => Dealt(item, R2, i)
         /\ Seen(item, recorded, poll.now, said.item) => Dealt(item, R2, said.item)
<1>1. /\ row \in [Items -> RowRecs] /\ Sane(item, row, clock) /\ Blank(row) /\ said.item \in Items
      /\ said.version \in Nat /\ said.version >= 1 /\ said.version <= item[said.item].version
      /\ item[said.item].changed < poll.now => said.version = item[said.item].version
  BY DEF SyncInv, SyncTypes, SaidIs
<1>2. R2 \in [Items -> RowRecs]
  BY <1>1
<1>3. R2[said.item] = r /\ \A i \in Items : i # said.item => R2[i] = row[i]
  BY <1>1 DEF RowRecs
<1>4. r.version <= r.newest /\ r.newest <= item[said.item].version
  BY <1>1
<1>5. Sane(item, R2, clock)
  BY <1>1, <1>3, <1>4 DEF Sane
<1>b. Blank(R2)
  <2>1. r.version # 0
    BY <1>1
  <2>2. QED
    BY <1>1, <1>3, <2>1 DEF Blank
<1>6. Seen(item, recorded, poll.now, said.item) => Dealt(item, R2, said.item)
  BY <1>1, <1>3 DEF Seen, Dealt
<1>7. \A i \in Items : Seen(item, recorded, poll.now, i) /\ Dealt(item, row, i) => Dealt(item, R2, i)
  BY <1>3, <1>6 DEF Dealt
<1>8. QED
  BY <1>2, <1>5, <1>6, <1>7, <1>b

LEMMA PollWriteKeeps ==
  ASSUME SyncInv, PollWrite
  PROVE  SyncInv'
<1> DEFINE i == Said.item
           reset == i \notin setup.pulls /\ Said.open /\ poll.ended
           P == poll
           TurnedTo(R2, P2) == Turned(item, R2, recorded, cursor, clock, setup.behind, setup.pulls, P2)
<1>1. P.at = "write" /\ P.at \in Paged /\ P.at \in Busy /\ UNCHANGED <<setup, clock, item, mail, recorded, hand, cursor>>
  BY DEF PollWrite, Turn, Paged, Busy, world
<1>2. SaidIs(P, Said)
  BY <1>1, SaidKnown
<1>3. /\ item \in [Items -> ItemRecs] /\ row \in [Items -> RowRecs] /\ Sane(item, row, clock) /\ P \in PollRecs
      /\ PollOK(item, row, recorded, cursor, clock, setup.behind, setup.pulls, P) /\ cursor \in Nat
  BY DEF SyncInv, SyncTypes
<1>4. cursor <= P.now /\ P.now \in Nat
  BY <1>1, <1>3 DEF PollOK, Timed, PollRecs
<1>5. \A j \in Items : Seen(item, recorded, cursor, j) => Seen(item, recorded, P.now, j)
  <2>1. \A j \in Items : item[j].changed \in Nat
    BY <1>3 DEF ItemRecs
  <2>2. QED
    BY <1>3, <1>4, <2>1 DEF Seen
<1>6. i \in Items /\ Said.version \in Nat /\ 0 \in Nat /\ Said.version # 0
  BY <1>2 DEF SaidIs
<1>7. CASE P.found = 0 /\ ~HasRow(i)
  <2> DEFINE r == RowOf(Said)
             R2 == [row EXCEPT ![i] = r]
             P2 == [P EXCEPT !.at = "task"]
  <2>1. row' = R2 /\ poll' = P2
    <3>1. row' = [row EXCEPT ![Said.item] = RowOf(Said)] /\ Turn([poll EXCEPT !.at = "task"])
      BY <1>6, <1>7 DEF PollWrite
    <3>2. QED
      BY <3>1 DEF Turn
  <2>2. r \in RowRecs /\ r.version = Said.version /\ r.newest = Said.version
    BY <1>6 DEF RowOf, NoRow, RowRecs
  <2> HIDE DEF r
  <2>3. /\ R2 \in [Items -> RowRecs] /\ Sane(item, R2, clock) /\ Blank(R2)
        /\ \A j \in Items : Seen(item, recorded, P.now, j) /\ Dealt(item, row, j) => Dealt(item, R2, j)
        /\ Seen(item, recorded, P.now, i) => Dealt(item, R2, i)
    BY <1>2, <2>2, RowIsWritten
  <2>4. /\ P2 \in PollRecs /\ P2.at = "task" /\ P2.list = P.list /\ P2.now = P.now /\ P2.since = P.since
        /\ P2.page = P.page /\ P2.todo = P.todo /\ P2.full = P.full
    BY <1>3 DEF PollRecs
  <2> HIDE DEF R2, P2
  <2>5. Timed(cursor, clock, P2) /\ TodoOK(item, setup.behind, P2) /\ Sorted(P2)
    BY <1>1, <1>3, <2>4 DEF PollOK, Timed, TodoOK, Sorted, Busy, Paged
  <2>6. Holds(R2, recorded, P2)
    BY <1>2, <2>4 DEF Holds, SaidIs
  <2>7. ASSUME NEW j \in Items, Seen(item, recorded, P2.now, j)
        PROVE  Dealt(item, R2, j) \/ Awaited(item, setup.behind, setup.pulls, P2, j)
    <3>1. Seen(item, recorded, P.now, j)
      BY <2>4, <2>7
    <3>2. Dealt(item, row, j) \/ Awaited(item, setup.behind, setup.pulls, P, j)
      BY <1>1, <1>3, <3>1 DEF PollOK, Pending
    <3>3. \/ Dealt(item, row, j) \/ Later(setup.pulls, P, j)
          \/ Now(setup.pulls, P, j) /\ (InTodo(P, 1, j) \/ Behind(item, setup.behind, setup.pulls, P, j))
      BY <1>1, <3>2 DEF Awaited
    <3>4. Behind(item, setup.behind, setup.pulls, P, j) => Behind(item, setup.behind, setup.pulls, P2, j)
      BY <2>4 DEF Behind, FromPlace
    <3>5. ASSUME InTodo(P, 1, j)
          PROVE  Dealt(item, R2, j) \/ InTodo(P2, 2, j)
      <4>1. PICK k \in DOMAIN P.todo : k >= 1 /\ P.todo[k].item = j
        BY <3>5 DEF InTodo
      <4>2. k \in Int
        BY <1>2, SequenceIs DEF SaidIs
      <4>3. CASE k = 1
        BY <1>2, <2>3, <3>1, <4>1, <4>3 DEF SaidIs
      <4>4. CASE k >= 2
        BY <2>4, <4>1, <4>4 DEF InTodo
      <4>5. QED
        BY <4>1, <4>2, <4>3, <4>4
    <3>6. Later(setup.pulls, P, j) => Later(setup.pulls, P2, j)
      BY <2>4 DEF Later
    <3>7. Now(setup.pulls, P, j) => Now(setup.pulls, P2, j)
      BY <2>4 DEF Now
    <3>8. \/ Dealt(item, R2, j) \/ Later(setup.pulls, P2, j)
          \/ Now(setup.pulls, P2, j) /\ (InTodo(P2, 2, j) \/ Behind(item, setup.behind, setup.pulls, P2, j))
      BY <2>3, <3>1, <3>3, <3>4, <3>5, <3>6, <3>7
    <3>9. QED
      BY <2>4, <3>8 DEF Awaited
  <2>8. TurnedTo(R2, P2)
    BY <2>4, <2>5, <2>6, <2>7 DEF Turned, PollOK, Pending
  <2>9. QED
    <3>1. /\ row' \in [Items -> RowRecs] /\ Sane(item, row', clock) /\ Blank(row')
          /\ \A j \in Items : Seen(item, recorded, P.now, j) /\ Dealt(item, row, j) => Dealt(item, row', j)
          /\ TurnedTo(row', poll')
      BY <2>1, <2>3, <2>8
    <3>2. \A j \in Items : Seen(item, recorded, cursor, j) /\ Dealt(item, row, j) => Dealt(item, row', j)
      BY <1>5, <3>1
    <3>3. QED
      BY <1>1, <3>1, <3>2, TurnedKeeps
<1>8. CASE P.found = 0 /\ HasRow(i)
  <2>1. poll' = IdlePoll /\ row' = row
    BY <1>6, <1>8 DEF PollWrite, Turn
  <2>2. TurnedTo(row, IdlePoll)
    BY IdleOK
  <2>3. QED
    BY <1>1, <2>1, <2>2, OnlyTurned
<1>9. CASE P.found # 0 /\ P.found = Said.version /\ ~reset
  <2>1. poll' = Further(Rest) /\ row' = row
    BY <1>9 DEF PollWrite, Turn
  <2>2. row[i].version > 0 /\ P.found <= row[i].newest
    BY <1>1, <1>2, <1>3, <1>9 DEF PollOK, Holds, SaidIs
  <2>3. row[i].newest \in Nat /\ row[i].newest <= item[i].version /\ item[i].version \in Nat
    BY <1>3, <1>6 DEF RowRecs, ItemRecs, Sane
  <2>4. Seen(item, recorded, P.now, i) => Dealt(item, row, i)
    <3>1. ASSUME Seen(item, recorded, P.now, i)
          PROVE  Said.version = item[i].version
      BY <1>2, <3>1 DEF Seen, SaidIs
    <3>2. Said.version <= row[i].newest
      BY <1>9, <2>2
    <3>3. QED
      BY <1>6, <2>2, <2>3, <3>1, <3>2 DEF Dealt
  <2>5. TurnedTo(row, Further(Rest))
    BY <1>1, <2>4, RestTurns
  <2>6. QED
    BY <1>1, <2>1, <2>5, OnlyTurned
<1>10. CASE P.found # 0 /\ ~(P.found = Said.version /\ ~reset)
  <2> DEFINE s == IF reset THEN "pending" ELSE row[i].status
             r == [row[i] EXCEPT !.version = Said.version, !.newest = Said.version, !.status = s]
             R2 == [row EXCEPT ![i] = r]
  <2>1. row' = R2 /\ poll' = Further(Rest)
    BY <1>10 DEF PollWrite, Turn
  <2>2. row[i] \in RowRecs
    BY <1>3, <1>6
  <2>3. s \in {"pending", "ended"}
    BY <2>2 DEF RowRecs
  <2> HIDE DEF s
  <2>4. r \in RowRecs /\ r.version = Said.version /\ r.newest = Said.version
    BY <1>6, <2>2, <2>3 DEF RowRecs
  <2> HIDE DEF r
  <2>5. /\ R2 \in [Items -> RowRecs] /\ Sane(item, R2, clock) /\ Blank(R2)
        /\ \A j \in Items : Seen(item, recorded, P.now, j) /\ Dealt(item, row, j) => Dealt(item, R2, j)
        /\ Seen(item, recorded, P.now, i) => Dealt(item, R2, i)
    BY <1>2, <2>4, RowIsWritten
  <2> HIDE DEF R2
  <2>6. TurnedTo(R2, Further(Rest))
    BY <1>1, <2>5, RestTurns
  <2>7. QED
    BY <1>1, <1>5, <2>1, <2>5, <2>6, TurnedKeeps
<1>11. QED
  BY <1>7, <1>8, <1>9, <1>10

LEMMA PollingKeeps ==
  ASSUME SyncInv, Polling, Enough
  PROVE  SyncInv'
BY PollTimerKeeps, PollStartKeeps, PollListKeeps, PollFindKeeps, PollRunKeeps, PollWriteKeeps,
   PollTaskKeeps, PollEndKeeps DEF Polling

-----------------------------------------------------------------------------
(* The steps beside the loop                                                 *)

LEMMA ChangesKeeps ==
  ASSUME SyncInv, NEW i \in Items, NEW open \in BOOLEAN, Changes(i, open)
  PROVE  SyncInv'
<1> DEFINE next == [version |-> item[i].version + 1, changed |-> clock, open |-> open]
           said == [item |-> i, version |-> next.version, stamp |-> clock - setup.behind, open |-> open]
<1>1. /\ item' = [item EXCEPT ![i] = next]
      /\ UNCHANGED <<setup, clock, row, recorded, cursor, poll, hand>>
      /\ \A m \in mail' : m \in mail \/ (m.said = said /\ m.action \in {"opened", "reopened", "other"}
                                         /\ m = [said |-> m.said, action |-> m.action])
  BY DEF Changes
<1>2. /\ SyncTypes /\ Sane(item, row, clock) /\ Blank(row) /\ cursor <= clock /\ TellsSo(item, hand, mail)
      /\ Kept(item, row, recorded, cursor)
      /\ PollOK(item, row, recorded, cursor, clock, setup.behind, setup.pulls, poll)
      /\ item \in [Items -> ItemRecs] /\ clock \in Nat /\ cursor \in Nat /\ poll \in PollRecs
      /\ row \in [Items -> RowRecs] /\ mail \subseteq Mails /\ hand \in [Hands -> HandRecs]
  BY DEF SyncInv, SyncTypes
<1>3. setup.behind \in Int /\ setup.pulls \in SUBSET Items
  BY <1>2, SceneIs
<1>4. item[i].version \in Nat
  BY <1>2 DEF ItemRecs
<1>5. next \in ItemRecs /\ next.version = item[i].version + 1 /\ next.changed = clock
  BY <1>2, <1>4 DEF ItemRecs
<1>6. said \in Sayings /\ said.item = i /\ said.version = item[i].version + 1
  BY <1>2, <1>3, <1>4, ItemsAreInts DEF Sayings
<1> HIDE DEF next, said
<1>7. item' \in [Items -> ItemRecs] /\ item'[i] = next /\ \A j \in Items \ {i} : item'[j] = item[j]
  BY <1>1, <1>2, <1>5
<1>8. Kept(item', row, recorded, cursor) /\ PollOK(item', row, recorded, cursor, clock, setup.behind, setup.pulls, poll)
  BY <1>2, <1>3, <1>5, <1>7, ItemChanges
<1>9. Sane(item', row, clock)
  <2>1. row[i].newest \in Nat /\ row[i].newest <= item[i].version
    BY <1>2 DEF RowRecs, Sane
  <2>2. row[i].newest <= next.version /\ next.changed <= clock
    BY <1>2, <1>4, <1>5, <2>1
  <2>3. QED
    BY <1>2, <1>7, <2>2 DEF Sane
<1>10. ASSUME NEW s, s \in Sayings, Told(item, s)
       PROVE  Told(item', s)
  <2>1. s.version \in Nat /\ s.item \in Items /\ s.version >= 1 /\ s.version <= item[s.item].version
    BY <1>10 DEF Sayings, Told
  <2>2. s.version <= item'[s.item].version
    BY <1>4, <1>5, <1>7, <2>1
  <2>3. QED
    BY <2>1, <2>2 DEF Told
<1>11. Told(item', said)
  BY <1>4, <1>5, <1>6, <1>7 DEF Told
<1>12. TellsSo(item', hand, mail') /\ mail' \subseteq Mails
  <2>1. ASSUME NEW m \in mail'
        PROVE  m \in Mails /\ Told(item', m.said)
    <3>1. CASE m \in mail
      <4>1. m \in Mails /\ m.said \in Sayings /\ Told(item, m.said)
        BY <1>2, <3>1 DEF Mails, TellsSo
      <4>2. QED
        BY <1>10, <4>1
    <3>2. CASE m.said = said /\ m.action \in {"opened", "reopened", "other"} /\ m = [said |-> m.said, action |-> m.action]
      <4>1. m \in Mails
        BY <1>6, <3>2 DEF Mails
      <4>2. QED
        BY <1>11, <3>2, <4>1
    <3>3. QED
      BY <1>1, <3>1, <3>2
  <2>2. ASSUME NEW h \in Hands, hand[h].at # "idle"
        PROVE  Told(item', hand[h].said)
    <3>1. hand[h].said \in Sayings /\ Told(item, hand[h].said)
      BY <1>2, <2>2 DEF HandRecs, TellsSo
    <3>2. QED
      BY <1>10, <3>1
  <2>3. QED
    BY <2>1, <2>2 DEF TellsSo
<1>13. SyncTypes'
  BY <1>1, <1>2, <1>7, <1>12 DEF SyncTypes
<1>14. QED
  BY <1>1, <1>2, <1>8, <1>9, <1>12, <1>13 DEF SyncInv, Blank

\* The rows R are as new in R2, and say nothing that was not so.
Newer(I, r, r2, i) ==
  /\ r.newest <= r2.newest /\ r2.newest <= I[i].version /\ r2.version <= r2.newest
  /\ r2.version = 0 => r2.newest = 0
  /\ r.version > 0 => r2.version > 0
Grow(I, R, R2) == \A i \in Items : Newer(I, R[i], R2[i], i)

\* What the handlers are in the middle of was once so.
InHand(I, H) == H \in [Hands -> HandRecs] /\ \A h \in Hands : H[h].at # "idle" => Told(I, H[h].said)

\* Rows that say newer things, pull requests that a run has, time, and what the
\* handlers have in hand.
LEMMA GrowingKeeps ==
  ASSUME SyncInv, UNCHANGED <<setup, item, mail, cursor, poll>>,
         clock' \in Nat, clock <= clock', recorded \subseteq recorded', recorded' \subseteq Items,
         row' \in [Items -> RowRecs], InHand(item, hand'), Grow(item, row, row')
  PROVE  SyncInv'
<1>1. /\ SyncTypes /\ Sane(item, row, clock) /\ cursor <= clock /\ TellsSo(item, hand, mail)
      /\ Kept(item, row, recorded, cursor)
      /\ PollOK(item, row, recorded, cursor, clock, setup.behind, setup.pulls, poll)
      /\ item \in [Items -> ItemRecs] /\ clock \in Nat /\ cursor \in Nat /\ poll \in PollRecs
      /\ row \in [Items -> RowRecs]
  BY DEF SyncInv, SyncTypes
<1>2. \A i \in Items : item[i].changed \in Nat
  BY <1>1 DEF ItemRecs
<1>3. Sane(item, row', clock') /\ Blank(row') /\ cursor <= clock'
  BY <1>1, <1>2 DEF Sane, Blank, Grow, Newer
<1>4. TellsSo(item, hand', mail)
  BY <1>1 DEF TellsSo, InHand
<1> DEFINE R2 == row'
           D2 == recorded'
           t2 == clock'
<1>5. /\ R2 \in [Items -> RowRecs] /\ t2 \in Nat /\ clock <= t2 /\ recorded \subseteq D2
      /\ \A i \in Items : /\ row[i].newest <= R2[i].newest /\ R2[i].newest <= item[i].version
                          /\ row[i].version > 0 => R2[i].version > 0
  BY DEF Grow, Newer
<1> HIDE DEF R2, D2, t2
<1>6. Kept(item, R2, D2, cursor) /\ PollOK(item, R2, D2, cursor, t2, setup.behind, setup.pulls, poll)
  BY <1>1, <1>5, RowsNewer
<1>7. SyncTypes'
  BY <1>1 DEF SyncTypes, InHand
<1>8. QED
  BY <1>3, <1>4, <1>6, <1>7 DEF SyncInv, R2, D2, t2

LEMMA RowsAsTheyAre ==
  ASSUME SyncInv
  PROVE  /\ row \in [Items -> RowRecs] /\ clock \in Nat /\ clock <= clock /\ recorded \subseteq Items
         /\ InHand(item, hand) /\ Grow(item, row, row)
<1>1. /\ row \in [Items -> RowRecs] /\ hand \in [Hands -> HandRecs] /\ clock \in Nat /\ recorded \subseteq Items
      /\ Sane(item, row, clock) /\ Blank(row) /\ TellsSo(item, hand, mail)
  BY DEF SyncInv, SyncTypes
<1>2. ASSUME NEW i \in Items
      PROVE  Newer(item, row[i], row[i], i)
  <2>1. row[i].newest \in Nat /\ row[i].newest <= row[i].newest
    BY <1>1 DEF RowRecs
  <2>2. QED
    BY <1>1, <2>1 DEF Newer, Sane, Blank
<1>3. InHand(item, hand)
  BY <1>1 DEF InHand, TellsSo
<1>4. clock <= clock
  BY <1>1
<1>5. QED
  BY <1>1, <1>2, <1>3, <1>4 DEF Grow

LEMMA TickKeeps ==
  ASSUME SyncInv, Tick
  PROVE  SyncInv'
<1>1. clock' = clock + 1 /\ UNCHANGED <<setup, item, mail, row, recorded, cursor, poll, hand>>
  BY DEF Tick, world
<1>2. clock \in Nat
  BY RowsAsTheyAre
<1>3. clock' \in Nat /\ clock <= clock'
  BY <1>1, <1>2
<1>4. InHand(item, hand') /\ Grow(item, row, row') /\ row' \in [Items -> RowRecs] /\ recorded' \subseteq Items
  BY <1>1, RowsAsTheyAre
<1>5. QED
  BY <1>1, <1>3, <1>4, GrowingKeeps

LEMMA RecordedKeeps ==
  ASSUME SyncInv, NEW i \in Items, Recorded(i)
  PROVE  SyncInv'
<1>1. recorded' = recorded \cup {i} /\ UNCHANGED <<setup, clock, item, mail, row, cursor, poll, hand>>
  BY DEF Recorded
<1>2. clock' \in Nat /\ clock <= clock' /\ recorded \subseteq recorded' /\ recorded' \subseteq Items
  BY <1>1, RowsAsTheyAre
<1>3. InHand(item, hand') /\ Grow(item, row, row') /\ row' \in [Items -> RowRecs]
  BY <1>1, RowsAsTheyAre
<1>4. QED
  BY <1>1, <1>2, <1>3, GrowingKeeps

\* One row is written, and does not get older.
LEMMA OneRowKeeps ==
  ASSUME SyncInv, UNCHANGED <<setup, clock, item, mail, recorded, cursor, poll>>, InHand(item, hand'),
         NEW i \in Items, NEW r \in RowRecs, row' = [row EXCEPT ![i] = r], Newer(item, row[i], r, i)
  PROVE  SyncInv'
<1>1. row \in [Items -> RowRecs] /\ Grow(item, row, row)
  BY RowsAsTheyAre
<1>2. row' \in [Items -> RowRecs] /\ row'[i] = r /\ \A j \in Items : j # i => row'[j] = row[j]
  BY <1>1
<1>3. clock' \in Nat /\ clock <= clock' /\ recorded \subseteq recorded' /\ recorded' \subseteq Items
  BY RowsAsTheyAre
<1>4. Grow(item, row, row')
  BY <1>1, <1>2 DEF Grow
<1>5. QED
  BY <1>2, <1>3, <1>4, GrowingKeeps

\* Only what the handlers have in hand changes.
LEMMA OnlyHands ==
  ASSUME SyncInv, UNCHANGED <<setup, clock, item, row, mail, recorded, cursor, poll>>, InHand(item, hand')
  PROVE  SyncInv'
<1>1. clock' \in Nat /\ clock <= clock' /\ recorded \subseteq recorded' /\ recorded' \subseteq Items
  BY RowsAsTheyAre
<1>2. Grow(item, row, row') /\ row' \in [Items -> RowRecs]
  BY RowsAsTheyAre
<1>3. QED
  BY <1>1, <1>2, GrowingKeeps

LEMMA WorkEndsKeeps ==
  ASSUME SyncInv, NEW i \in Items, WorkEnds(i)
  PROVE  SyncInv'
<1> DEFINE r == [row[i] EXCEPT !.status = "ended"]
<1>1. row' = [row EXCEPT ![i] = r] /\ UNCHANGED <<setup, clock, item, mail, recorded, cursor, poll, hand>>
  BY DEF WorkEnds
<1>2. row[i] \in RowRecs /\ Newer(item, row[i], row[i], i)
  BY RowsAsTheyAre DEF Grow
<1>3. r \in RowRecs /\ r.version = row[i].version /\ r.newest = row[i].newest
  BY <1>2 DEF RowRecs
<1> HIDE DEF r
<1>4. Newer(item, row[i], r, i)
  BY <1>2, <1>3 DEF Newer
<1>5. InHand(item, hand')
  BY <1>1, RowsAsTheyAre
<1>6. QED
  BY <1>1, <1>3, <1>4, <1>5, OneRowKeeps

\* A handler is given something else to do.
LEMMA HandIs ==
  ASSUME SyncInv, NEW h \in Hands, NEW state \in HandRecs, NEW H2, H2 = [hand EXCEPT ![h] = state],
         state.at = "idle" \/ Told(item, state.said)
  PROVE  InHand(item, H2)
<1>1. InHand(item, hand)
  BY RowsAsTheyAre
<1>2. H2 \in [Hands -> HandRecs] /\ H2[h] = state /\ \A k \in Hands : k # h => H2[k] = hand[k]
  BY <1>1 DEF InHand
<1>3. QED
  BY <1>1, <1>2 DEF InHand

LEMMA IdleHandIs == IdleHand \in HandRecs /\ IdleHand.at = "idle"
<1>1. NoItem \in Sayings
  BY DEF NoItem, Sayings
<1>2. QED
  BY <1>1 DEF IdleHand, HandRecs

\* What a handler says of an item.
LEMMA InHandIs ==
  ASSUME SyncInv, NEW h \in Hands, hand[h].at # "idle"
  PROVE  LET said == hand[h].said
         IN /\ said \in Sayings /\ Told(item, said) /\ said.item \in Items /\ said.version \in Nat
            /\ said.version >= 1 /\ said.version > 0 /\ said.version # 0 /\ said.version <= item[said.item].version
<1>1. InHand(item, hand)
  BY RowsAsTheyAre
<1>2. hand[h].said \in Sayings /\ Told(item, hand[h].said)
  BY <1>1 DEF InHand, HandRecs
<1>3. hand[h].said.version \in Nat
  BY <1>2 DEF Sayings
<1>4. hand[h].said.item \in Items /\ hand[h].said.version >= 1 /\ hand[h].said.version <= item[hand[h].said.item].version
  BY <1>2 DEF Told
<1>5. QED
  BY <1>2, <1>3, <1>4

LEMMA HookWriteKeeps ==
  ASSUME SyncInv, NEW h \in Hands, HookWrite(h)
  PROVE  SyncInv'
<1> DEFINE said == hand[h].said
           i == said.item
           n == IF said.version > row[i].newest THEN said.version ELSE row[i].newest
           s == IF hand[h].reopens THEN "pending" ELSE row[i].status
           r == [row[i] EXCEPT !.version = said.version, !.newest = n, !.status = s]
           idle == IdleHand
<1>1. row' = [row EXCEPT ![i] = r]
  BY DEF HookWrite
<1>2. hand[h].at = "hook" /\ hand' = [hand EXCEPT ![h] = idle]
      /\ UNCHANGED <<setup, clock, item, mail, recorded, cursor, poll>>
  BY DEF HookWrite, Handles, world
<1>3. i \in Items /\ said.version > 0 /\ said.version # 0 /\ said.version <= item[i].version /\ said.version \in Nat
  BY <1>2, InHandIs
<1>4. row[i] \in RowRecs /\ Newer(item, row[i], row[i], i) /\ item \in [Items -> ItemRecs]
  BY <1>3, RowsAsTheyAre DEF Grow, SyncInv, SyncTypes
<1>5. row[i].newest \in Nat /\ row[i].newest <= item[i].version /\ row[i].status \in {"pending", "ended"} /\ item[i].version \in Nat
  BY <1>3, <1>4 DEF RowRecs, Newer, ItemRecs
<1>6. n \in Nat /\ row[i].newest <= n /\ n <= item[i].version /\ said.version <= n
  BY <1>3, <1>5
<1>7. s \in {"pending", "ended"}
  BY <1>5
<1> HIDE DEF n, s
<1>8. r \in RowRecs /\ r.version = said.version /\ r.newest = n
  BY <1>3, <1>4, <1>6, <1>7 DEF RowRecs
<1> HIDE DEF r
<1>9. Newer(item, row[i], r, i)
  BY <1>3, <1>6, <1>8 DEF Newer
<1>10. InHand(item, hand')
  BY <1>2, HandIs, IdleHandIs
<1>11. QED
  BY <1>1, <1>2, <1>3, <1>8, <1>9, <1>10, OneRowKeeps

LEMMA HandCreateKeeps ==
  ASSUME SyncInv, NEW h \in Hands, HandCreate(h)
  PROVE  SyncInv'
<1> DEFINE said == hand[h].said
           i == said.item
           r == RowOf(said)
           idle == IdleHand
<1>1. row' = row \/ (~HasRow(i) /\ row' = [row EXCEPT ![i] = r])
  BY DEF HandCreate
<1>2. hand[h].at = "create" /\ hand' = [hand EXCEPT ![h] = idle]
      /\ UNCHANGED <<setup, clock, item, mail, recorded, cursor, poll>>
  BY DEF HandCreate, Handles, world
<1>3. i \in Items /\ said.version > 0 /\ said.version # 0 /\ said.version <= item[i].version /\ said.version \in Nat
  BY <1>2, InHandIs
<1>4. row[i] \in RowRecs /\ Newer(item, row[i], row[i], i)
  BY <1>3, RowsAsTheyAre DEF Grow
<1>5. InHand(item, hand')
  BY <1>2, HandIs, IdleHandIs
<1>6. r \in RowRecs /\ r.version = said.version /\ r.newest = said.version
  BY <1>3 DEF RowOf, NoRow, RowRecs
<1> HIDE DEF r
<1>7. CASE row' = row
  BY <1>2, <1>5, <1>7, OnlyHands
<1>8. CASE ~HasRow(i) /\ row' = [row EXCEPT ![i] = r]
  <2>1. row[i].version \in Nat
    BY <1>4 DEF RowRecs
  <2>2. row[i].version = 0
    BY <1>8, <2>1 DEF HasRow
  <2>3. row[i].newest = 0
    BY <1>4, <2>2 DEF Newer
  <2>4. 0 <= said.version /\ said.version <= said.version
    BY <1>3
  <2>5. Newer(item, row[i], r, i)
    BY <1>3, <1>6, <2>2, <2>3, <2>4 DEF Newer
  <2>6. QED
    BY <1>2, <1>3, <1>5, <1>6, <1>8, <2>5, OneRowKeeps
<1>9. QED
  BY <1>1, <1>7, <1>8

\* Mail is taken or lost.
LEMMA FewerMails ==
  ASSUME SyncInv, UNCHANGED <<setup, clock, item, row, recorded, cursor, poll>>, InHand(item, hand'),
         mail' \subseteq mail
  PROVE  SyncInv'
<1>1. TellsSo(item, hand', mail')
  BY DEF SyncInv, TellsSo, InHand
<1>2. SyncTypes'
  BY DEF SyncInv, SyncTypes, InHand
<1>3. QED
  BY <1>1, <1>2 DEF SyncInv

LEMMA HookFindKeeps ==
  ASSUME SyncInv, NEW h \in Hands, NEW m \in mail, HookFind(h, m)
  PROVE  SyncInv'
<1> DEFINE idle == IdleHand
           re == m.action = "reopened" /\ row[m.said.item].status = "ended"
           hook == [at |-> "hook", said |-> m.said, reopens |-> re]
           create == [IdleHand EXCEPT !.at = "create", !.said = m.said]
<1>1. /\ UNCHANGED <<setup, clock, item, row, recorded, cursor, poll>> /\ mail' \subseteq mail
      /\ \E state \in {idle, hook, create} : hand' = [hand EXCEPT ![h] = state]
  BY DEF HookFind, Handles
<1>2. m.said \in Sayings /\ Told(item, m.said)
  BY DEF SyncInv, SyncTypes, TellsSo, Mails
<1>3. re \in BOOLEAN
  OBVIOUS
<1> HIDE DEF re
<1>4. hook \in HandRecs /\ hook.said = m.said /\ create \in HandRecs /\ create.said = m.said
  BY <1>2, <1>3, IdleHandIs DEF HandRecs
<1> HIDE DEF hook, create
<1>5. InHand(item, hand')
  BY <1>1, <1>2, <1>4, HandIs, IdleHandIs
<1>6. QED
  BY <1>1, <1>5, FewerMails

LEMMA LoseMailKeeps ==
  ASSUME SyncInv, NEW m \in mail, LoseMail(m)
  PROVE  SyncInv'
<1>1. UNCHANGED <<setup, clock, item, row, recorded, cursor, poll, hand>> /\ mail' \subseteq mail
  BY DEF LoseMail
<1>2. InHand(item, hand')
  BY <1>1, RowsAsTheyAre
<1>3. QED
  BY <1>1, <1>2, FewerMails

LEMMA ImportKeeps ==
  ASSUME SyncInv, NEW h \in Hands, ImportFind(h) \/ \E i \in Items : ImportGet(h, i)
  PROVE  SyncInv'
<1>1. InHand(item, hand)
  BY RowsAsTheyAre
<1>2. CASE ImportFind(h)
  <2> DEFINE new == IF HasRow(hand[h].said.item) THEN IdleHand ELSE [hand[h] EXCEPT !.at = "create"]
  <2>1. /\ hand[h].at = "import" /\ hand' = [hand EXCEPT ![h] = new]
        /\ UNCHANGED <<setup, clock, item, row, mail, recorded, cursor, poll>>
    BY <1>2 DEF ImportFind, Handles, world
  <2>2. hand[h] \in HandRecs /\ Told(item, hand[h].said)
    BY <1>1, <2>1 DEF InHand
  <2>3. new \in HandRecs /\ (new.at = "idle" \/ new.said = hand[h].said)
    BY <2>2, IdleHandIs DEF HandRecs
  <2> HIDE DEF new
  <2>4. InHand(item, hand')
    BY <2>1, <2>2, <2>3, HandIs
  <2>5. QED
    BY <2>1, <2>4, OnlyHands
<1>3. ASSUME NEW i \in Items, ImportGet(h, i)
      PROVE  SyncInv'
  <2> DEFINE said == Says(i)
             new == [IdleHand EXCEPT !.at = "import", !.said = said]
  <2>1. /\ item[i].version > 0 /\ hand' = [hand EXCEPT ![h] = new]
        /\ UNCHANGED <<setup, clock, item, row, mail, recorded, cursor, poll>>
    BY <1>3 DEF ImportGet, Handles, world, Exists
  <2>2. item[i] \in ItemRecs /\ setup.behind \in Int
    BY SceneIs DEF SyncInv, SyncTypes
  <2>3. /\ item[i].version \in Nat /\ item[i].version >= 1 /\ item[i].version <= item[i].version
        /\ item[i].changed - setup.behind \in Int /\ item[i].open \in BOOLEAN /\ i \in Nat
    BY <2>1, <2>2, ItemsAreInts DEF ItemRecs
  <2>4. said \in Sayings /\ Told(item, said)
    BY <2>3 DEF Says, Stamp, Sayings, Told
  <2> HIDE DEF said
  <2>5. new \in HandRecs /\ new.said = said
    BY <2>4, IdleHandIs DEF HandRecs
  <2> HIDE DEF new
  <2>6. InHand(item, hand')
    BY <2>1, <2>4, <2>5, HandIs
  <2>7. QED
    BY <2>1, <2>6, OnlyHands
<1>4. QED
  BY <1>2, <1>3

LEMMA RestartKeeps ==
  ASSUME SyncInv, Restart
  PROVE  SyncInv'
<1> DEFINE H2 == [h \in Hands |-> IdleHand]
<1>1. poll' = IdlePoll /\ hand' = H2 /\ UNCHANGED <<setup, clock, item, mail, row, recorded, cursor>>
  BY DEF Restart, world
<1>2. H2 \in [Hands -> HandRecs] /\ \A h \in Hands : H2[h].at = "idle"
  BY IdleHandIs
<1> HIDE DEF H2
<1>3. Turned(item, row, recorded, cursor, clock, setup.behind, setup.pulls, IdlePoll)
  BY IdleOK
<1>4. SyncTypes'
  BY <1>1, <1>2, <1>3 DEF SyncInv, SyncTypes, Turned
<1>5. TellsSo(item, H2, mail)
  BY <1>2 DEF SyncInv, TellsSo
<1>6. QED
  BY <1>1, <1>3, <1>4, <1>5 DEF SyncInv, Turned

LEMMA InitHolds ==
  ASSUME SyncInit
  PROVE  SyncInv
<1> DEFINE noItem == [version |-> 0, changed |-> 0, open |-> FALSE]
           H2 == [h \in Hands |-> IdleHand]
<1>1. /\ setup \in SyncScenes /\ clock = 1 /\ item = [i \in Items |-> noItem] /\ mail = {}
      /\ row = [i \in Items |-> NoRow] /\ recorded = {} /\ cursor = 0 /\ poll = IdlePoll /\ hand = H2
  BY DEF SyncInit
<1>2. noItem \in ItemRecs /\ noItem.version = 0 /\ noItem.changed = 0
  BY DEF ItemRecs
<1>3. NoRow \in RowRecs /\ NoRow.version = 0 /\ NoRow.newest = 0
  BY DEF NoRow, RowRecs
<1> HIDE DEF noItem
<1>4. H2 \in [Hands -> HandRecs] /\ \A h \in Hands : H2[h].at = "idle"
  BY IdleHandIs
<1> HIDE DEF H2
<1>5. \A i \in Items : item[i].version = 0 /\ item[i].changed = 0 /\ row[i].version = 0 /\ row[i].newest = 0
  BY <1>1, <1>2, <1>3
<1>6. Turned(item, row, recorded, cursor, clock, setup.behind, setup.pulls, IdlePoll)
  BY IdleOK
<1>7. SyncTypes
  <2>1. 1 \in Nat /\ 0 \in Nat
    OBVIOUS
  <2>2. QED
    BY <1>1, <1>2, <1>3, <1>4, <1>6, <2>1 DEF SyncTypes, Turned
<1>8. Sane(item, row, clock) /\ Blank(row) /\ cursor <= clock /\ Kept(item, row, recorded, cursor)
  BY <1>1, <1>5 DEF Sane, Blank, Kept, Seen
<1>9. TellsSo(item, hand, mail)
  BY <1>1, <1>4 DEF TellsSo
<1>10. QED
  BY <1>1, <1>6, <1>7, <1>8, <1>9 DEF SyncInv, Turned

LEMMA SyncStep ==
  ASSUME SyncInv, [SyncNext]_syncVars, Enough
  PROVE  SyncInv'
<1>1. CASE SyncNext
  <2>1. CASE Tick \/ Polling \/ PollFails \/ Restart
    BY <2>1, TickKeeps, PollingKeeps, PollFailsKeeps, RestartKeeps
  <2>2. CASE \E i \in Items : WorkEnds(i) \/ Recorded(i) \/ \E open \in BOOLEAN : Changes(i, open)
    BY <2>2, WorkEndsKeeps, RecordedKeeps, ChangesKeeps
  <2>3. ASSUME NEW h \in Hands,
               Serving(h) \/ (\E m \in mail : HookFind(h, m)) \/ (\E i \in Items : ImportGet(h, i))
        PROVE  SyncInv'
    BY <2>3, HookWriteKeeps, HandCreateKeeps, ImportKeeps, HookFindKeeps DEF Serving
  <2>4. CASE \E m \in mail : LoseMail(m)
    BY <2>4, LoseMailKeeps
  <2>5. QED
    BY <1>1, <2>1, <2>2, <2>3, <2>4 DEF SyncNext
<1>2. CASE UNCHANGED syncVars
  <2>1. UNCHANGED <<setup, clock, item, mail, row, recorded, cursor, poll, hand>>
    BY <1>2 DEF syncVars, world
  <2>2. SyncTypes'
    BY <2>1 DEF SyncInv, SyncTypes
  <2>3. QED
    BY <2>1, <2>2 DEF SyncInv
<1>3. QED
  BY <1>1, <1>2

LEMMA CoversFromInv ==
  ASSUME SyncInv
  PROVE  CursorCovers
<1> SUFFICES ASSUME NEW i \in Items, Exists(i) /\ item[i].changed < cursor /\ i \notin recorded
             PROVE  HasRow(i) /\ (row[i].version < row[i].newest \/ row[i].version = item[i].version)
  BY DEF CursorCovers
<1>1. Dealt(item, row, i)
  BY DEF SyncInv, Kept, Seen, Exists
<1>2. row[i].version \in Nat /\ row[i].newest \in Nat
  BY DEF SyncInv, SyncTypes, RowRecs
<1>3. row[i].version <= row[i].newest
  BY DEF SyncInv, Sane
<1>4. QED
  BY <1>1, <1>2, <1>3 DEF Dealt, HasRow

\* Where MaxPages pages hold all there is, nothing that changed before the cursor is missed
\* (githubPolling.ts:367, 467): a sync has dealt with every item that had changed before it
\* began by the time it writes its beginning as the cursor.
THEOREM CursorCoversHolds ==
  Cardinality(Items) <= MaxPages * PageSize => (SyncSpec => []CursorCovers)
<1> SUFFICES ASSUME Enough
             PROVE  SyncSpec => []CursorCovers
  BY DEF Enough
<1>1. SyncInit => SyncInv
  BY InitHolds
<1>2. SyncInv /\ [SyncNext]_syncVars => SyncInv'
  BY SyncStep
<1>3. SyncInv => CursorCovers
  BY CoversFromInv
<1>4. QED
  BY <1>1, <1>2, <1>3, PTL DEF SyncSpec

================================================================================
