--------------------------- MODULE SandboxControl ---------------------------
(***************************************************************************)
(* The sandboxes of one proxy and what the backend believes of them: orders *)
(* of admins and pushes of branches go to the proxy, which carries them out *)
(* in a queue per run, beside the opening of runs, their keepalive and      *)
(* periodic inventories; reports come back and are written to the rows of   *)
(* the runs and of the sandbox instances.                                   *)
(*                                                                         *)
(* A native sandbox (host_process, bwrap) is an entry in the proxy's memory *)
(* and a look at it is reported before anything else happens; a container   *)
(* is looked at by a command of the runtime, and is reported as it was.     *)
(***************************************************************************)
EXTENDS Naturals, Sequences, FiniteSets, SequencesExt

CONSTANTS
  Runs,           \* the runs of the proxy; the instance of a run bears its name
  Pushes,         \* bound: requests to push a run's branch, by request_id
  MaxRuntimes,    \* bound: runtimes the proxy makes for one run
  Take,           \* the most instances sent as expected_instances (500 in the code)
  SandboxScenes   \* provider, what is ordered, what happens by itself, and how much of it

ASSUME SandboxBounds == MaxRuntimes \in Nat /\ Take \in Nat
ASSUME SandboxScenesKnown ==
  SandboxScenes \subseteq [provider : {"native", "container"}, workspace : {"host", "guest"},
                           orders : SUBSET STRING,
                           world : SUBSET {"drop", "keepalive", "inventory", "exit"},
                           runs : SUBSET Runs, budget : Nat]

VARIABLES
  sandbox,   \* which of the scenes this is
  link,      \* whether the proxy is connected, and whether the close of a socket is unhandled
  orders,    \* messages to the proxy
  reports,   \* messages to the backend
  filing,    \* inventories the backend is in the middle of writing down
  task,      \* what the proxy is at, in the order it was begun
  runtimeOf, \* per run: the number of its RunRuntime in the RunManager, and whether it expires
  made,      \* per run: runtimes made so far
  holds,     \* per run: the runtimes that hold an agent
  instance,  \* per run: the status of its instance, and whether it has its workspace
  row,       \* per run: Run.sandboxStatus, and whether a SandboxInstance row is there
  push,      \* per push: what became of the request
  pushed,    \* history: pushes that were made
  muddled,   \* history: runs of which a report was lost, or came after what it reports had gone
  budget     \* bound: orders and events left

sandboxVars == <<sandbox, link, orders, reports, filing, task, runtimeOf, made, holds, instance,
                 row, push, pushed, muddled, budget>>

Statuses == {"missing", "running", "stopped"}
RowStatuses == Statuses \cup {"none", "creating", "error"}
Actions == {"inspect", "ensure_running", "stop", "remove", "remove_workspace", "prune_orphans",
            "gc", "report_inventory", "open", "close", "git_push"}
NoRun == "no run"
NoPush == "no push"

ASSUME RunsAreFinite == IsFiniteSet(Runs) /\ NoRun \notin Runs

Order == [action : Actions, run : Runs \cup {NoRun}, expected : SUBSET Runs,
          id : Pushes \cup {NoPush}]
Item == [run : Runs, status : RowStatuses]
Report == [t : {"status", "exit"}, run : Runs, status : RowStatuses]
     \cup [t : {"inventory"}, instances : Seq(Item), absent : SUBSET Runs, deleted : SUBSET Runs]
     \cup [t : {"result"}, id : Pushes, ok : BOOLEAN]

\* A task: queue is 0 for the fallback queue of its run, the number of the runtime whose
\* queue it is in, or MaxRuntimes + 1 where it is in none; own is the runtime it is for.
Task == [kind : Actions \cup {"keepalive"}, run : Runs \cup {NoRun},
         queue : 0 .. MaxRuntimes + 1, own : 0 .. MaxRuntimes,
         at : {"begun", "queued", "act", "remove", "look", "tell"},
         expected : SUBSET Runs, id : Pushes \cup {NoPush},
         seen : Seq(Item), gone : SUBSET Runs]

\* The shapes of the state.
SandboxTypeOK ==
  /\ sandbox \in SandboxScenes
  /\ link \in [up : BOOLEAN, closing : BOOLEAN]
  /\ orders \in Seq(Order) /\ reports \in Seq(Report)
  /\ filing \in Seq(Seq(Item))
  /\ task \in Seq(Task)
  /\ runtimeOf \in [Runs -> [n : 0 .. MaxRuntimes, expires : BOOLEAN]]
  /\ made \in [Runs -> 0 .. MaxRuntimes]
  /\ holds \in [Runs -> SUBSET (1 .. MaxRuntimes)]
  /\ instance \in [Runs -> [status : Statuses, workspace : BOOLEAN]]
  /\ row \in [Runs -> [status : RowStatuses, known : BOOLEAN]]
  /\ push \in [Pushes -> {"none", "waiting", "ok", "failed", "lost"}]
  /\ pushed \subseteq Pushes
  /\ muddled \subseteq Runs
  /\ budget \in Nat

SandboxInit ==
  /\ sandbox \in SandboxScenes
  /\ link = [up |-> TRUE, closing |-> FALSE]
  /\ orders = <<>> /\ reports = <<>> /\ filing = <<>> /\ task = <<>>
  /\ runtimeOf = [r \in Runs |-> [n |-> 0, expires |-> FALSE]]
  /\ made = [r \in Runs |-> 0]
  /\ holds = [r \in Runs |-> {}]
  /\ instance = [r \in Runs |-> [status |-> "missing", workspace |-> FALSE]]
  /\ row = [r \in Runs |-> [status |-> "none", known |-> FALSE]]
  /\ push = [p \in Pushes |-> "none"]
  /\ pushed = {} /\ muddled = {}
  /\ budget = sandbox.budget

backendVars == <<filing, row, push>>
proxyVars   == <<task, runtimeOf, made, holds, instance, pushed>>

Native == sandbox.provider = "native"
OnHost == sandbox.workspace = "host"
Spend == budget > 0 /\ budget' = budget - 1
Known == {r \in Runs : row[r].known}

-----------------------------------------------------------------------------
(* What the backend is told                                                 *)

About(r, status) == [run |-> r, status |-> status]
Inventory(items, absent, deleted) ==
  [t |-> "inventory", instances |-> items, absent |-> absent, deleted |-> deleted]
Result(p, ok) == [t |-> "result", id |-> p, ok |-> ok]

\* sendSandboxInstanceStatus
Status(r, status) == [t |-> "status", run |-> r, status |-> status]

Subjects(items) == {item.run : item \in ToSet(items)}
SubjectsOf(m) ==
  CASE m.t = "result" -> {}
    [] m.t = "inventory" -> Subjects(m.instances) \cup m.absent \cup m.deleted
    [] OTHER -> {m.run}
SubjectsOfAll(msgs) == UNION {SubjectsOf(m) : m \in ToSet(msgs)}

\* ctx.send: nothing is kept for a proxy that is not connected.
Send(msgs) ==
  /\ reports' = IF link.up THEN reports \o msgs ELSE reports
  /\ muddled' = IF link.up THEN muddled ELSE muddled \cup SubjectsOfAll(msgs)

\* The same, of something seen before: it may have gone meanwhile.
SendSeen(msgs, items) ==
  /\ reports' = IF link.up THEN reports \o msgs ELSE reports
  /\ muddled' = muddled \cup (IF link.up THEN {} ELSE SubjectsOfAll(msgs))
       \cup {r \in Subjects(items) : instance[r].status = "missing"}

Unsaid == UNCHANGED <<reports, muddled>>

-----------------------------------------------------------------------------
(* The backend: orders, pushes, and what it writes down                     *)

ToProxy(action, r, expected, p) ==
  /\ link.up
  /\ orders' = Append(orders, [action |-> action, run |-> r, expected |-> expected, id |-> p])

\* POST /admin/sandboxes/control with a runId.
OrderRun(action, r) ==
  /\ action \in sandbox.orders /\ r \in sandbox.runs
  /\ Spend /\ ToProxy(action, r, {}, NoPush)
  /\ UNCHANGED <<sandbox, link, reports, muddled, backendVars, proxyVars>>

\* The same with the name of an instance, which must have a row.
OrderInstance(action, r) ==
  /\ action \in sandbox.orders /\ r \in sandbox.runs \cap Known
  /\ Spend /\ ToProxy(action, r, {}, NoPush)
  /\ UNCHANGED <<sandbox, link, reports, muddled, backendVars, proxyVars>>

\* report_inventory, prune_orphans and gc: what the rows say should be there goes along.
OrderProxy(action) ==
  /\ action \in sandbox.orders
  /\ \E expected \in SUBSET Known :
       /\ Cardinality(expected) = IF Cardinality(Known) < Take THEN Cardinality(Known) ELSE Take
       /\ ToProxy(action, NoRun, expected, NoPush)
  /\ Spend
  /\ UNCHANGED <<sandbox, link, reports, muddled, backendVars, proxyVars>>

\* Of the tunnel's messages: acp_open, as it comes before each prompt, and acp_close.
OrderOpen(r) ==
  /\ "open" \in sandbox.orders /\ r \in sandbox.runs
  /\ Spend /\ ToProxy("open", r, {}, NoPush)
  /\ UNCHANGED <<sandbox, link, reports, muddled, backendVars, proxyVars>>

OrderClose(r) ==
  /\ "close" \in sandbox.orders /\ r \in sandbox.runs
  /\ Spend /\ ToProxy("close", r, {}, NoPush)
  /\ UNCHANGED <<sandbox, link, reports, muddled, backendVars, proxyVars>>

\* requestGitPush: the request waits for its result, a timeout or the end of a connection.
RequestPush(p, r) ==
  /\ "git_push" \in sandbox.orders /\ r \in sandbox.runs
  /\ push[p] = "none"
  /\ push' = [push EXCEPT ![p] = "waiting"]
  /\ Spend /\ ToProxy("git_push", r, {}, p)
  /\ UNCHANGED <<sandbox, link, reports, muddled, filing, row, proxyVars>>

\* Nobody awaits sendToAgent: its rejection ends the backend, and what it was at.
RequestPushOffline(p) ==
  /\ "git_push" \in sandbox.orders
  /\ push[p] = "none" /\ ~link.up
  /\ push' = [q \in Pushes |-> IF q = p \/ push[q] = "waiting" THEN "lost" ELSE push[q]]
  /\ link' = [link EXCEPT !.closing = FALSE]
  /\ filing' = <<>>
  /\ muddled' = muddled \cup UNION {Subjects(f) : f \in ToSet(filing)}
  /\ Spend
  /\ UNCHANGED <<sandbox, orders, reports, row, proxyVars>>

TimesOut(p) ==
  /\ push[p] = "waiting"
  /\ push' = [push EXCEPT ![p] = "failed"]
  /\ UNCHANGED <<sandbox, link, orders, reports, muddled, filing, row, proxyVars, budget>>

\* Mutant: the result is taken for that of any request that waits.
SettleAny(m) ==
  IF \E p \in Pushes : push[p] = "waiting"
  THEN \E p \in Pushes : push[p] = "waiting"
                         /\ push' = [push EXCEPT ![p] = IF m.ok THEN "ok" ELSE "failed"]
  ELSE UNCHANGED push

\* handleSandboxControlResult: a request that has timed out is not there any more.
Settle(m) ==
  push' = IF push[m.id] = "waiting"
          THEN [push EXCEPT ![m.id] = IF m.ok THEN "ok" ELSE "failed"] ELSE push

ReceiveResult ==
  /\ reports # <<>> /\ Head(reports).t = "result"
  /\ reports' = Tail(reports)
  /\ Settle(Head(reports))
  /\ UNCHANGED <<sandbox, link, orders, muddled, filing, row, proxyVars, budget>>

Write(item) == row' = [row EXCEPT ![item.run] = [status |-> item.status, known |-> TRUE]]

\* A report is out of order with the items of an inventory that still have to be queued.
Overtakes(m) == {r \in SubjectsOf(m) : \E f \in ToSet(filing) : r \in Subjects(Tail(f))}

\* What is told of one run is written in the queue of that run.
ReceiveOfRun(t) ==
  LET m == Head(reports)
  IN /\ reports # <<>> /\ m.t = t
     /\ \A f \in ToSet(filing) : Head(f).run # m.run
     /\ reports' = Tail(reports)
     /\ Write(About(m.run, m.status))
     /\ muddled' = muddled \cup Overtakes(m)
     /\ UNCHANGED <<sandbox, link, orders, filing, push, proxyVars, budget>>

ReceiveStatus == ReceiveOfRun("status")

\* acp_exit says that the instance is stopped, or that it failed, whatever became of it.
ReceiveExit == ReceiveOfRun("exit")

\* The parts of a sandbox_inventory, written down in this order.
Instances(m) == m.instances
Absent(m) == SetToSeq({About(r, "missing") : r \in m.absent})
Deleted(m) == SetToSeq({About(r, "missing") : r \in m.deleted})

\* sandbox_inventory: its items are queued one after the other.
ReceiveInventory ==
  LET m == Head(reports)
  IN /\ reports # <<>> /\ m.t = "inventory"
     /\ reports' = Tail(reports)
     /\ LET items == Instances(m) \o Absent(m) \o Deleted(m)
        IN filing' = IF items = <<>> THEN filing ELSE Append(filing, items)
     /\ muddled' = muddled \cup Overtakes(m)
     /\ UNCHANGED <<sandbox, link, orders, row, push, proxyVars, budget>>

FileItem(k) ==
  LET f == filing[k]
      rest == RemoveAt(filing, k)
  IN /\ k \in DOMAIN filing
     /\ \A j \in 1 .. k - 1 : Head(filing[j]).run # Head(f).run
     /\ Write(Head(f))
     /\ filing' = IF Len(f) = 1 THEN rest ELSE Append(rest, Tail(f))
     /\ UNCHANGED <<sandbox, link, orders, reports, muddled, push, proxyVars, budget>>

\* The connection ends with what is under way; the backend's handler of the close awaits
\* a write first, and rejects the requests of the proxy then.
Disconnect ==
  /\ "drop" \in sandbox.world /\ link.up /\ Spend
  /\ link' = [up |-> FALSE, closing |-> TRUE]
  /\ orders' = <<>> /\ reports' = <<>>
  /\ muddled' = muddled \cup SubjectsOfAll(reports)
  /\ UNCHANGED <<sandbox, backendVars, proxyVars>>

ProxyDisconnected ==
  /\ link.closing
  /\ link' = [link EXCEPT !.closing = FALSE]
  /\ push' = [p \in Pushes |-> IF push[p] = "waiting" THEN "failed" ELSE push[p]]
  /\ UNCHANGED <<sandbox, orders, reports, muddled, filing, row, proxyVars, budget>>

-----------------------------------------------------------------------------
(* The proxy: its tasks                                                     *)

NoQueue == MaxRuntimes + 1

NewTask(kind, r, queue, at, expected, p) ==
  [kind |-> kind, run |-> r, queue |-> queue,
   own |-> IF r = NoRun THEN 0 ELSE runtimeOf[r].n, at |-> at,
   expected |-> expected, id |-> p, seen |-> <<>>, gone |-> {}]

\* A task whose turn has come in its queue.
Turn(i, kind, at) ==
  /\ i \in DOMAIN task /\ task[i].kind = kind /\ task[i].at = at
  /\ task[i].queue = NoQueue
     \/ \A j \in 1 .. i - 1 : task[j].queue # task[i].queue \/ task[j].run # task[i].run

Finish(i) == task' = RemoveAt(task, i)
Goto(i, at) == task' = [task EXCEPT ![i].at = at]
SetInstance(r, status) == instance' = [instance EXCEPT ![r].status = status]

Present == {r \in Runs : instance[r].status # "missing"}

-----------------------------------------------------------------------------
(* The sandboxes: an operation of each provider                             *)

HostInspect(r) == IF r \in Present THEN "running" ELSE "missing"
ContainerInspect(r) == instance[r].status

\* Instances are listed in an order of their own.
HostList == SetToSeq({About(r, "running") : r \in Present})
ContainerList == SetToSeq({About(r, ContainerInspect(r)) : r \in Present})

\* ensureInstanceRunning: a stopped container is started, one that is not there is made.
HostEnsure(r) == SetInstance(r, "running")
ContainerEnsure(r) == SetInstance(r, "running")

ContainerStop(r) == IF r \in Present THEN SetInstance(r, "stopped") ELSE UNCHANGED instance

\* removeInstance: a workspace in the container goes with it.
HostRemove(r) == SetInstance(r, "missing")
ContainerRemove(r) ==
  instance' = [instance EXCEPT
    ![r] = [status |-> "missing", workspace |-> OnHost /\ instance[r].workspace]]

\* openAgent: a native instance is there again if it was removed; a container is run,
\* started or attached to.  The repository is checked out before, or by the init script.
HostOpen(r) == instance' = [instance EXCEPT ![r] = [status |-> "running", workspace |-> TRUE]]
ContainerOpen(r) == instance' = [instance EXCEPT ![r] = [status |-> "running", workspace |-> TRUE]]

Listing == IF Native THEN HostList ELSE ContainerList
RemoveOf(r) == IF Native THEN HostRemove(r) ELSE ContainerRemove(r)

-----------------------------------------------------------------------------
(* The proxy: what it does with the backend's orders                        *)

\* closeAgent, for the runtime the RunManager has now.
CloseAgentOf(r) == holds' = [holds EXCEPT ![r] = @ \ {runtimeOf[r].n}]

\* handleAcpOpen and handlePromptSend make the runtime, or clear its expiry.
TakeOpen(o) ==
  LET fresh == runtimeOf[o.run].n = 0
      n == IF fresh THEN made[o.run] + 1 ELSE runtimeOf[o.run].n
  IN /\ n <= MaxRuntimes
     /\ made' = IF fresh THEN [made EXCEPT ![o.run] = n] ELSE made
     /\ runtimeOf' = [runtimeOf EXCEPT ![o.run] = [n |-> n, expires |-> FALSE]]
     /\ task' = Append(task, [NewTask("open", o.run, NoQueue, "begun", {}, NoPush) EXCEPT !.own = n])
     /\ UNCHANGED holds

\* handleAcpClose closes the agent of the runtime, if there is one.
TakeClose(o) ==
  /\ CloseAgentOf(o.run)
  /\ task' = IF runtimeOf[o.run].n = 0 THEN task
             ELSE Append(task, NewTask("close", o.run, NoQueue, "begun", {}, NoPush))
  /\ UNCHANGED <<runtimeOf, made>>

\* handleSandboxControl: in no queue, in the run's, or in the fallback queue of its name.
TakeControl(o) ==
  /\ task' = Append(task, NewTask(o.action, o.run,
       IF o.run = NoRun THEN NoQueue ELSE runtimeOf[o.run].n,
       IF o.run = NoRun THEN "look" ELSE "queued", o.expected, o.id))
  /\ UNCHANGED <<runtimeOf, made, holds>>

TakeOrder ==
  /\ orders # <<>>
  /\ orders' = Tail(orders)
  /\ CASE Head(orders).action = "open" -> TakeOpen(Head(orders))
       [] Head(orders).action = "close" -> TakeClose(Head(orders))
       [] OTHER -> TakeControl(Head(orders))
  /\ UNCHANGED <<sandbox, link, reports, muddled, backendVars, instance, pushed, budget>>

\* After closeAgent: the runtime expires, be it in use again or not.
Expire(i) ==
  LET r == task[i].run
  IN /\ Turn(i, "close", "begun")
     /\ runtimeOf' = IF runtimeOf[r].n = task[i].own
                     THEN [runtimeOf EXCEPT ![r].expires = TRUE] ELSE runtimeOf
     /\ Finish(i)
     /\ UNCHANGED <<sandbox, link, orders, reports, muddled, backendVars, made, holds, instance,
                    pushed, budget>>

\* runs.enqueue, which throws where the runtime has gone meanwhile.
Enqueue(i) ==
  LET r == task[i].run
  IN task' = IF runtimeOf[r].n = 0 THEN RemoveAt(task, i)
             ELSE Append(RemoveAt(task, i),
                         [task[i] EXCEPT !.queue = runtimeOf[r].n, !.at = "queued", !.seen = <<>>])

\* ensureRuntime: a native instance is made and reported at once.
EnsureNative(i) ==
  LET r == task[i].run
  IN /\ Native /\ Turn(i, "open", "begun")
     /\ HostEnsure(r)
     /\ Send(<<Status(r, "running")>>)
     /\ Enqueue(i)
     /\ UNCHANGED <<sandbox, link, orders, backendVars, runtimeOf, made, holds, pushed, budget>>

\* A container is looked at, and reported as it was.
EnsureContainer(i) ==
  /\ ~Native /\ Turn(i, "open", "begun")
  /\ task' = [task EXCEPT ![i].at = "tell",
                          ![i].seen = <<About(task[i].run, ContainerInspect(task[i].run))>>]
  /\ UNCHANGED <<sandbox, link, orders, reports, muddled, backendVars, runtimeOf, made, holds,
                 instance, pushed, budget>>

TellEnsured(i) ==
  /\ Turn(i, "open", "tell") /\ task[i].queue = NoQueue
  /\ SendSeen(<<Status(task[i].run, task[i].seen[1].status)>>, task[i].seen)
  /\ Enqueue(i)
  /\ UNCHANGED <<sandbox, link, orders, backendVars, runtimeOf, made, holds, instance, pushed,
                 budget>>

\* The runtime the handler has in hand, be it still the run's or not.
Owner(i) == task[i].own

\* startAgent: the instance of a container is looked at once more when the agent is there.
StartAgent(i) ==
  LET r == task[i].run
  IN /\ Turn(i, "open", "queued")
     /\ IF Owner(i) \in holds[r]
        THEN Finish(i) /\ Unsaid /\ UNCHANGED <<holds, instance>>
        ELSE /\ holds' = [holds EXCEPT ![r] = @ \cup {Owner(i)}]
             /\ IF Native THEN HostOpen(r) /\ Send(<<Status(r, "running")>>) /\ Finish(i)
                ELSE /\ ContainerOpen(r)
                     /\ IF r \in Present THEN Unsaid ELSE Send(<<Status(r, "creating")>>)
                     /\ Goto(i, "look")
     /\ UNCHANGED <<sandbox, link, orders, backendVars, runtimeOf, made, pushed, budget>>

\* inspectInstance of a container, for its status to be told.
Look(i) ==
  /\ \E kind \in {"open", "stop"} : Turn(i, kind, "look")
  /\ task' = [task EXCEPT ![i].at = "tell",
                          ![i].seen = <<About(task[i].run, ContainerInspect(task[i].run))>>]
  /\ UNCHANGED <<sandbox, link, orders, reports, muddled, backendVars, runtimeOf, made, holds,
                 instance, pushed, budget>>

TellStatus(i) ==
  /\ \E kind \in {"open", "stop", "inspect", "ensure_running"} : Turn(i, kind, "tell")
  /\ task[i].queue # NoQueue
  /\ SendSeen(<<Status(task[i].run, task[i].seen[1].status)>>, task[i].seen)
  /\ Finish(i)
  /\ UNCHANGED <<sandbox, link, orders, backendVars, runtimeOf, made, holds, instance, pushed,
                 budget>>

Inspect(i) ==
  LET r == task[i].run
  IN /\ Turn(i, "inspect", "queued")
     /\ IF Native THEN Send(<<Status(r, HostInspect(r))>>) /\ Finish(i)
        ELSE /\ task' = [task EXCEPT ![i].at = "tell", ![i].seen = <<About(r, ContainerInspect(r))>>]
             /\ Unsaid
     /\ UNCHANGED <<sandbox, link, orders, backendVars, runtimeOf, made, holds, instance, pushed,
                    budget>>

EnsureRunning(i) ==
  LET r == task[i].run
  IN /\ Turn(i, "ensure_running", "queued")
     /\ IF Native THEN HostEnsure(r) /\ Send(<<Status(r, "running")>>) /\ Finish(i)
        ELSE /\ ContainerEnsure(r)
             /\ task' = [task EXCEPT ![i].at = "tell", ![i].seen = <<About(r, "running")>>]
             /\ Unsaid
     /\ UNCHANGED <<sandbox, link, orders, backendVars, runtimeOf, made, holds, pushed, budget>>

\* stop and remove close the agent first, which takes a while.
StopOrRemove(i) ==
  /\ \E kind \in {"stop", "remove"} : Turn(i, kind, "queued")
  /\ CloseAgentOf(task[i].run)
  /\ Goto(i, "act")
  /\ UNCHANGED <<sandbox, link, orders, reports, muddled, backendVars, runtimeOf, made, instance,
                 pushed, budget>>

Stop(i) ==
  LET r == task[i].run
  IN /\ Turn(i, "stop", "act")
     /\ IF Native THEN Send(<<Status(r, HostInspect(r))>>) /\ Finish(i) /\ UNCHANGED instance
        ELSE ContainerStop(r) /\ Unsaid /\ Goto(i, "look")
     /\ UNCHANGED <<sandbox, link, orders, backendVars, runtimeOf, made, holds, pushed, budget>>

\* remove forgets the runtime, whatever else is in its queue.
DeleteRuntime(i) ==
  /\ Turn(i, "remove", "act")
  /\ runtimeOf' = [runtimeOf EXCEPT ![task[i].run] = [n |-> 0, expires |-> FALSE]]
  /\ Goto(i, "remove")
  /\ UNCHANGED <<sandbox, link, orders, reports, muddled, backendVars, made, holds, instance,
                 pushed, budget>>

\* What the timer cannot remove it reports as removed all the same.
RemoveInstance(i) ==
  /\ \E kind \in {"remove", "keepalive"} :
       Turn(i, kind, "remove") /\ Goto(i, IF kind = "remove" THEN "look" ELSE "tell")
  /\ \/ RemoveOf(task[i].run)
     \/ ~Native /\ task[i].kind = "keepalive" /\ UNCHANGED instance
  /\ UNCHANGED <<sandbox, link, orders, reports, muddled, backendVars, runtimeOf, made, holds,
                 pushed, budget>>

\* reportInventory lists the instances first.
List(i) ==
  /\ \E kind \in {"remove", "report_inventory", "prune_orphans"} :
       Turn(i, kind, "look")
  /\ task' = [task EXCEPT ![i].at = IF task[i].kind = "prune_orphans" THEN "act" ELSE "tell",
                          ![i].seen = Listing]
  /\ UNCHANGED <<sandbox, link, orders, reports, muddled, backendVars, runtimeOf, made, holds,
                 instance, pushed, budget>>

\* Mutant: what is removed is left to the inventory to tell.
RemovedUnsaid(r) == <<>>

\* What is said of a removed instance beside the inventory: deleted_instances, and its status.
Removed(r) == <<Inventory(<<>>, {}, {r}), Status(r, "missing")>>

\* The end of remove: the inventory, the deletion and the status.
TellRemoved(i) ==
  /\ Turn(i, "remove", "tell")
  /\ SendSeen(<<Inventory(task[i].seen, {}, {})>> \o Removed(task[i].run), task[i].seen)
  /\ Finish(i)
  /\ UNCHANGED <<sandbox, link, orders, backendVars, runtimeOf, made, holds, instance, pushed,
                 budget>>

\* An inventory that was asked for says what is missing of what was expected.
TellInventory(i) ==
  /\ Turn(i, "report_inventory", "tell")
  /\ SendSeen(<<Inventory(task[i].seen, task[i].expected \ Subjects(task[i].seen), {})>>,
              task[i].seen)
  /\ Finish(i)
  /\ UNCHANGED <<sandbox, link, orders, backendVars, runtimeOf, made, holds, instance, pushed,
                 budget>>

\* prune_orphans removes one after the other what is there and not expected; a container
\* that cannot be removed is passed over.
Orphans(i) == Subjects(task[i].seen) \ task[i].expected

PruneOne(i) ==
  /\ Turn(i, "prune_orphans", "act")
  /\ \E k \in DOMAIN task[i].seen :
       LET r == task[i].seen[k].run
       IN /\ r \in Orphans(i)
          /\ \A j \in 1 .. k - 1 : task[i].seen[j].run \notin Orphans(i)
          /\ \/ /\ RemoveOf(r)
                /\ task' = [task EXCEPT ![i].seen = RemoveAt(@, k), ![i].gone = @ \cup {r}]
             \/ /\ ~Native /\ UNCHANGED instance
                /\ task' = [task EXCEPT ![i].seen = RemoveAt(@, k)]
  /\ UNCHANGED <<sandbox, link, orders, reports, muddled, backendVars, runtimeOf, made, holds,
                 pushed, budget>>

TellPruned(i) ==
  LET gone == task[i].gone
  IN /\ Turn(i, "prune_orphans", "act") /\ Orphans(i) = {}
     /\ Send(IF gone = {} THEN <<>> ELSE <<Inventory(<<>>, {}, gone)>>)
     /\ Finish(i)
     /\ UNCHANGED <<sandbox, link, orders, backendVars, runtimeOf, made, holds, instance, pushed,
                    budget>>

\* gc as the backend orders it: a plan is made of what is listed, and nothing is removed.
PlanGc(i) ==
  /\ Turn(i, "gc", "look")
  /\ Finish(i)
  /\ UNCHANGED <<sandbox, link, orders, reports, muddled, backendVars, runtimeOf, made, holds,
                 instance, pushed, budget>>

\* remove_workspace: the directory on the host, or a command in the container.
RemoveWorkspace(i) ==
  LET r == task[i].run
  IN /\ Turn(i, "remove_workspace", "queued")
     /\ \/ /\ OnHost \/ instance[r].status = "running"
           /\ instance' = [instance EXCEPT ![r].workspace = FALSE]
        \/ ~OnHost /\ UNCHANGED instance
     /\ Finish(i)
     /\ UNCHANGED <<sandbox, link, orders, reports, muddled, backendVars, runtimeOf, made, holds,
                    pushed, budget>>

\* git_push: from the workspace on the host.  In a container it is tried in /workspace, and
\* the workspace is a directory under that.
GitPush(i) ==
  LET r == task[i].run
      p == task[i].id
  IN /\ Turn(i, "git_push", "queued")
     /\ \E ok \in BOOLEAN :
          /\ ok => OnHost /\ instance[r].workspace
          /\ pushed' = IF ok THEN pushed \cup {p} ELSE pushed
          /\ Send(<<Result(p, ok)>>)
     /\ Finish(i)
     /\ UNCHANGED <<sandbox, link, orders, backendVars, runtimeOf, made, holds, instance, budget>>

\* A command of the container's runtime fails: the operation ends, as an error of its run.
ContainerFails(i) ==
  /\ ~Native
  /\ \/ \E kind \in {"inspect", "ensure_running"} : Turn(i, kind, "queued")
     \/ Turn(i, "stop", "act")
     \/ Turn(i, "remove", "remove") \/ Turn(i, "remove", "look")
  /\ Send(<<Status(task[i].run, "error")>>)
  /\ Finish(i)
  /\ UNCHANGED <<sandbox, link, orders, backendVars, runtimeOf, made, holds, instance, pushed,
                 budget>>

-----------------------------------------------------------------------------
(* The proxy: timers, exits, and its connection                             *)

\* The cleanup timer closes the agent of an expired runtime and then removes its instance;
\* that it does so again while that goes on is left out.
KeepaliveExpires(r) ==
  /\ "keepalive" \in sandbox.world
  /\ runtimeOf[r].n # 0 /\ runtimeOf[r].expires
  /\ \A i \in DOMAIN task : task[i].kind = "keepalive" => task[i].run # r
  /\ CloseAgentOf(r)
  /\ task' = Append(task, NewTask("keepalive", r, NoQueue, "remove", {}, NoPush))
  /\ UNCHANGED <<sandbox, link, orders, reports, muddled, backendVars, runtimeOf, made, instance,
                 pushed, budget>>

\* And then forgets the runtime, in use again or not.
KeepaliveEnds(i) ==
  /\ Turn(i, "keepalive", "tell")
  /\ Send(<<Status(task[i].run, "missing")>>)
  /\ runtimeOf' = [runtimeOf EXCEPT ![task[i].run] = [n |-> 0, expires |-> FALSE]]
  /\ Finish(i)
  /\ UNCHANGED <<sandbox, link, orders, backendVars, made, holds, instance, pushed, budget>>

PeriodicInventory ==
  /\ "inventory" \in sandbox.world /\ link.up /\ Spend
  /\ task' = Append(task, NewTask("report_inventory", NoRun, NoQueue, "look", {}, NoPush))
  /\ UNCHANGED <<sandbox, link, orders, reports, muddled, backendVars, runtimeOf, made, holds,
                 instance, pushed>>

\* connectLoop: the proxy registers again, and lists its instances.
Reconnect ==
  /\ ~link.up
  /\ link' = [link EXCEPT !.up = TRUE]
  /\ task' = Append(task, NewTask("report_inventory", NoRun, NoQueue, "look", {}, NoPush))
  /\ UNCHANGED <<sandbox, orders, reports, muddled, backendVars, runtimeOf, made, holds, instance,
                 pushed, budget>>

\* An agent exits by itself, or for its instance was removed under it; its container stops.
AgentExits(r) ==
  /\ "exit" \in sandbox.world \/ instance[r].status = "missing"
  /\ \E n \in holds[r] : holds' = [holds EXCEPT ![r] = @ \ {n}]
  /\ IF ~Native /\ instance[r].status = "running" THEN SetInstance(r, "stopped")
     ELSE UNCHANGED instance
  /\ \E status \in {"stopped", "error"} :
       Send(<<[t |-> "exit", run |-> r, status |-> status]>>)
  /\ UNCHANGED <<sandbox, link, orders, backendVars, task, runtimeOf, made, pushed, budget>>

-----------------------------------------------------------------------------

SandboxNext ==
  \/ \E r \in Runs :
       \/ \E action \in {"inspect", "ensure_running", "stop", "remove", "remove_workspace"} :
            OrderRun(action, r) \/ OrderInstance(action, r)
       \/ OrderOpen(r) \/ OrderClose(r)
       \/ \E p \in Pushes : RequestPush(p, r)
       \/ KeepaliveExpires(r) \/ AgentExits(r)
  \/ \E action \in {"report_inventory", "prune_orphans", "gc"} : OrderProxy(action)
  \/ \E p \in Pushes : RequestPushOffline(p) \/ TimesOut(p)
  \/ ReceiveResult \/ ReceiveStatus \/ ReceiveExit \/ ReceiveInventory \/ (\E k \in DOMAIN filing : FileItem(k))
  \/ Disconnect \/ ProxyDisconnected \/ Reconnect \/ PeriodicInventory
  \/ TakeOrder
  \/ \E i \in DOMAIN task :
       \/ Expire(i) \/ EnsureNative(i) \/ EnsureContainer(i) \/ TellEnsured(i) \/ StartAgent(i)
       \/ Look(i) \/ TellStatus(i)
       \/ Inspect(i) \/ EnsureRunning(i) \/ StopOrRemove(i) \/ Stop(i) \/ DeleteRuntime(i)
       \/ RemoveInstance(i) \/ List(i) \/ TellRemoved(i) \/ TellInventory(i)
       \/ PruneOne(i) \/ TellPruned(i) \/ PlanGc(i) \/ RemoveWorkspace(i) \/ GitPush(i)
       \/ ContainerFails(i) \/ KeepaliveEnds(i)

SandboxSpec == SandboxInit /\ [][SandboxNext]_sandboxVars

-----------------------------------------------------------------------------
(* Properties                                                               *)

\* A push is reported as made only if the proxy has made the push of that request: results
\* that come after a timeout, for another request or from an earlier connection count for
\* nothing (createSandboxControlClient).
PushByProxy == \A p \in Pushes : push[p] = "ok" => p \in pushed

Idle == task = <<>> /\ orders = <<>> /\ reports = <<>> /\ filing = <<>>

\* Whatever removes an instance, an order, the keepalive or the pruning of orphans, the row
\* of its run does not go on to say that it runs; but for reports lost with a connection, and
\* those that arrive when what they report has gone.
NoGhost ==
  Idle => \A r \in Runs \ muddled : row[r].status = "running" => instance[r].status # "missing"
=============================================================================
