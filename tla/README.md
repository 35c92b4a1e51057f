# Verification of tuixiu

A TLA+ development kept beside the code of `src/`: modules that model the parts of
the system where things go wrong, TLC runs that check them on small instances, and
TLAPS proofs of what holds for every instance. References are to files under `src/`
(the prefix `src/` is omitted; `backend/…` is `src/backend/…`).

## 1. The system

tuixiu drives coding agents from issues. A Node backend (Fastify, Prisma, PostgreSQL)
owns all state; agents run in sandboxes next to an *acp-proxy*, which keeps one
WebSocket to the backend; users work through a React frontend; GitHub, GitLab or
Codeup hold the branches and pull requests and report back through webhooks.

| part | state it keeps | operations | modules |
|---|---|---|---|
| **Task engine** `backend/src/modules/workflow/` | `Task`, `Step`, `Run` rows; in memory the auto-advance queue of each issue | create, start, advance, block, roll back, auto-advance, dispatch | `TaskWorkflow` |
| **Step executors** `backend/src/executors/` | – | prompt an agent, open a PR or ask for approval, wait for a person or the CI | `TaskWorkflow` |
| **Run and step routes** `backend/src/routes/{runs,steps,tasks}.ts` | – | start, submit, cancel, complete, create-pr, merge-pr, prompt | `TaskWorkflow`, `IssueFlow`, `AcpTunnel` |
| **Webhooks** of GitHub, GitLab, Codeup | – | CI results, pull requests opened, merged, synchronized, reviewed, issues | `TaskWorkflow`, `IssueFlow`, `GitHubSync` |
| **Approvals** `backend/src/routes/approvals.ts` | `Approval` rows | request, claim, execute, settle, reject | `IssueFlow`, `TaskWorkflow` |
| **Review requests** `backend/src/modules/scm/` | `Run.scmPr*`, `scmCiStatus` | create, merge, sync a pull request | `IssueFlow`, `TaskWorkflow` |
| **Issues without a task, PM automation** `startIssueRun.ts`, `backend/src/modules/pm/` | `Issue`, `Run`, `Agent.currentLoad`; queues in memory | start, finalize, ask, create, merge | `IssueFlow` |
| **ACP tunnel and agent gateway** `acpTunnel.ts`, `gateway.ts` | connections, run queues, promises with timers, text buffers | open, prompt, control, resume, store and broadcast what agents say | `AcpTunnel`, `RunConsole` |
| **ACP proxy** `acp-proxy/src/` | one runtime and one operation queue per run, bridges to agents | open, prompt, ask the user, read files, run commands | `AcpTunnel`, `AgentChannel` |
| **Sandboxes** `acp-proxy/src/sandbox/`, `sandboxControl.ts` | instances, a registry file, boxes, containers; `SandboxInstance` rows | open, stop, remove, prune, inventory, push a branch | `SandboxControl`, `SandboxBackends` |
| **GitHub import** `githubPolling.ts`, import route | `Issue` rows, the polling cursor | list, find, create or update | `GitHubSync` |
| **Skills** `routes/skills.ts`, `roleSkillBindings.ts`, `applyAgentInputs.ts` | skills, versions, packages, bindings, the proxy's cache | import, update, publish, bind, resolve, unpack | `SkillRegistry` |
| **Authentication** `routes/auth.ts`, `AuthProvider.tsx` | `RefreshSession` rows, cookies | sign in, refresh, sign out, everywhere too | `Authentication` |
| **Frontend** `useSessionController.ts`, `useIssueDetailController.ts` | what a page shows | fetch, receive, merge, turn to another run | `RunConsole` |

`PROJECT.json` lists the parts with how much of each is modelled. Left aside: the
administration pages, projects and their SCM configuration, profiles and text
templates (tables without a state machine), the configuration and command line of the
proxy, `githubPrAutoReview.ts` (nothing calls it), git and LLM calls (external).

### What is hard here

Nearly all parts change a few rows of one database, and *nothing serialises them*.
Apart from the creation of a task there is no transaction; updates are unconditional
(`where: { id }`), decided by reads made one or more awaits before.

* **Interleaving**: a webhook, a click and a queue meet between any two awaits of each
  other: a rollback between the two writes of an advance; two CI deliveries for one run;
  two tabs that refresh with one cookie; two opens that share one box.
* **Late writes**: the handler that awaits an agent for an hour acts on what it knew
  before: the run may have been cancelled, rolled back behind, or ended twice.
* **Messages** are late, repeated or lost with their connection: a result after its
  timeout, an inventory after what it lists has gone, a webhook from last week.
* **Crashes**: whatever a handler had not yet written is never written; queues, promises
  and buffers are memory. Connections come back and resume runs that may have ended.
* **Liveness**: whether something goes on by itself depends on which of a dozen callers
  triggers a queue or sets a timer.

`PROJECT.json` lists each hazard at its line with the properties that would show it
going wrong, and a note where none does.

## 2. How the modules are written

Each module is one component with the code it talks to. **A handler is a process**: it
reads in one action and writes in later ones, in the code's order; what happens between
two awaits without a decision is one action. Local variables that outlive an await are in
a row per handler (`pc`, `call`, `task`, `prompt`, `srv`, …). Unbounded things (calls, runs,
restarts, faults) are capped by named constants; a **scene** says which requests and faults
occur, so that one run can follow several situations, each with its bounds.

Operators whose comment starts with `Mutant:` stand next to the action they alter. The
specification does not use them: each is a plausible mistake in that code with which a
run's property fails, which shows that the property depends on the code being right.
Properties are at the end of each module, proofs in `<module>_proofs`, those of `Authentication`
and `RunConsole` in `Frontend_proofs`, those of `IssueFlow` and `GitHubSync` in `Issue_proofs`.

| module | follows | abstract specification |
|---|---|---|
| `TaskWorkflow` | one task of one issue, every handler that acts on it | `RunLedger` (always), `StepPipeline` (handlers one at a time) |
| `IssueFlow` | one issue without a task | – |
| `AcpTunnel` | one run over a connection that breaks | `PromptCall` |
| `AgentChannel` | one run's operations and its agent, JSON-RPC both ways | – |
| `SandboxControl` | the sandboxes of one proxy and the rows about them | – |
| `SandboxBackends` | the inside of one sandbox call, for all providers | – |
| `GitHubSync` | one repository and its `Issue` rows | – |
| `RunConsole` | updates on their way into rows and onto a page | – |
| `SkillRegistry` | skills from import to an agent's home directory | – |
| `Authentication` | the sessions of one service, the browsers and tabs that use them | – |

The components meet where one's action is the other's interface: a call of the tunnel ends
in `TaskWorkflow.Finalize` and `IssueFlow.FinalizeRead`; the proxy's open and prompt
operations are one step in `AcpTunnel` and many in `AgentChannel`; the sandbox operations are
one step in `SandboxControl` and many in `SandboxBackends`; `RunConsole` takes the updates
whose attribution `AgentChannel` is about; a start resolves its skills in `SkillRegistry`.
They are not composed into one specification, whose state space would be their product.

## 3. The modules

### `TaskWorkflow`

One `Task` of one `Issue`, its `NSteps` steps and up to `MaxRuns` runs.

| variable | code |
|---|---|
| `task` | `Task.status`, `currentStepId` |
| `stepStatus`, `executor` | `Step.status`, `Step.executorType` |
| `issue` | `Issue.status` |
| `run[r]` | the `Run` row started r-th: status, step, executor, attempt, `agentId` set, `branchName` set, `scmPrNumber`, and its latest create_pr `Approval` |
| `workspace` | `Task.workspacePath` and `branchName` are set |
| `pr` | the pull requests of the branch, as the SCM has them: external; `pr.accepted` remembers a merge the SCM took without an error and did not make |
| `pc[p]` | what each handler is in the middle of, with its local variables |
| `queue` | the auto-advance queue of the issue, each trigger with the capabilities its caller gave it |
| `budget` | bound: interventions left |

The order of writes is the code's: Run (with its Approval), Steps, Task with Issue.
`EndRun` / `AdvanceRead` / `AdvanceSteps` / `AdvanceTask` stand for
`advanceTaskFromRunTerminal` in every one of its callers; `pc[p].then` remembers what that
caller does after it: trigger the queue ("both", "acp", "ws"), try to merge ("ci"), go on
with the webhook's next run ("hook").

| actions | code |
|---|---|
| `StartRoute`, `AutoPick`, `AutoDrop` | `routes/steps.ts` start; `taskAutoAdvance.ts` |
| `StartRead` … `StartMoveTask` | `taskEngine.ts` `startStep`, one await after the other |
| `Dispatch…`, `ParkStep`, `PromptOk`, `PromptFail`, `Finalize` | `executionDispatch.ts`, the executors, the end of `promptRun` |
| `Submit…`, `BlockStep`, `BlockTask` | `routes/runs.ts` submit |
| `ApproveRead` … `RejectCommit` | `routes/approvals.ts`, for create_pr |
| `CiHook`, `CiCommit`, `AutoMerge…` | `githubWebhooks.ts` CI events |
| `PrOpenedHook`, `PrMergedHook`, `HookNext`, `HookDone`, `SyncHook`, `ReviewHook` | pull_request and review events of GitHub; the merge event of Codeup |
| `RollbackRoute`, `RollbackSteps`, `RollbackTask` | `taskEngine.ts` `rollbackTaskToStep` |
| `Cancel`, `Complete`, `CreatePrRoute` | `routes/runs.ts` |
| `Crash`, `Resume` | the process stops; `gateway.ts` `resumeRunningRuns` |
| `OpenPrByHand`, `MergeByHand` | somebody acts on GitHub: external |

A pull request is created, and its number written, in the action that also ends the run; a
crash between them is modelled in `IssueFlow` only. Failing database writes, which the code
mostly swallows with `.catch(() => {})`, do not occur. `report.publish` always fails:
`systemExecutor.ts` looks for an `Artifact` row, and nothing in the backend creates one.
The submit of a merge step completes it and the issue on any answer of the provider that is not an
error, also on "not merged" (GitHub) and on a merge request that is still open (GitLab, Codeup); so an issue may be done
with its pull request open, and `DoneOnlyByMerge` says no more than the code promises: it was merged, or a
person's request to merge it was accepted. A push to a blocked task and a refused automatic merge send the task
back to its first `dev.implement` step, or to its first step if it has none (`ReworkStep`); the templates, and
those a project overrides (`taskTemplateResolver.ts`), differ in where that is.
`PrNeedsApproval` is checked with handlers one at a time: two that overlap break it, as a
rejection that read "pending" overwrites the "executing" of a claim, and the
pull request is created under an approval that says "rejected".

### `IssueFlow`

An issue whose runs are started directly (`startIssueRun.ts`) or by the PM's start queue
(`wake`): `StartCreate`, `StartMark`, `StartWorkspace`, `StartInit`, then the agent's answer
(`PromptEnds`, `Finalize…`), the PM's advance queue (`queue`: `PmAdvance…`), approvals as rows
(`Request…`, `Claim`, `Settle`, `Reject…`), review requests with the provider's answers
(`Create…`, `Merge…`, `Sync…`; a merge may be answered without having been made), CI, reopening,
cancellation and completion, failing inits and a crash. `pr` is the SCM's view, `run[r].pr` the
backend's. Agents' load is read and changed where the code does; `Capacity` is what `MayStart` asks.

### `AcpTunnel`

One run, its proxy and the sockets between them. `call` are the calls of the tunnel
(start, chat, ws, resume, control), `obj`, `cur` the `RunState` objects with their
`openDeferred`, `dfd` the prompt and control promises, `back`, `link`, `up` the sockets,
`tasks` the gateway's run queue, `inbox`, `opq`, `agent`, `box` the proxy's side. A timeout is
an action enabled while its promise waits. Faults: a dropped connection, a stopped
backend, a restarted proxy, a cancelled run, an agent that exits, a sandbox that is removed.
`LateClose` says whether a close may be noticed after the next registration; `Reachable` is
about the case that it is not (`gateway.ts:1528` removes by name only).
Abstract specification `PromptCall`: a call is pending, then answered once, and with "ok" only
when its work was done.

### `AgentChannel`

Inside one run of the proxy: `opQueue` serialises the operations; `bridge` are
`AgentBridge`s (pending RPCs, closed, deaf), `process` the agents, `stdin` and `stdout` their pipes,
`permission` the requests that wait for a user, `inst` what a provider would reuse, `jam` what waits to be written to an agent that does not read. The agent
answers, sends updates, asks for permissions, files and commands, and exits, whenever it likes.
`late` and `misheard` are histories. Two providers differ in what a start does: a process that is
reused or spawned (`Reuse`, `Spawn`), or the entrypoint of a container (`SpawnContainer`). The timer of a call starts when the
call has been written (`agentBridge.ts:160`): a write that an agent with a full stdin holds up has none, nor has the
opening of an agent (`runRuntime.ts`, `agent.ts`). A run in which one of these never ends is `Stalled`; only then
`PromptsAnswered` lets a prompt wait for ever. Closing the agent of a call that is being written is followed by the failure of the
write (`closing`, `WriteFails`).

### `SandboxControl` and `SandboxBackends`

`SandboxControl`: orders of admins, pushes with their timeouts, the opening and keepalive of runs
and inventories, from the backend's rows (`row`) over `orders` and `reports` to the proxy's tasks
(`task`, queued per runtime) and the instances themselves. Budgets of orders and events, at most
`MaxRuntimes` runtimes a run, `Take` instances in an order. `muddled` is the set of runs of which a
report was lost or overtaken. A restart of the proxy is not in it; it is in `SandboxBackends`.

`SandboxBackends`: what happens between the awaits of one provider call, for host, bwrap, the four
modes of BoxLite and containers: processes, boxes (`place`, `box`, `meta`,
`victim`), names, the registry file and restarts of the proxy.
A BoxLite box has no name (`simple`), that of its instance (`named`), the configured one of all
instances (`common`: `boxName` without sharing), or is one for all of them (`shared`).
The registry is read, then truncated, then written, by calls that do not wait for each other
(`ReadRegistry`, `OpenRegistry`, `WriteRegistry`): what is read meanwhile is empty, what is written over a longer text cannot be
parsed. The calls of one instance come one after the other, as the run's queue makes them, except `exec`.
`muddled` remembers that the proxy may have lost track: an access to the registry that met another's write, a restart
within one, two boxes made at once, a stop that failed (it is only logged, `boxliteSandbox.ts:265`). Both properties hold
without regard to it where they can: `RunsInItsOwn` for `simple` and `named` boxes and for containers, `RemovedIsGone` for a native sandbox
whose proxy was not restarted. Otherwise they are about a proxy that is not muddled, and outside of that they
fail: in `common` mode, with a failed stop, an open adopts the box of another instance (`:299`), and after a restart a
remove that reads a truncated registry leaves the agent running.
Not modelled: `boxMode` "simple" with a shared `boxReuse`; an explicit `boxAutoRemove` of false (the name of a stopped box is taken to be free);
for a shared box the key of its bootstrap is its name, which is so when `boxMode` is set to "jsbox"; reuse of process ids, `listInstances`, the
check of labels, and that the docker client of a container dies with the proxy.

### `GitHubSync`

Items change at GitHub while the loop lists them page by page (`PollList`, `PollFind`, `PollRun`,
`PollWrite`, `PollTask`, `PollEnd`), deliveries arrive in any order or not at all, and an import
runs beside it (`Hand…`). Its clock lags by up to `Overlap`. `row[i].version` is what the row
says, `row[i].newest` the newest it has said since a sync last wrote it, which a late delivery may
have overwritten.

### `RunConsole`

`Streams` are the queues of a run, one in the tunnel and one in the gateway, each with a text
buffer and its timer; `rows` are the `Event` rows; `link` and `wire` the page's socket; `view` and
`fetch` what a session page or issue page shows and awaits. `cover` remembers the row from which a merged
list and an unbroken socket account for everything. The tunnel and the gateway gather and flush in the same way, but
for a buffered piece of more than 16 000 characters, which the tunnel alone cuts into several rows
(`acpTunnel.ts:171`); the model has one. A page keeps the newest `ShowLimit` events: 800 on the session page
(`useSessionController.ts:47,177,248`), 600 on the issue page (`useIssueDetailController.ts:63,308,482`). `ConsoleCovers`, and the order in
`ShownInOrder`, are about a page that has room for more: a full one has let go of older events, or is about to.
Artifacts and how an event is drawn are left out.

### `SkillRegistry`

A content stands for its hash. Import, update, publish, and the binding of a list to a role are
requests (`pc`) that read and write in separate steps; a start reads the bindings, the
versions and packages, and the proxy unpacks what it was sent through its cache into a home
that outlives the agent. A fault is a crash, a truncated download or a change upstream. Dry runs, the audit log,
search and the admin pages are left out; skills are taken to be enabled (`enableRuntimeSkillsMounting`).

### `Authentication`

Each tab has three slots of requests (the page, the socket's refresh, a logout nobody awaits);
the tabs of a browser share its jar of cookies. A refresh is four steps: read, revoke the old
session, find out whether it was replaced already, create the new one. Read the hazards with it: of
two refreshes of one cookie that follow each other the later is taken for a replay, and the user is
signed out everywhere (`auth.ts:214`); a logout everywhere that races a refresh can leave
the new session behind. Passwords, signatures, roles and the file of the bootstrap token are
left out; other accounts do not occur in the run, but do in the theorem.

## 4. Runs

A module `MC<module>` defines the constants of a run. Deadlock checking is off everywhere: once its
requests and faults are spent, each system really comes to rest.

| run | asks | instance | distinct states |
|---|---|---|---|
| `workflow_races` | with every interleaving of a request with the queue: are rows well formed, attempts contiguous, runs final, steps closed only with their run, issues done only by a merge that was made or accepted? | gate half of a template, 3 runs, two interventions, overlap | 1,411,845 |
| `workflow_auto_start` | what the backend starts by itself, and that no PR is opened without an approval | `quick.dev.full`, 11 runs, one of create-pr, rollback, complete; one handler at a time | – |
| `workflow_ends` | with people and GitHub doing their part: does the task end, in order, with one run active and a next action that helps? | as in `planning.prd.dev.full` a step before `dev.implement`, auto-merge, 12 runs, one GitHub event | 18,082 |
| `tunnel_calls` | is every call answered once, with its own result, after its work, and is every waiting caller released? | 3 scenes of 2 calls, 2 sockets, one fault each | 912,017 |
| `issue_flow` | is an issue done only when merged, does the PM ask once, is a PR behind its approval, a claim in somebody's hands, a decision final? | 3 scenes, 2 handlers | 2,709,219 |
| `agent_channel` | is every prompt answered unless the run is stalled, by its own work, are permissions the users', updates the active prompt's? | 4 scenes, 2 prompts, 2 agents, 1 request | 759,451 |
| `sandbox_control` | is a push reported as made only if it was, is no run shown as running after its sandbox has gone? | 7 scenes, 2 runs, 2 runtimes | – |
| `sandbox_backends` | does every agent run in what was made for it, is a removed one gone? | 7 providers, 2 instances, 4 calls, 1 restart | 2,801,749 |
| `github_sync` | does the cursor pass over nothing, is every item imported in the end? | 4 scenes, pages of 1, one fault | – |
| `run_console` | is every update stored once, does every page show every event it has room for once, in order? | 7 scenes, buffers that are full at 2, lists of 2, pages of 3 | 391,461 |
| `skill_registry` | does a start find every skill of its role, and has an agent every one of them? | 2 skills, 2 contents, 2 requests at once, 1 fault | – |
| `sign_in` | has a login at most one session that can be refreshed? | 2 tabs of a browser, a console, 3 sessions, 1 fault | 3,408,821 |

*Why these bounds.* What goes wrong here goes wrong between two parties: a request and the
queue, two requests, a loop and a delivery, a caller and a lost connection. So each run has two
of each actor and one fault, which may come at any point, and room for what follows it: a second run
after a rollback, a second connection after a drop, a second agent after an exit. Lists are as
long as it takes to be cut (pages of 1 at GitHub, buffers and lists of 2, 3 events on a page). The two skills have names that make
the same directory name, the case in which names matter. `LateClose = FALSE` is the usual order of a
`ws` server: the close of a connection is handled before a reconnection has registered. The other
order breaks `Reachable`. Symmetry is used where instances are
interchangeable and no liveness is checked (`sandbox_backends`). What bounds
cannot show – that nothing new comes with a third actor, a longer template, more faults – is what
the proofs of the next section are for.

*Overlap.* In `workflow_auto_start`, `workflow_ends` and a scene of `issue_flow` a handler begins only
while the others are idle or await an agent. That is the common case, and the only one in which
`OneActiveRun`, the order of steps, `PrNeedsApproval` and `DecisionFinal` hold at all: two overlapping
starts of a ready step make two running runs of one issue (`taskEngine.ts` checks, awaits,
and creates), and two decisions of one approval overwrite each other.

*Fairness.* A Node process that runs continues each of its handlers, and its timers fire:
weak fairness of "some handler, timer or message goes on" where that suffices
(`AcpTunnel`'s `Progress`), per process elsewhere. `TaskWorkflow`'s `FairSpec` is the backend alone;
`FairUsersSpec` adds that people and GitHub taken together do something that is open to them: start a
ready step, submit a human step, decide an approval, deliver a CI result or merge. Nobody assumes that
they approve, or that CI passes. `ChannelSpec` is fair to the proxy's loop, its
timers and the failures of what it started, not to agents, which may be silent and leave their stdin unread for ever, nor to
the opening of one; `SyncSpec` to the polling timer and handlers, not to
deliveries; `ConsoleSpec` to queues and flush timers, not to sockets. Crashes, faults
and requests are never fair; they are bounded by budgets.

## 5. Proofs

`TLC` checks an instance; the theorems hold for every policy, number of handlers, calls,
runs, instances, tabs, faults and interventions, and for every template but where an assumption says of which.

| theorem | says | assumes, besides the constants' types |
|---|---|---|
| `TypeOKHolds` | the task engine's state is well typed | – |
| `AttemptsCorrect` | the attempts recorded for a step are 1 up to the last | – |
| `LedgerKept` | `Spec => KeepsLedger`, the refinement of `RunLedger` | `NoReopening` |
| `StepEndsWithRunHolds` | no step is over without a run of it that ended, or its merge | `NoReopening` |
| `DoneOnlyByMergeHolds` | an issue is done only by a merge that was made, or that the SCM accepted | `PeopleMerge` |
| `OneActiveRunHolds` | a task has at most one run that goes on | `Undisturbed` |
| `PrNeedsApprovalHolds` | no PR is opened without an approval that is being executed, where one is asked for | `Asked` |
| `IssueFollowsTaskHolds` | when nothing is being handled, an issue says what became of its task | `Followed` |
| `RunsPipelineHolds` | `Spec => RunsPipeline`, the refinement of `StepPipeline` | `Straight` |
| `OneStepAtATimeHolds` | a task is at one step at a time: all before it completed, all behind it untouched | `Straight` |
| `NextActionHelpsHolds` | when nothing is being handled, the next action offered is one that gets the task on | `Helped` |
| `CompletedByWorkHolds` | a run is completed only by work that came back to its caller | – |
| `CallsAnsweredHolds` | the tunnel implements `PromptCall` | – |
| `ReachableHolds` | a registered proxy is reached by the connection it uses | `~LateClose` |
| `DoneMeansMergedHolds`, `PmAsksOnceHolds`, `ControlledCreateHolds`, `ClaimHeldHolds`, `DecisionFinalHolds` | the safety properties of `IssueFlow` | –; each property names its own condition |
| `AnsweredByWorkHolds`, `GrantedByUserHolds`, `UpdatesAttributedHolds` | those of `AgentChannel` | – |
| `PushByProxyHolds`, `NoGhostHolds` | those of `SandboxControl` | there are finitely many runs |
| `RunsInItsOwnHolds`, `RemovedIsGoneHolds` | those of `SandboxBackends` | –; each property names what it excepts |
| `StartsResolveHolds`, `DownloadableHolds`, `AgentHasSkillsHolds` | those of `SkillRegistry` | there are finitely many skills |
| `OneSessionPerLoginHolds` | a login has one session that can be refreshed | – |
| `CursorCoversHolds` | the cursor of the polling loop passes over no change | `MaxPages` pages hold all items |
| `UpdatesKeptHolds`, `ConsoleCoversHolds`, `ShownInOrderHolds` | those of `RunConsole` | –; the last two name the page that is full |

`NoReopening`: `create-pr` is not called, or asks for an approval. It is the one handler that makes an
ended run active again (`waiting_ci`), and with it both statements are false. `PeopleMerge`: nobody calls
`create-pr`, and merge steps are people's, as `taskTemplates.ts` has them; a merge step that was
parked in `waiting_ci` is completed by the next green CI. `StepsAssumption`
says that a merge is the last step of its template, as in `taskTemplates.ts`; of a template with a merge elsewhere, which a project may define, they say nothing.
`Undisturbed`: handlers do not overlap; nobody rolls back, submits an old run again or calls `create-pr`; the
backend does not stop; of reviews and pushes on GitHub there is at most one; and where one may come, or the automation merges, the step a task
is sent back to is its first (`ReworksFirst`): so it is in `quick.dev.full`, `enterprise.dev.full` and every template without a
`dev.implement` step, and not in `planning.prd.dev.full`, for which these three properties are checked by `workflow_ends`
and proved only without such events. Each of the others is needed: two starts
of a step, a rollback past a running step, a run revived by `create-pr` or left open by a crash, or a review that
blocks a task whose step is running, followed by a push that reopens the first step, make a second run. `Asked`:
handlers do not overlap (two approvals of one run would each open one), and GitHub's users, who need
no approval of ours, open no PR by hand (`OpenPrByHand`). Reviews, pushes, rollbacks, resubmissions, `create-pr` and crashes are allowed.
`Followed`: handlers do not overlap, nobody cancels or completes a run (both set the issue and leave the task), and
the backend does not stop between a merge and the end of its step; rollbacks, resubmissions, `create-pr`, resumed
runs and GitHub are allowed, for every template. `Straight`: `Undisturbed`, `PeopleMerge`, and no run is resumed: the prompt a resume leaves behind fails its
step when it times out, wherever the task is by then. Reviews, pushes and merges on GitHub, cancel, complete and
the automation's own merges and rollbacks are allowed. `Helped`: `Straight`, and nobody ends a run but the one who
executes it: what GitHub does is allowed, also a PR opened by hand; cancel and complete are not, as they leave a step
that is worked on without a run.
`CursorCoversHolds` needs the lists to end before they are cut: the loop reads 50 pages of 100 and
then writes its cursor all the same (`githubPolling.ts:398`), so a repository with more than 5000 items that
are new to it keeps those behind without a row.

*The invariants.* None of these properties is inductive, as each relates rows to what a handler read
some awaits ago. The inductive invariants say what a handler relies on in between.

* `TaskWorkflow`: `TypeInv` adds to `TypeOK` that a process that acts on a run has one. `RowsInv` adds
  `Sound`: the attempt a start is about to record still follows a recorded one, though other starts
  may have added some since it read them. Every step then keeps all rows, moves one
  (`RowStep`) or creates the next, which are steps or stutters of `RunLedger`. `EndsInv` adds
  `Entitled` (whoever is about to close a step has already ended a run of it, or been told of the merge)
  and `Onward` shows that nothing which makes a step over is ever taken back. `DoneInv` says it of merges.
  `SoloInv` is about the one handler that is not at rest (`Turn`): a ready step, an open run and the
  handler that ends the one to open the next are three forms of one thing, of which there is one. It says for
  each place in a handler which form it has in hand (`HasOpen`, `Closes`, `Leads`), and whose run it is
  (`Fits`), as an agent's run, a person's and the CI's end differently. `ClaimInv` adds that who is about to
  open a PR has the only approval that is being executed. `FollowInv` adds which handlers are yet to tell the issue (`Telling`), and
  that one which sets the issue alone does so while the task is running. `PipeInv` ties what `SoloInv` finds in hand to the steps:
  an open run is of the step that is worked on (`Works`), everything before that step is completed and
  everything behind it pending (`Along`), and each place in a handler says how its step stands (`Sits`): a
  handler that advances still has a step that is worked on or the merge step, and one that rolls back finds none
  that is. `Stage` maps the steps to the pipeline's; only five writes move them, each a step or a stutter of it. `HelpInv` adds what stands
behind a step that is worked on (`Backs`): an open run of that step and its executor (`Stands`), and for a running step
a handler at it or an agent that is awaited; the current step of a task that goes on is ready or worked on.
* `AcpTunnel`: `TunnelInv` types every message on its way by what was made and finished when
  it was sent: a result names a prompt the agent finished, a promise its own call. A late
  or lost message then changes nothing about what callers may be told. `SocketInv` is about connections.
* `IssueFlow`: `FlowInv` says, for each place in a handler, what is still true of what it read (a PR that was
  merged is still merged, a claimed approval is still its own), and that the PM's queue has
  one consumer; without overlap, that everybody else is idle (`Alone`).
* `AgentChannel`: `ChannelInv`: one operation at a time (`Serial`), one agent that is not closed
  (`OneAgent`), bridges numbered as they were made, and what is in a pipe was written for
  the bridge that reads it (`Carried`).
* `SandboxControl`: `Shape` says what each order, task and report may hold (an inventory speaks of a run once; a push
  reported as made was made). `GhostInv`: while an instance is missing, a task is yet to tell so (`Telling`), or
  whatever says that it runs - a report on its way, an item of an inventory that is being written, the row - is followed
  by something that speaks of the run again (`Answered`); of one run at most one inventory has an item still to be
  queued (`Tidy`), as the items of two could otherwise be written in either order.
* `SandboxBackends`: `BackendInv`: the calls of one instance are serial; a native agent is in the
  registry or in the hands of the call that started it; a box is its instance's (`OwnBox`), the only one
  unless two were made at once or a stop failed (`OneBox`); where all boxes have one name, it is that of the box there is or
of one that is being stopped (`OneName`); a native proxy that was not restarted holds what it started, whatever the
file says (`MapInv`), and one that is not muddled finds it in the file; a container has its instance's name.
* `SkillRegistry`: `SkillInv`: what is published was imported and what was imported is stored
  (`Founded`), an accepted list can be followed (`Follows`), a home that is being filled holds each
  wanted skill or is still to get it (`Filling`), and nothing stored is taken back (`Grows`).
* `Authentication`: `AuthInv`: the sessions of a login form a line, each refreshed from the one before,
  with one tip, and a session is revoked before its successor is created (`Lines`); each line
  begins with a login (`Founded`); cookies are of sessions that exist.
* `GitHubSync`: `SyncInv`: whatever changed before the cursor has been written (`Kept`); while a sync runs, whatever had changed
  before it began has been, or is awaited (`Pending`): it is on the page being gone through, on a later page or in
  a later list. Pages shift while they are read, but only to the back: what changes goes to the front, so
  the place of all else can only grow (`PlaceGrows`). An item that the list leaves out, or behind the one that
  ends it, changed before the cursor, as `Overlap` makes up for GitHub's clock.
* `RunConsole`: `StreamsInv`: what a stream has in rows, in its task, in the buffer and in the queue follows on
  each other (`Ordered`) and, until a failure, leaves no update out (`Had`). `PageInv`: a list read under a socket that
  is still unbroken accounts, before it is merged, together with what is shown and what is on the socket, for all rows from its
  first on, unless they are as many as a page keeps (`Covered`: what is cut off was too much already, and a full page stays full until
  it turns to another run); the socket brings the rows of a stream in order, before the one not yet told of
  (`Brought`); and while a list holds a whole run, no list and no page has a row of a stream without the earlier ones that
  are still to come (`Read`, `NoneBehind`), so that what comes late is known already and not shown behind.

TLC checked each of them on its run's instance before it was proved. A preservation proof has one step
per action; what the actions of a module have in common – a row is replaced, all others stay –
is in a lemma that each step cites with the effect of that action.

*Only model-checked.* Liveness, as fairness and ENABLED are beyond the prover: `CallsEnd`,
`PromptsAnswered`, `Imported`, `Persisted`, `TaskEnds`, `NonAgentStarts`, `RollbackRestarts`. Every safety
invariant and every step property of the runs has its theorem.

## 6. Not modelled

* Closing a pull request of a task without merging it (`IssueFlow` has it), `merge_pr` and
  `publish_artifact` approvals, artifacts: the publishing step fails before it does anything.
* Failing database writes: the code swallows most of them.
* Administration pages, projects, SCM credentials, policies as rows (a policy is a constant), profiles
  and text templates, the acp-proxy's configuration, CLI and installation as a service.
* `githubPrAutoReview.ts`, which nothing calls, and the `cancelled` outcome of
  `advanceTaskFromRunTerminal`, which no caller passes.
* Attachments and images, the wording of prompts, events and errors, how the frontend draws anything.
* git, worktrees and branches beyond their being there, LLM calls, and the providers' servers.
