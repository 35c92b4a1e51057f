------------------------------- MODULE AcpTunnel -------------------------------
(***************************************************************************)
(* One run, the proxy it runs on, and the tunnel between them:             *)
(* acpTunnel.ts (open, prompt, control and their timers), the connections  *)
(* and the run queue of gateway.ts, and the proxy's side of a run          *)
(* (orchestratorClient.ts, handleAcpOpen/PromptSend/SessionControl.ts,     *)
(* runs/*.ts).  A call is one promptRun or one cancelSession/setSession…;  *)
(* its name stands for its prompt_id or control_id, and for the session    *)
(* the agent opens for it.                                                 *)
(***************************************************************************)
EXTENDS Naturals, Sequences, FiniteSets, SequencesExt

CONSTANTS
  MaxCalls,    \* bound: calls of the tunnel
  MaxSockets,  \* bound: connections of the proxy
  LateClose,   \* may a connection be replaced before its close is noticed?
  Scenes       \* what happens to the run, see Scene

\* A scene: which calls are made, which faults occur, and (a bound) how many.
Scene == [kinds : SUBSET {"start", "chat", "ws", "resume", "control"},
          faults : SUBSET {"drop", "crash", "restart", "cancel", "exit", "remove"},
          left : Nat]
ASSUME ScenesAreScenes == \A scene \in Scenes : scene \in Scene
ASSUME BoundsAssumption ==
  MaxCalls \in Nat /\ MaxSockets \in Nat /\ LateClose \in BOOLEAN

\* The calls, in the order they are made, each once.
Calls     == 1..MaxCalls
NoSession == 0
Sockets  == 1..MaxSockets
\* Run states of the tunnel: a new one replaces one dropped with a connection.
Objs     == 1..(MaxSockets + 1)
Sessions == Calls \cup {NoSession}

VARIABLES
  conn,      \* agentConnections: the socket used to reach the proxy, 0 for none
  back,      \* back[s]: what the backend knows of socket s
  link,      \* link[s]: the connection works
  up,        \* up[s]: messages to the backend not handled yet
  resumes,   \* resumeRunningRuns started and not yet at this run
  tasks,     \* runQueue of the gateway for this run
  cur,       \* runStates: the run's present state object, 0 for none
  nobj,      \* state objects made so far
  obj,       \* obj[i]: opened, opening, openDeferred of state object i
  call,      \* call[c]: where call c is, with its local variables
  dfd,       \* dfd[c]: prompt/controlDeferredById of call[c].obj has c
  run,       \* the Run row
  psock,     \* the proxy's socket, 0 for none
  agent,     \* run.agent at the proxy is running and initialised
  box,       \* the run's sandbox instance exists
  inbox,     \* messages the proxy is handling: not in its queue yet
  opq,       \* opQueue of the run
  finished,  \* history: calls the agent has done
  world      \* the scene, with the faults left to occur

hub   == <<conn, resumes, tasks>>
state == <<cur, nobj, obj>>
net   == <<back, link, up>>
idle  == <<psock, agent, box, opq>>
proxy == <<idle, inbox>>
hist  == <<finished, world>>
vars  == <<hub, state, call, dfd, run, net, proxy, hist>>

NoObj  == [opened |-> FALSE, opening |-> FALSE, deferred |-> FALSE]
NoCall == [kind |-> "none", at |-> "idle", obj |-> 0, hint |-> NoSession,
           init |-> FALSE, res |-> NoSession]

Begun  == {"queued", "listed", "ensure", "resolve", "opening", "joining", "ready", "hint",
           "waiting"}
After  == {"answered", "finish", "done"}
Missed == {"startfail", "failed"}
\* Messages to the proxy: [t : {"open"}, init], [t : {"prompt"}, call, hint] and
\* [t : {"control"}, call].  The operations it makes of them: [t : {"open"}, init] and
\* [t : {"prompt"}, call, sess, running].  Messages from it: [t : {"register"}],
\* [t : {"opened"}, ok], [t : {"result"}, call, ok, sess], [t : {"created"}, sess] and
\* [t : {"status"}, st].  tasks holds [t : {"status"}, st] and [t : {"ws"}, call].

Init ==
  /\ conn = 0 /\ resumes = 0 /\ tasks = <<>>
  /\ back = [s \in Sockets |-> "none"] /\ link = [s \in Sockets |-> FALSE]
  /\ up = [s \in Sockets |-> <<>>]
  /\ cur = 0 /\ nobj = 0 /\ obj = [i \in Objs |-> NoObj]
  /\ call = [c \in Calls |-> NoCall] /\ dfd = [c \in Calls |-> FALSE]
  /\ run = [status |-> "running", session |-> NoSession, sandbox |-> "none"]
  /\ psock = 0 /\ agent = FALSE /\ box = FALSE /\ inbox = <<>> /\ opq = <<>>
  /\ finished = {} /\ world \in Scenes
------------------------------------------------------------------------------
(* Helpers.                                                                  *)

At(c, a) == call[c].at = a
Unmade(c) == At(c, "idle") /\ \A d \in 1..(c - 1) : ~At(d, "idle")
Goto(c, a) == call' = [call EXCEPT ![c].at = a]

\* A call that fails: the failed dispatch of a run still has to mark the run.
FailedAt(c) == IF call[c].kind = "start" THEN "startfail" ELSE "failed"
FailAll(S) == call' = [c \in Calls |-> IF c \in S
                                         THEN [call[c] EXCEPT !.at = FailedAt(c)]
                                         ELSE call[c]]

\* sendToAgent: to a dead connection it may fail or be lost.  (A message is received as
\* it is sent: one lost on its way is one sent after the connection broke.)
Sends(msg) ==
  conn # 0 /\ inbox' = IF link[conn] THEN Append(inbox, msg) ELSE inbox
SendFails == ~(conn # 0 /\ link[conn])

\* What the proxy says while it has no connection is lost.
Reply(msgs) ==
  up' = IF psock # 0 /\ link[psock] THEN [up EXCEPT ![psock] = @ \o msgs] ELSE up
Result(c, ok, sess) == [t |-> "result", call |-> c, ok |-> ok, sess |-> sess]
Status(st) == [t |-> "status", st |-> st]

\* The process stops: its promises, timers, maps and connections are gone.
BackendGone ==
  /\ conn' = 0 /\ resumes' = 0 /\ tasks' = <<>>
  /\ cur' = 0 /\ nobj' = 0 /\ obj' = [i \in Objs |-> NoObj]
  /\ call' = [c \in Calls |->
       IF At(c, "idle") THEN call[c]
       ELSE [call[c] EXCEPT !.obj = 0,
               !.at = CASE @ \in Begun -> "lost" [] @ \in After -> "done"
                        [] @ \in Missed -> "failed" [] OTHER -> @]]
  /\ dfd' = [c \in Calls |-> FALSE]
  /\ back' = [s \in Sockets |-> IF back[s] = "none" THEN "none" ELSE "closed"]
  /\ link' = [s \in Sockets |-> FALSE]
  /\ up' = [s \in Sockets |-> <<>>]
------------------------------------------------------------------------------
(* Calls: promptRun, cancelSession and the setSession… functions.            *)

MakeCall(c, k, init) ==
  [NoCall EXCEPT !.kind = k, !.at = "ensure", !.init = init, !.hint = run.session]

\* The executor dispatches the run, with all that is needed to open it.
StartCall(c) ==
  /\ "start" \in world.kinds /\ Unmade(c) /\ run.status = "running"
  /\ \A d \in Calls : call[d].kind # "start"
  /\ call' = [call EXCEPT ![c] = MakeCall(c, "start", TRUE)]
  /\ UNCHANGED <<hub, state, dfd, run, net, proxy, hist>>

\* A message of a user over HTTP; the run is opened anew if its sandbox is missing.
ChatCall(c) ==
  /\ "chat" \in world.kinds /\ Unmade(c) /\ \E d \in Calls : call[d].kind = "start"
  /\ call' = [call EXCEPT ![c] = MakeCall(c, "chat", run.sandbox = "missing")]
  /\ UNCHANGED <<hub, state, dfd, run, net, proxy, hist>>

\* The same over the browser's WebSocket, in the run's queue of the gateway.
WsCall(c) ==
  /\ "ws" \in world.kinds /\ Unmade(c) /\ \E d \in Calls : call[d].kind = "start"
  /\ call' = [call EXCEPT ![c] = [NoCall EXCEPT !.kind = "ws", !.at = "queued"]]
  /\ tasks' = Append(tasks, [t |-> "ws", call |-> c])
  /\ UNCHANGED <<conn, resumes, state, dfd, run, net, proxy, hist>>

\* An admin sets the session's mode or model; cancelling it goes the same way.
ControlCall(c) ==
  /\ "control" \in world.kinds /\ Unmade(c) /\ run.session # NoSession
  /\ call' = [call EXCEPT ![c] = MakeCall(c, "control", FALSE)]
  /\ UNCHANGED <<hub, state, dfd, run, net, proxy, hist>>

Resumable == run.status = "running" /\ run.sandbox \notin {"stopped", "missing"}

\* The proxy has registered: its agent's running runs are listed, and each is
\* prompted again when those before it in the list have ended.
ResumeList(c) ==
  /\ "resume" \in world.kinds /\ resumes > 0 /\ Unmade(c) /\ Resumable
  /\ resumes' = resumes - 1
  /\ call' = [call EXCEPT ![c] = [MakeCall(c, "resume", FALSE) EXCEPT !.at = "listed"]]
  /\ UNCHANGED <<conn, tasks, state, dfd, run, net, proxy, hist>>

ResumeCall(c) ==
  /\ At(c, "listed") /\ Goto(c, "ensure")
  /\ UNCHANGED <<hub, state, dfd, run, net, proxy, hist>>

\* Nothing to resume (or, a bound, no call left to do it with).
ResumeNothing ==
  /\ resumes > 0
  /\ "resume" \notin world.kinds \/ ~Resumable \/ \A c \in Calls : ~At(c, "idle")
  /\ resumes' = resumes - 1
  /\ UNCHANGED <<conn, tasks, state, call, dfd, run, net, proxy, hist>>

\* The run's state object is there: reuse it, join its opening, or open it.
JoinState(c, init) ==
  /\ cur # 0
  /\ obj' = [obj EXCEPT ![cur].opening = @ \/ ~obj[cur].opened]
  /\ call' = [call EXCEPT ![c].obj = cur, ![c].init = init,
                ![c].at = CASE obj[cur].opened -> "ready"
                            [] obj[cur].opening -> "joining"
                            [] OTHER -> "resolve"]
  /\ UNCHANGED <<cur, nobj>>

MakeState(c, init) ==
  /\ cur = 0
  /\ nobj' = nobj + 1 /\ cur' = nobj'
  /\ obj' = [obj EXCEPT ![nobj'] = [NoObj EXCEPT !.opening = TRUE]]
  /\ call' = [call EXCEPT ![c].obj = nobj', ![c].init = init, ![c].at = "resolve"]

\* promptRun drops its init when the sandbox is there, then ensureOpen.
EnsureOpen(c) ==
  LET init == call[c].init /\ run.sandbox \in {"none", "missing"} IN
  /\ At(c, "ensure")
  /\ JoinState(c, init) \/ MakeState(c, init)
  /\ UNCHANGED <<hub, dfd, run, net, proxy, hist>>

\* Everyone who waits for state object i to open.
Waiting(i) == {c \in Calls : call[c].obj = i /\ call[c].at \in {"opening", "joining"}}

\* The open of state object i is settled.
OpenFails(i, S) ==
  /\ obj' = [obj EXCEPT ![i] = NoObj]
  /\ FailAll(S) /\ UNCHANGED <<cur, nobj>>

OpenSent(c) ==
  /\ At(c, "resolve")
  /\ \/ /\ Sends([t |-> "open", init |-> call[c].init])
        /\ obj' = [obj EXCEPT ![call[c].obj].deferred = TRUE]
        /\ Goto(c, "opening") /\ UNCHANGED <<cur, nobj>>
     \/ /\ SendFails
        /\ OpenFails(call[c].obj, Waiting(call[c].obj) \cup {c}) /\ UNCHANGED inbox
  /\ UNCHANGED <<hub, dfd, run, net, idle, hist>>

\* Mutant: only the call that opened is told of the timeout.
OpenTimeoutOne(c) ==
  /\ At(c, "opening")
  /\ OpenFails(call[c].obj, {c})
  /\ UNCHANGED <<hub, dfd, run, net, proxy, hist>>

OpenTimeout(c) ==
  /\ At(c, "opening")
  /\ OpenFails(call[c].obj, Waiting(call[c].obj))
  /\ UNCHANGED <<hub, dfd, run, net, proxy, hist>>

\* The message of an opened call goes out; the promise of its answer stays if not.
SendCall(c) ==
  \/ /\ Sends(IF call[c].kind = "control" THEN [t |-> "control", call |-> c]
              ELSE [t |-> "prompt", call |-> c, hint |-> call[c].hint])
     /\ Goto(c, "waiting")
  \/ SendFails /\ Goto(c, FailedAt(c)) /\ UNCHANGED inbox

\* The continuation of an opened call: it promises itself an answer and sends; a
\* prompt of a known session writes the session's state in between.
Ready(c) ==
  /\ At(c, "ready")
  /\ dfd' = [dfd EXCEPT ![c] = TRUE]
  /\ IF call[c].hint # NoSession /\ call[c].kind # "control"
       THEN Goto(c, "hint") /\ UNCHANGED inbox
       ELSE SendCall(c)
  /\ UNCHANGED <<hub, state, run, net, idle, hist>>

HintWritten(c) ==
  /\ At(c, "hint") /\ SendCall(c)
  /\ UNCHANGED <<hub, state, dfd, run, net, idle, hist>>

\* The timer of a call.  If its caller has gone on without it nobody handles the
\* rejection, and the process stops.
PromptTimeout(c) ==
  /\ dfd[c]
  /\ \/ /\ At(c, "waiting")
        /\ FailAll({c}) /\ dfd' = [dfd EXCEPT ![c] = FALSE]
        /\ UNCHANGED <<hub, state, net>>
     \/ ~At(c, "waiting") /\ BackendGone
  /\ UNCHANGED <<run, proxy, finished, world>>
------------------------------------------------------------------------------
(* Messages from the proxy.                                                  *)

\* The socket's next message, if the gateway takes messages of this socket.
Incoming(s, t) ==
  back[s] = "registered" /\ up[s] # <<>> /\ Head(up[s]).t = t
Taken(s) == up' = [up EXCEPT ![s] = Tail(@)]

\* register_agent: from now on this socket is used.
Register(s) ==
  /\ back[s] = "open" /\ up[s] # <<>>
  /\ LateClose \/ \A o \in 1..(s - 1) : back[o] \notin {"open", "registered"}
  /\ Taken(s) /\ back' = [back EXCEPT ![s] = "registered"]
  /\ conn' = s /\ resumes' = resumes + 1
  /\ UNCHANGED <<tasks, state, call, dfd, run, link, proxy, hist>>

\* handleAcpOpened: nothing says which open it answers.
HandleOpened(s) ==
  /\ Incoming(s, "opened") /\ Taken(s)
  /\ IF cur # 0 /\ obj[cur].deferred
       THEN IF Head(up[s]).ok
              THEN /\ obj' = [obj EXCEPT ![cur] = [NoObj EXCEPT !.opened = TRUE]]
                   /\ call' = [c \in Calls |->
                        IF c \in Waiting(cur) THEN [call[c] EXCEPT !.at = "ready"]
                                              ELSE call[c]]
                   /\ UNCHANGED <<cur, nobj>>
              ELSE OpenFails(cur, Waiting(cur))
       ELSE UNCHANGED <<state, call>>
  /\ UNCHANGED <<hub, dfd, run, back, link, proxy, hist>>

\* Mutant: the result settles whatever promise of the run is open.
AnswersAny(m) == {c \in Calls : dfd[c] /\ cur # 0 /\ call[c].obj = cur}

\* Whose promise a result settles: that of the call it names.
Answers(m) == {c \in Calls : c = m.call /\ dfd[c] /\ cur # 0 /\ call[c].obj = cur}

HandleResult(s) ==
  LET m == Head(up[s]) IN
  /\ Incoming(s, "result") /\ Taken(s)
  /\ LET hit == Answers(m) IN
     /\ dfd' = [c \in Calls |-> dfd[c] /\ c \notin hit]
     /\ call' = [c \in Calls |->
          IF c \notin hit \/ ~At(c, "waiting") THEN call[c]
          ELSE IF m.ok THEN [call[c] EXCEPT !.at = "answered", !.res = m.sess]
                       ELSE [call[c] EXCEPT !.at = FailedAt(c)]]
  /\ UNCHANGED <<hub, state, run, back, link, proxy, hist>>

\* An update of the agent: the first session of the run is remembered.
HandleCreated(s) ==
  /\ Incoming(s, "created") /\ Taken(s)
  /\ run' = [run EXCEPT !.session = IF @ = NoSession THEN Head(up[s]).sess ELSE @]
  /\ UNCHANGED <<hub, state, call, dfd, back, link, proxy, hist>>

\* A status of the sandbox (instance status, exit, inventory) takes its turn in the
\* run's queue.
HandleStatus(s) ==
  /\ Incoming(s, "status") /\ Taken(s)
  /\ IF tasks = <<>>
       THEN run' = [run EXCEPT !.sandbox = Head(up[s]).st] /\ UNCHANGED tasks
       ELSE tasks' = Append(tasks, Head(up[s])) /\ UNCHANGED run
  /\ UNCHANGED <<conn, resumes, state, call, dfd, back, link, proxy, hist>>

StatusTask ==
  /\ tasks # <<>> /\ Head(tasks).t = "status" /\ tasks' = Tail(tasks)
  /\ run' = [run EXCEPT !.sandbox = Head(tasks).st]
  /\ UNCHANGED <<conn, resumes, state, call, dfd, net, proxy, hist>>

\* A prompt over the browser's WebSocket keeps the run's queue until it has ended.
WsTask(c) ==
  /\ tasks # <<>> /\ Head(tasks) = [t |-> "ws", call |-> c]
  /\ \/ /\ At(c, "queued") /\ UNCHANGED tasks
        /\ call' = [call EXCEPT ![c] = MakeCall(c, "ws", run.sandbox = "missing")]
     \/ call[c].at \in {"done", "failed"} /\ tasks' = Tail(tasks) /\ UNCHANGED call
  /\ UNCHANGED <<conn, resumes, state, dfd, run, net, proxy, hist>>

\* The close of a socket: the proxy's connection is forgotten, whichever it is.
CloseConn(s) ==
  /\ back[s] \in {"open", "registered"} /\ ~link[s] /\ up[s] = <<>>
  /\ IF back[s] = "open"
       THEN back' = [back EXCEPT ![s] = "closed"] /\ UNCHANGED conn
       ELSE back' = [back EXCEPT ![s] = "closing"] /\ conn' = 0
  /\ UNCHANGED <<resumes, tasks, state, call, dfd, run, link, up, proxy, hist>>

\* After the agent was marked offline, handleProxyDisconnected: the run's state is
\* dropped and its promises are rejected.
Mine == {c \in Calls : cur # 0 /\ call[c].obj = cur}
DropState(s) ==
  LET lost == {c \in Mine : dfd[c] \/ (obj[cur].deferred /\ c \in Waiting(cur))} IN
  /\ back[s] = "closing" /\ \A c \in Mine : dfd[c] => At(c, "waiting")
  /\ back' = [back EXCEPT ![s] = "closed"] /\ cur' = 0
  /\ obj' = [i \in Objs |-> IF i = cur /\ obj[i].deferred THEN NoObj ELSE obj[i]]
  /\ FailAll(lost) /\ dfd' = [c \in Calls |-> dfd[c] /\ c \notin lost]
  /\ UNCHANGED <<resumes, tasks, nobj, run, link, up, proxy, hist>>

\* Nobody handles the rejection of a promise not yet awaited, or no longer.
DropUnawaited(s) ==
  /\ back[s] = "closing" /\ \E c \in Mine : dfd[c] /\ ~At(c, "waiting")
  /\ BackendGone
  /\ UNCHANGED <<run, proxy, finished, world>>

\* Mutant: the connection is only forgotten after the agent was marked offline.
CloseRestForgets(s) == DropUnawaited(s) \/ (DropState(s) /\ conn' = 0)

CloseRest(s) == DropUnawaited(s) \/ (DropState(s) /\ UNCHANGED conn)

------------------------------------------------------------------------------
(* The end of a call.                                                        *)

\* promptRun has its answer: the session is written, then the run's status read.
Answered(c) ==
  /\ At(c, "answered")
  /\ IF call[c].kind = "control"
       THEN Goto(c, "done") /\ UNCHANGED run
       ELSE /\ Goto(c, IF run.status = "running" THEN "finish" ELSE "done")
            /\ run' = [run EXCEPT !.session = call[c].res]
  /\ UNCHANGED <<hub, state, dfd, net, proxy, hist>>

Finish(c) ==
  /\ At(c, "finish") /\ Goto(c, "done")
  /\ run' = [run EXCEPT !.status = "completed"]
  /\ UNCHANGED <<hub, state, dfd, net, proxy, hist>>

\* Mutant: a prompt that failed ends its run like one that was answered.
StartFailedMut(c) ==
  /\ At(c, "startfail") /\ Goto(c, "failed")
  /\ run' = [run EXCEPT !.status = "completed"]
  /\ UNCHANGED <<hub, state, dfd, net, proxy, hist>>

\* The dispatcher of the run learns that its prompt failed.
StartFailed(c) ==
  /\ At(c, "startfail") /\ Goto(c, "failed")
  /\ run' = [run EXCEPT !.status = "failed"]
  /\ UNCHANGED <<hub, state, dfd, net, proxy, hist>>

------------------------------------------------------------------------------
(* The proxy.                                                                *)

\* handleSessionControl: the agent does as asked, or there is none.
Control(i) ==
  /\ i \in DOMAIN inbox /\ inbox[i].t = "control" /\ inbox' = RemoveAt(inbox, i)
  /\ \E ok \in BOOLEAN :
       /\ ok => agent
       /\ Reply(<<Result(inbox[i].call, ok, NoSession)>>)
       /\ finished' = IF ok THEN finished \cup {inbox[i].call} ELSE finished
  /\ UNCHANGED <<hub, state, call, dfd, run, back, link, psock, agent, box, opq, world>>

Opened(ok) == [t |-> "opened", ok |-> ok]
Refusal(m) == IF m.t = "open" THEN Opened(FALSE) ELSE Result(m.call, FALSE, NoSession)
Operation(m) ==
  IF m.t = "open" THEN m
  ELSE [t |-> "prompt", call |-> m.call, sess |-> m.hint, running |-> FALSE]

\* Preparations overtake each other; the operations then take turns.
EnsureRuntime(i) ==
  /\ i \in DOMAIN inbox /\ inbox[i].t # "control" /\ inbox' = RemoveAt(inbox, i)
  /\ \/ /\ box' = TRUE /\ opq' = Append(opq, Operation(inbox[i]))
        /\ Reply(<<Status("running")>>)
     \/ Reply(<<Refusal(inbox[i])>>) /\ UNCHANGED <<box, opq>>
  /\ UNCHANGED <<hub, state, call, dfd, run, back, link, psock, agent, hist>>

Operating(t) == opq # <<>> /\ Head(opq).t = t

\* handleAcpOpen: without what an agent needs to start, only a running one will do.
OpenRun ==
  /\ Operating("open") /\ opq' = Tail(opq)
  /\ \/ agent /\ Reply(<<Opened(TRUE)>>) /\ UNCHANGED agent
     \/ /\ ~agent /\ Head(opq).init /\ box
        /\ agent' = TRUE /\ Reply(<<Status("running"), Opened(TRUE)>>)
     \/ ~agent /\ Reply(<<Opened(FALSE)>>) /\ UNCHANGED agent
  /\ UNCHANGED <<hub, state, call, dfd, run, back, link, psock, box, inbox, hist>>

\* handlePromptSend: prompts never bring an init.
PromptBegins ==
  LET op == Head(opq) IN
  /\ Operating("prompt") /\ ~op.running
  /\ \/ /\ agent /\ op.sess # NoSession
        /\ opq' = [opq EXCEPT ![1].running = TRUE] /\ UNCHANGED up
     \/ /\ agent /\ op.sess = NoSession
        /\ opq' = [opq EXCEPT ![1].running = TRUE, ![1].sess = op.call]
        /\ Reply(<<[t |-> "created", sess |-> op.call]>>)
     \/ /\ ~agent \/ op.sess = NoSession
        /\ opq' = Tail(opq) /\ Reply(<<Result(op.call, FALSE, NoSession)>>)
  /\ UNCHANGED <<hub, state, call, dfd, run, back, link, psock, agent, box,
                 inbox, hist>>

PromptEnds ==
  LET op == Head(opq) IN
  /\ Operating("prompt") /\ op.running
  /\ \/ /\ finished' = finished \cup {op.call} /\ opq' = Tail(opq)
        /\ Reply(<<Result(op.call, TRUE, op.sess)>>)
     \/ /\ opq' = Tail(opq) /\ UNCHANGED finished
        /\ Reply(<<Result(op.call, FALSE, NoSession)>>)
     \/ /\ op.sess # op.call  \* the session is unknown: once more in a new one
        /\ opq' = [opq EXCEPT ![1].sess = op.call] /\ UNCHANGED finished
        /\ Reply(<<[t |-> "created", sess |-> op.call]>>)
  /\ UNCHANGED <<hub, state, call, dfd, run, back, link, psock, agent, box,
                 inbox, world>>

\* connectLoop: the next connection opens with a registration and an inventory.
Connect(s) ==
  /\ psock = 0 /\ back[s] = "none" /\ \A o \in 1..(s - 1) : back[o] # "none"
  /\ psock' = s /\ link' = [link EXCEPT ![s] = TRUE]
  /\ back' = [back EXCEPT ![s] = "open"]
  /\ up' = [up EXCEPT ![s] = <<[t |-> "register"]>>
                            \o IF box THEN <<Status("running")>> ELSE <<>>]
  /\ UNCHANGED <<hub, state, call, dfd, run, agent, box, inbox, opq, hist>>

Disconnected ==
  /\ psock # 0 /\ ~link[psock] /\ psock' = 0
  /\ UNCHANGED <<hub, state, call, dfd, run, net, agent, box, inbox, opq, hist>>
------------------------------------------------------------------------------
(* Faults.                                                                   *)

Fault(kind) ==
  kind \in world.faults /\ world.left > 0 /\ world' = [world EXCEPT !.left = @ - 1]

\* The connection breaks: from now on what either side sends is lost.
Drop ==
  /\ Fault("drop") /\ psock # 0 /\ link[psock]
  /\ link' = [link EXCEPT ![psock] = FALSE]
  /\ UNCHANGED <<hub, state, call, dfd, run, back, up, proxy, finished>>

BackendCrash ==
  /\ Fault("crash") /\ BackendGone
  /\ UNCHANGED <<run, proxy, finished>>

\* The proxy restarts: its runs are gone, their sandboxes are still there.
ProxyRestart ==
  /\ Fault("restart") /\ psock # 0
  /\ psock' = 0 /\ agent' = FALSE /\ inbox' = <<>> /\ opq' = <<>>
  /\ link' = [link EXCEPT ![psock] = FALSE]
  /\ UNCHANGED <<hub, state, call, dfd, run, back, up, box, finished>>

\* A prompt that was running fails with its agent.
Orphan == IF Operating("prompt") /\ Head(opq).running
            THEN <<Result(Head(opq).call, FALSE, NoSession)>> ELSE <<>>
AgentStops(st) ==
  /\ agent' = FALSE /\ Reply(Orphan \o <<Status(st)>>)
  /\ opq' = IF Orphan # <<>> THEN Tail(opq) ELSE opq
  /\ UNCHANGED <<hub, state, call, dfd, run, back, link, psock, inbox,
                 finished>>

AgentExit == Fault("exit") /\ agent /\ AgentStops("stopped") /\ UNCHANGED box

\* The sandbox is removed by an administrator or when its keepalive expires.
RemoveBox == Fault("remove") /\ box /\ box' = FALSE /\ AgentStops("missing")

Cancel ==
  /\ Fault("cancel") /\ run.status = "running"
  /\ run' = [run EXCEPT !.status = "cancelled"]
  /\ UNCHANGED <<hub, state, call, dfd, net, proxy, finished>>
------------------------------------------------------------------------------
Begin(c) == StartCall(c) \/ ChatCall(c) \/ WsCall(c) \/ ControlCall(c)

\* What the process does next with call c, and what it never waits for in vain.
Continue(c) ==
  \/ ResumeCall(c) \/ WsTask(c) \/ EnsureOpen(c) \/ OpenSent(c) \/ HintWritten(c)
  \/ Answered(c) \/ Finish(c) \/ StartFailed(c)
Timer(c) == OpenTimeout(c) \/ PromptTimeout(c)

Handle(s) ==
  \/ Register(s) \/ HandleOpened(s) \/ HandleResult(s) \/ HandleCreated(s)
  \/ HandleStatus(s) \/ CloseConn(s) \/ CloseRest(s)

ProxyStep ==
  \/ \E i \in DOMAIN inbox : Control(i) \/ EnsureRuntime(i)
  \/ OpenRun \/ PromptBegins \/ PromptEnds \/ \E s \in Sockets : Connect(s)
  \/ Disconnected

\* A call whose opening has been settled goes on before anything else is handled.
Settled == \A c \in Calls : ~At(c, "ready")

Next ==
  \/ \E c \in Calls : Ready(c)
  \/ /\ Settled
     /\ \/ \E c \in Calls : Begin(c) \/ ResumeList(c) \/ Continue(c) \/ Timer(c)
        \/ ResumeNothing \/ StatusTask
        \/ \E s \in Sockets : Handle(s)
        \/ ProxyStep
        \/ Drop \/ BackendCrash \/ ProxyRestart \/ AgentExit \/ RemoveBox \/ Cancel

Spec == Init /\ [][Next]_vars

\* The processes and their messages do not all stop: a process that can go on, a
\* message that can be handled, a timer or a reconnection is not put off for ever.
Progress ==
  \/ \E c \in Calls : Ready(c)
  \/ /\ Settled
     /\ \/ \E c \in Calls : ResumeList(c) \/ Continue(c) \/ Timer(c)
        \/ ResumeNothing \/ StatusTask
        \/ \E s \in Sockets : Handle(s)
        \/ ProxyStep

FairSpec == Spec /\ WF_vars(Progress)
------------------------------------------------------------------------------
(* Properties.                                                               *)

\* Whatever is lost, repeated or late, a call is answered at most once, with its own
\* result and after the agent has done its work.
Outcome(at) ==
  CASE at = "idle" -> "none" [] at = "lost" -> "lost" [] at \in Begun -> "pending"
    [] at \in After -> "ok" [] OTHER -> "failed"
Told == [c \in Calls |-> Outcome(call[c].at)]
Abstract == INSTANCE PromptCall WITH answer <- Told
CallsAnswered == Abstract!Spec

\* A run is completed by a prompt the agent has finished, of which the tunnel knows
\* (finalizeRunIfRunning), and by nothing else here.
CompletedByWork ==
  run.status = "completed" =>
    \E c \in finished : call[c].kind # "control" /\ call[c].at \in {"finish", "done"}

\* A proxy that has registered, and whose messages are handled, can be reached: the
\* close of its earlier connection does not take the present one away.
Reachable ==
  psock # 0 /\ link[psock] /\ back[psock] = "registered" => conn = psock

\* Nobody waits for ever: each call is answered, fails, or dies with the process.
CallsEnd == \A c \in Calls :
  call[c].at \in Begun ~> call[c].at \in {"done", "failed", "lost"}

===============================================================================
