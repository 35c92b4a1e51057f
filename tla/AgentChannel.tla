---------------------------- MODULE AgentChannel ----------------------------
(***************************************************************************)
(* The proxy's channel to the agent of one run: AgentBridge (JSON-RPC over  *)
(* the agent's stdin and stdout), AcpClientFacade (what the agent asks of   *)
(* its client), and the prompt operations of handlePromptSend.ts that open  *)
(* the agent, find a session and await its answers, one operation at a     *)
(* time.  The agent is a process of its own that may exit at any moment.   *)
(*                                                                         *)
(* What the settling of a promise runs before any other event is handled   *)
(* belongs to the action that settles it.                                  *)
(***************************************************************************)
EXTENDS Naturals, Sequences, FiniteSets

CONSTANTS
  MaxPrompts,  \* bound: prompt_send messages
  MaxStarts,   \* bound: starts of the agent
  MaxAsks,     \* bound: requests of one agent process
  ChannelScenes  \* sandbox provider, what agents ask, and whether they exit, are closed, or
                 \*   leave their stdin full

ASSUME BoundsAreNat == {MaxPrompts, MaxStarts, MaxAsks} \subseteq Nat
ASSUME ScenesAreKnown ==
  ChannelScenes \subseteq [provider : {"host_process", "bwrap", "container"},
                          asks : SUBSET {"permission", "file", "wait", "kill"},
                          troubles : SUBSET {"exit", "close", "full"}]

\* Prompts are numbered in the order they arrive (their prompt_id), bridges and processes
\* by the start that made them, sessions in the order agents made them.
Prompts == 1 .. MaxPrompts
NoPrompt == 0
Starts == 1 .. MaxStarts
Sessions == 1 .. 2 * Cardinality(Prompts)

VARIABLES
  scene,       \* which of the scenes this is
  prompt,      \* where each prompt is, with its session and what became of it
  opQueue,     \* operations of the run, the first one at work
  runtime,     \* RunRuntime: agent, initialized, activePromptId, seenSessionIds, suppressNextAcpExit
  bridge,      \* the AgentBridges: process, closed, whether they hear it, the request they handle
  process,     \* the agent processes
  inst,        \* the process the sandbox would use again (agentProc of its instance)
  stdin, stdout,  \* per process: messages not read by the agent, by the proxy
  jam,         \* what the latest bridge waits to have written: a call, an answer to a request
  permission,  \* pendingPermissions: request id to the bridge that waits
  stored,      \* the session the backend knows and sends with the next prompt
  sessions,    \* sessions made so far
  done,        \* history: prompts the agents have finished
  selected,    \* history: ids of permission requests users have granted
  granted,     \* history: ids of permission requests agents were granted
  misheard,    \* history: an update was passed on as one of another prompt
  late         \* history: an answer was no longer waited for

seat    == <<prompt, opQueue, runtime>>
wires   == <<bridge, process, inst, stdin, stdout, jam>>
past    == <<stored, sessions, done, selected, granted, misheard, late>>
chanVars == <<scene, seat, wires, permission, past>>

Asks == {"permission", "file", "wait", "kill"}
Calls == {"initialize", "new", "load", "prompt", "newAgain", "promptAgain"}
\* Messages to the agent are [call, of, sess]; messages from it [t : {"answer"}, call,
\* of, ok, sess], [t : {"update"}, of] and [t : {"ask"}, id, ask].  A call is known by
\* its prompt and kind.

NoBridge == [proc |-> 0, closed |-> FALSE, deaf |-> FALSE, handles |-> 0, rpc |-> {}]
NoProcess == [started |-> FALSE, alive |-> FALSE, killed |-> FALSE, exitSeen |-> FALSE, knows |-> {},
              works |-> {}, asked |-> 0, command |-> FALSE]

ChannelInit ==
  /\ scene \in ChannelScenes
  /\ prompt = [p \in Prompts |-> [at |-> "unsent", sess |-> 0, result |-> "none"]]
  /\ opQueue = <<>>
  /\ runtime = [agent |-> 0, initialized |-> FALSE, active |-> NoPrompt, seen |-> {},
                suppress |-> FALSE]
  /\ bridge = [b \in Starts |-> NoBridge]
  /\ process = [n \in Starts |-> NoProcess]
  /\ inst = 0
  /\ stdin = [n \in Starts |-> <<>>] /\ stdout = [n \in Starts |-> <<>>]
  /\ jam = {}
  /\ permission = <<>>
  /\ stored = 0 /\ sessions = 0
  /\ done = {} /\ selected = {} /\ granted = {} /\ misheard = FALSE /\ late = FALSE

-----------------------------------------------------------------------------
(* Helpers                                                                  *)

\* The agent is the entrypoint of a container, after its init script.
Container == scene.provider = "container"

AtWork(p) == opQueue # <<>> /\ Head(opQueue) = p
Next1 == Cardinality({b \in Starts : bridge[b].proc # 0}) + 1

Open(b) == bridge[b].proc # 0 /\ ~bridge[b].closed

\* The operation ends, and the proxy replies with a prompt_result.
Answer(p, result) ==
  /\ prompt' = [prompt EXCEPT ![p].at = "answered", ![p].sess = 0, ![p].result = result]
  /\ opQueue' = Tail(opQueue)
  /\ runtime' = [runtime EXCEPT !.active = NoPrompt]

\* writeToAgent: one write waits for the other, and for an agent that is alive to make
\* room in its stdin.
Writes(n, what) ==
  \/ /\ process[n].alive /\ (jam # {} \/ "full" \in scene.troubles)
     /\ jam' = jam \cup {what}
  \/ jam = {} /\ jam' = {}

\* The bridge that was made last is of process n.
Fed(n) == Next1 > 1 /\ bridge[Next1 - 1].proc = n

\* AgentBridge.sendRpc, once the call that came before it is settled.
SendRpc(b, p, call, sess, settled) ==
  LET n == bridge[b].proc
      msg == [call |-> call, of |-> p, sess |-> sess]
  IN /\ prompt' = [prompt EXCEPT ![p].at = call, ![p].sess = sess]
     /\ bridge' = [bridge EXCEPT ![b].rpc = (@ \ settled) \cup {<<p, call>>}]
     /\ stdin' = IF process[n].alive THEN [stdin EXCEPT ![n] = Append(@, msg)] ELSE stdin
     /\ Writes(n, "call")
     /\ UNCHANGED opQueue

\* ensureSessionForPrompt: make a session, or use the one the backend knows, which
\* an agent that can is told to load if this bridge has not seen it.
FindSession(b, p, settled) ==
  LET hint == prompt[p].sess
      Opened(seen) == runtime' = [runtime EXCEPT !.initialized = TRUE, !.active = p, !.seen = seen]
  IN \/ hint = 0 /\ Opened(runtime.seen) /\ SendRpc(b, p, "new", 0, settled)
     \/ hint \in runtime.seen /\ Opened(runtime.seen) /\ SendRpc(b, p, "prompt", hint, settled)
     \/ /\ hint \notin runtime.seen \cup {0}
        /\ Opened(runtime.seen \cup {hint})
        /\ \E call \in {"load", "prompt"} : SendRpc(b, p, call, hint, settled)

\* shouldRecreateSession looks for "session" in the error's text: the agent's word
\* that it does not know the session, and also the timeout of session/prompt.
Recreates(outcome) == outcome \in {"lost", "timeout"}

\* What the operation does when a call of it has settled.
Goes(b, p, call, outcome, sess) ==
  LET settled == {<<p, call>>}
      Seen == runtime' = [runtime EXCEPT !.seen = @ \cup {sess}]
      Over(result) == Answer(p, result)
                      /\ bridge' = [bridge EXCEPT ![b].rpc = @ \ settled]
                      /\ UNCHANGED <<stdin, jam>>
  IN CASE call = "initialize" /\ outcome = "ok" -> FindSession(b, p, settled)
       [] call = "new" /\ outcome = "ok" -> Seen /\ SendRpc(b, p, "prompt", sess, settled)
       [] call = "load" -> SendRpc(b, p, "prompt", prompt[p].sess, settled) /\ UNCHANGED runtime
       [] call = "prompt" /\ Recreates(outcome) ->
            SendRpc(b, p, "newAgain", prompt[p].sess, settled) /\ UNCHANGED runtime
       [] call = "newAgain" /\ outcome = "ok" -> Seen /\ SendRpc(b, p, "promptAgain", sess, settled)
       [] call \in {"prompt", "promptAgain"} /\ outcome = "ok" -> Over("ok")
       [] OTHER -> Over("failed")

\* Mutant: the permissions it waits for are left to wait.
CloseAgentOnly(b, exited) ==
  LET fails == opQueue # <<>> /\ (prompt[Head(opQueue)].at = "init" \/ bridge[b].rpc # {})
  IN /\ bridge' = [bridge EXCEPT ![b].closed = TRUE, ![b].handles = 0, ![b].rpc = {}]
     /\ process' = [process EXCEPT ![bridge[b].proc].killed = TRUE,
                                   ![bridge[b].proc].exitSeen = @ \/ exited]
     /\ UNCHANGED permission
     /\ stdout' = [stdout EXCEPT ![bridge[b].proc] = <<>>]
     /\ prompt' = IF ~fails THEN prompt
                  ELSE IF "call" \in jam THEN [prompt EXCEPT ![Head(opQueue)].at = "closing"]
                  ELSE [prompt EXCEPT ![Head(opQueue)].at = "answered", ![Head(opQueue)].sess = 0,
                                      ![Head(opQueue)].result = "failed"]
     /\ opQueue' = IF fails /\ "call" \notin jam THEN Tail(opQueue) ELSE opQueue
     /\ runtime' = [runtime EXCEPT !.agent = 0, !.initialized = FALSE, !.active = NoPrompt,
                                   !.seen = {}]

\* closeAgent and AgentBridge.close: the operation that waits for this agent fails, once
\* its write has ended.
CloseAgent(b, exited) ==
  LET fails == opQueue # <<>> /\ (prompt[Head(opQueue)].at = "init" \/ bridge[b].rpc # {})
  IN /\ bridge' = [bridge EXCEPT ![b].closed = TRUE, ![b].handles = 0, ![b].rpc = {}]
     /\ process' = [process EXCEPT ![bridge[b].proc].killed = TRUE,
                                   ![bridge[b].proc].exitSeen = @ \/ exited]
     /\ permission' = <<>>
     /\ stdout' = [stdout EXCEPT ![bridge[b].proc] = <<>>]
     /\ prompt' = IF ~fails THEN prompt
                  ELSE IF "call" \in jam THEN [prompt EXCEPT ![Head(opQueue)].at = "closing"]
                  ELSE [prompt EXCEPT ![Head(opQueue)].at = "answered", ![Head(opQueue)].sess = 0,
                                      ![Head(opQueue)].result = "failed"]
     /\ opQueue' = IF fails /\ "call" \notin jam THEN Tail(opQueue) ELSE opQueue
     /\ runtime' = [runtime EXCEPT !.agent = 0, !.initialized = FALSE, !.active = NoPrompt,
                                   !.seen = {}]

-----------------------------------------------------------------------------
(* The operations of the run                                                *)

\* Mutant: the prompt is the active one before its turn.
ArriveActive(p) ==
  /\ prompt[p].at = "unsent" /\ \A q \in 1 .. p - 1 : prompt[q].at # "unsent"
  /\ prompt' = [prompt EXCEPT ![p].at = "queued", ![p].sess = stored]
  /\ opQueue' = Append(opQueue, p)
  /\ runtime' = [runtime EXCEPT !.active = p]
  /\ UNCHANGED <<scene, wires, permission, past>>

\* handlePromptSend: the message is there, with the session the backend knows.
Arrive(p) ==
  /\ prompt[p].at = "unsent" /\ \A q \in 1 .. p - 1 : prompt[q].at # "unsent"
  /\ prompt' = [prompt EXCEPT ![p].at = "queued", ![p].sess = stored]
  /\ opQueue' = Append(opQueue, p)
  /\ UNCHANGED <<scene, runtime, wires, permission, past>>

\* ensureRunOpen with an agent that is there.
OpenAgain(p) ==
  LET b == runtime.agent
  IN /\ AtWork(p) /\ prompt[p].at = "queued" /\ b # 0
     /\ IF runtime.initialized
        THEN FindSession(b, p, {})
        ELSE SendRpc(b, p, "initialize", prompt[p].sess, {}) /\ UNCHANGED runtime
     /\ UNCHANGED <<scene, process, inst, stdout, permission, past>>

\* What is to be done before the agent is started fails: the workspace's git, or an item
\* of the agent's inputs; the init script, where the proxy runs it; the start itself.
Unopened(p) ==
  /\ AtWork(p) /\ prompt[p].at = "queued" /\ runtime.agent = 0
  /\ Answer(p, "failed")
  /\ UNCHANGED <<scene, wires, permission, past>>

InputsFail(p) == Unopened(p)

InitScriptFails(p) == scene.provider = "bwrap" /\ Unopened(p)

\* openAgent starts a process, and notes it in the registry before it returns.
Spawn(p) ==
  /\ AtWork(p) /\ prompt[p].at = "queued" /\ runtime.agent = 0
  /\ ~Container /\ inst = 0
  /\ Next1 \in Starts
  /\ process' = [process EXCEPT ![Next1].started = TRUE, ![Next1].alive = TRUE]
  /\ inst' = Next1
  /\ prompt' = [prompt EXCEPT ![p].at = "spawn"]
  /\ UNCHANGED <<scene, opQueue, runtime, bridge, stdin, stdout, jam, permission, past>>

\* The bridge of process n is made, and the agent initialized; only a bridge that is the
\* first to read the stdout of its process hears it.
Bridged(p, n, hears) ==
  LET b == Next1
      msg == [call |-> "initialize", of |-> p, sess |-> prompt[p].sess]
  IN /\ bridge' = [bridge EXCEPT ![b] = [NoBridge EXCEPT !.proc = n, !.deaf = ~hears,
                                                          !.rpc = {<<p, "initialize">>}]]
     /\ runtime' = [runtime EXCEPT !.agent = b]
     /\ prompt' = [prompt EXCEPT ![p].at = "initialize"]
     /\ stdin' = IF process[n].alive THEN [stdin EXCEPT ![n] = Append(@, msg)] ELSE stdin
     /\ jam' \in IF process[n].alive /\ "full" \in scene.troubles THEN {{}, {"call"}} ELSE {{}}
     /\ UNCHANGED <<scene, opQueue, process, inst, stdout, permission, past>>

Attach(p) == AtWork(p) /\ prompt[p].at = "spawn" /\ Bridged(p, Next1, TRUE)

\* openAgent uses a process again that has not exited yet, for all its instance knows.
Reuse(p) ==
  /\ AtWork(p) /\ prompt[p].at = "queued" /\ runtime.agent = 0
  /\ ~Container /\ inst # 0
  /\ Next1 \in Starts
  /\ Bridged(p, inst, FALSE)

\* A container's process runs the init first, and its exit would be the init's.
SpawnContainer(p) ==
  LET b == Next1
  IN /\ AtWork(p) /\ prompt[p].at = "queued" /\ runtime.agent = 0
     /\ Container
     /\ b \in Starts
     /\ process' = [process EXCEPT ![b].started = TRUE, ![b].alive = TRUE]
     /\ bridge' = [bridge EXCEPT ![b] = [NoBridge EXCEPT !.proc = b]]
     /\ runtime' = [runtime EXCEPT !.agent = b, !.suppress = TRUE]
     /\ prompt' = [prompt EXCEPT ![p].at = "init"]
     /\ jam' = {}
     /\ UNCHANGED <<scene, opQueue, inst, stdin, stdout, permission, past>>

\* The init's marker is read from stderr.
InitDone(p) ==
  /\ AtWork(p) /\ prompt[p].at = "init"
  /\ runtime' = [runtime EXCEPT !.suppress = FALSE]
  /\ SendRpc(runtime.agent, p, "initialize", prompt[p].sess, {})
  /\ UNCHANGED <<scene, process, inst, stdout, permission, past>>

\* The init fails or takes too long: the agent is closed and its instance stopped.
InitFails(p) ==
  /\ AtWork(p) /\ prompt[p].at = "init"
  /\ CloseAgent(runtime.agent, FALSE)
  /\ UNCHANGED <<scene, inst, stdin, jam, past>>

\* Mutant: only prompts have a timeout.
PromptTimesOut(p) ==
  LET call == prompt[p].at
  IN /\ AtWork(p) /\ call = "prompt" /\ "call" \notin jam
     /\ <<p, call>> \in bridge[runtime.agent].rpc
     /\ Goes(runtime.agent, p, call, "timeout", 0)
     /\ late' = TRUE
     /\ UNCHANGED <<scene, process, inst, stdout, permission, stored, sessions, done, selected,
                    granted, misheard>>

\* The timeout of sendRpc, which starts when the call has been written.
TimesOut(p) ==
  LET call == prompt[p].at
  IN /\ AtWork(p) /\ call \in Calls /\ "call" \notin jam
     /\ <<p, call>> \in bridge[runtime.agent].rpc
     /\ Goes(runtime.agent, p, call, "timeout", 0)
     /\ late' = TRUE
     /\ UNCHANGED <<scene, process, inst, stdout, permission, stored, sessions, done, selected,
                    granted, misheard>>

\* A call whose agent was closed while it was being written fails.
WriteFails(p) ==
  /\ AtWork(p) /\ prompt[p].at = "closing" /\ "call" \notin jam
  /\ Answer(p, "failed")
  /\ UNCHANGED <<scene, wires, permission, past>>

-----------------------------------------------------------------------------
(* AgentBridge.readLoop: one message at a time, and a request until it is   *)
(* answered                                                                 *)

\* The next message for bridge b.
Hears(b) ==
  /\ Open(b) /\ ~bridge[b].deaf /\ stdout[bridge[b].proc] # <<>>
  /\ bridge[b].handles = 0 /\ "answer" \notin jam

Take(b) == stdout' = [stdout EXCEPT ![bridge[b].proc] = Tail(@)]

\* Mutant: an answer is for whatever call is waiting.
ReadAnyAnswer(b) ==
  LET m == Head(stdout[bridge[b].proc])
      p == Head(opQueue)
  IN /\ Hears(b) /\ m.t = "answer"
     /\ Take(b)
     /\ IF bridge[b].rpc # {}
        THEN /\ Goes(b, p, prompt[p].at, IF m.ok THEN "ok" ELSE "failed",
                     IF m.sess = 0 THEN prompt[p].sess ELSE m.sess)
             /\ stored' = IF m.ok /\ m.sess # 0 THEN m.sess ELSE stored
        ELSE UNCHANGED <<seat, bridge, stdin, jam, stored>>
     /\ UNCHANGED <<scene, process, inst, permission, sessions, done, selected, granted, misheard, late>>

\* The answer to a call that still waits for it; others are dropped.
ReadAnswer(b) ==
  LET m == Head(stdout[bridge[b].proc])
      outcome == IF m.ok THEN "ok" ELSE IF m.call = "prompt" THEN "lost" ELSE "failed"
  IN /\ Hears(b) /\ m.t = "answer"
     /\ Take(b)
     /\ IF <<m.of, m.call>> \in bridge[b].rpc
        THEN /\ Goes(b, m.of, m.call, outcome, m.sess)
             /\ stored' = IF m.ok /\ m.sess # 0 THEN m.sess ELSE stored
        ELSE UNCHANGED <<seat, bridge, stdin, jam, stored>>
     /\ UNCHANGED <<scene, process, inst, permission, sessions, done, selected, granted, misheard, late>>

ReadUpdate(b) ==
  LET m == Head(stdout[bridge[b].proc])
  IN /\ Hears(b) /\ m.t = "update"
     /\ Take(b)
     /\ misheard' = (misheard \/ m.of # runtime.active)
     /\ UNCHANGED <<scene, seat, bridge, process, inst, stdin, jam, permission, stored, sessions,
                    done, selected, granted, late>>

\* session/request_permission: on a host the users are asked; elsewhere, and of a request
\* that has the id of one still pending, the default is taken.
ReadPermission(b) ==
  LET m == Head(stdout[bridge[b].proc])
  IN /\ Hears(b) /\ m.t = "ask" /\ m.ask = "permission"
     /\ Take(b)
     /\ IF scene.provider # "host_process" \/ m.id \in DOMAIN permission
        THEN /\ granted' = granted \cup {m.id} /\ UNCHANGED <<bridge, permission>>
             /\ Writes(bridge[b].proc, "answer")
        ELSE /\ permission' = [i \in DOMAIN permission \cup {m.id} |->
                                 IF i = m.id THEN b ELSE permission[i]]
             /\ bridge' = [bridge EXCEPT ![b].handles = m.id]
             /\ UNCHANGED <<granted, jam>>
     /\ UNCHANGED <<scene, seat, process, inst, stdin, stored, sessions, done, selected, misheard, late>>

\* fs/read_text_file and fs/write_text_file: a command in the sandbox reads or writes.
ReadFile(b) ==
  LET n == bridge[b].proc
      m == Head(stdout[n])
  IN /\ Hears(b) /\ m.t = "ask" /\ m.ask = "file"
     /\ Take(b)
     /\ bridge' = [bridge EXCEPT ![b].handles = m.id]
     /\ process' = [process EXCEPT ![n].command = TRUE]
     /\ UNCHANGED <<scene, seat, inst, stdin, jam, permission, past>>

\* terminal/wait_for_exit and terminal/kill, of the command the agent has started.
ReadTerminal(b) ==
  LET n == bridge[b].proc
      m == Head(stdout[n])
  IN /\ Hears(b) /\ m.t = "ask" /\ m.ask \in {"wait", "kill"}
     /\ Take(b)
     /\ IF m.ask = "wait" /\ process[n].command
        THEN bridge' = [bridge EXCEPT ![b].handles = m.id] /\ UNCHANGED jam
        ELSE Writes(n, "answer") /\ UNCHANGED bridge
     /\ process' = IF m.ask = "kill" THEN [process EXCEPT ![n].command = FALSE] ELSE process
     /\ UNCHANGED <<scene, seat, inst, stdin, permission, past>>

\* The command has exited, and the wait for it is answered.
Waited(b) ==
  /\ Open(b) /\ bridge[b].handles \notin DOMAIN permission \cup {0}
  /\ ~process[bridge[b].proc].command
  /\ bridge' = [bridge EXCEPT ![b].handles = 0]
  /\ Writes(bridge[b].proc, "answer")
  /\ UNCHANGED <<scene, seat, process, inst, stdin, stdout, permission, past>>

\* handleSessionPermission: a user grants the request or cancels it.
Decide(id, grants) ==
  /\ id \in DOMAIN permission
  /\ bridge' = [bridge EXCEPT ![permission[id]].handles = 0]
  /\ Writes(bridge[permission[id]].proc, "answer")
  /\ permission' = [i \in DOMAIN permission \ {id} |-> permission[i]]
  /\ selected' = IF grants THEN selected \cup {id} ELSE selected
  /\ granted' = IF grants THEN granted \cup {id} ELSE granted
  /\ UNCHANGED <<scene, seat, process, inst, stdin, stdout, stored, sessions, done, misheard, late>>

\* acp_close: not in the queue of the operations.
AcpClose ==
  /\ "close" \in scene.troubles
  /\ runtime.agent # 0
  /\ CloseAgent(runtime.agent, FALSE)
  /\ UNCHANGED <<scene, inst, stdin, jam, past>>

\* The exit of a process is noticed: by its instance and by its open bridge, if they had
\* asked to be told when it happened.
ExitNoticed(n) ==
  LET spawning == \E p \in Prompts : prompt[p].at = "spawn" /\ n = Next1
      b == runtime.agent
      told == b # 0 /\ bridge[b].proc = n
  IN /\ process[n].started /\ ~process[n].alive /\ ~process[n].exitSeen
     /\ inst' = IF inst = n /\ ~spawning THEN 0 ELSE inst
     /\ IF told /\ ~runtime.suppress
        THEN CloseAgent(b, TRUE)
        ELSE /\ runtime' = [runtime EXCEPT !.suppress = @ /\ ~told]
             /\ process' = [process EXCEPT ![n].exitSeen = TRUE]
             /\ UNCHANGED <<prompt, opQueue, bridge, stdout, permission>>
     /\ UNCHANGED <<scene, stdin, jam, past>>

-----------------------------------------------------------------------------
(* The agent's process, and the command it runs in a terminal               *)

Dies(n) ==
  /\ process[n].alive
  /\ process[n].killed \/ "exit" \in scene.troubles
  /\ process' = [process EXCEPT ![n].alive = FALSE, ![n].works = {},
                                      ![n].knows = {}, ![n].command = FALSE]
  /\ stdin' = [stdin EXCEPT ![n] = <<>>]
  /\ jam' = IF Fed(n) THEN {} ELSE jam
  /\ UNCHANGED <<scene, seat, bridge, inst, stdout, permission, past>>

\* What nobody will read is left out.
Says(n, msg) ==
  stdout' = IF \E b \in Starts : Open(b) /\ ~bridge[b].deaf /\ bridge[b].proc = n
            THEN [stdout EXCEPT ![n] = Append(@, msg)] ELSE stdout

\* What it reads makes room for what is to be written.
MakesRoom(n) ==
  jam' \in IF Fed(n) /\ Len(stdin[n]) = 1 THEN {{}, jam \ {"call"}} ELSE {jam}

\* It takes the next call: makes a session, finds one it kept or not, starts to work on
\* a prompt, and does not know every session.
AgentReads(n) ==
  LET m == Head(stdin[n])
      Answers(ok, sess) == Says(n, [t |-> "answer", call |-> m.call, of |-> m.of,
                                    ok |-> ok, sess |-> sess])
      Knows(s) == process' = [process EXCEPT ![n].knows = @ \cup {s}]
  IN /\ process[n].alive /\ stdin[n] # <<>>
     /\ stdin' = [stdin EXCEPT ![n] = Tail(@)]
     /\ MakesRoom(n)
     /\ \/ /\ m.call = "initialize"
           /\ Answers(TRUE, 0)
           /\ UNCHANGED <<process, sessions>>
        \/ /\ m.call \in {"new", "newAgain"}
           /\ sessions' = sessions + 1
           /\ Knows(sessions + 1) /\ Answers(TRUE, sessions + 1)
        \/ /\ m.call = "load"
           /\ \E kept \in BOOLEAN :
                IF kept THEN Knows(m.sess) /\ Answers(TRUE, 0)
                        ELSE Answers(FALSE, 0) /\ UNCHANGED process
           /\ UNCHANGED sessions
        \/ /\ m.call \in {"prompt", "promptAgain"} /\ m.sess \in process[n].knows
           /\ process' = [process EXCEPT ![n].works = @ \cup {<<m.of, m.call>>}]
           /\ UNCHANGED <<stdout, sessions>>
        \/ /\ m.call \in {"prompt", "promptAgain"} /\ m.sess \notin process[n].knows
           /\ Answers(FALSE, 0)
           /\ UNCHANGED <<process, sessions>>
     /\ UNCHANGED <<scene, seat, bridge, inst, permission, stored, done, selected, granted,
                    misheard, late>>

\* It takes an answer to what it asked.
AgentTakes(n) ==
  /\ process[n].alive /\ stdin[n] = <<>> /\ Fed(n)
  /\ "answer" \in jam
  /\ jam' = {}
  /\ UNCHANGED <<scene, seat, bridge, process, inst, stdin, stdout, permission, past>>

AgentFinishes(n) ==
  /\ process[n].alive
  /\ \E w \in process[n].works :
       /\ process' = [process EXCEPT ![n].works = @ \ {w}]
       /\ Says(n, [t |-> "answer", call |-> w[2], of |-> w[1], ok |-> TRUE, sess |-> 0])
       /\ done' = done \cup {w[1]}
  /\ UNCHANGED <<scene, seat, bridge, inst, stdin, jam, permission, stored, sessions, selected,
                 granted, misheard, late>>

\* While it works it tells what it does, and asks: for a permission, for the exit of a
\* command it has started, or to kill that command.
AgentUpdates(n) ==
  /\ process[n].alive /\ stdout[n] = <<>>
  /\ \E w \in process[n].works : Says(n, [t |-> "update", of |-> w[1]])
  /\ UNCHANGED <<scene, seat, bridge, process, inst, stdin, jam, permission, past>>

AgentAsks(n) ==
  /\ process[n].alive /\ process[n].works # {}
  /\ process[n].asked < MaxAsks
  /\ \E ask \in scene.asks :
       /\ ask = "kill" => process[n].command
       /\ process' = [process EXCEPT ![n].asked = @ + 1, ![n].command = @ \/ ask = "wait"]
       /\ Says(n, [t |-> "ask", id |-> process[n].asked + 1, ask |-> ask])
  /\ UNCHANGED <<scene, seat, bridge, inst, stdin, jam, permission, past>>

CommandExits(n) ==
  /\ process[n].command
  /\ process' = [process EXCEPT ![n].command = FALSE]
  /\ UNCHANGED <<scene, seat, bridge, inst, stdin, stdout, jam, permission, past>>

-----------------------------------------------------------------------------

ChannelNext ==
  \/ \E p \in Prompts :
       Arrive(p) \/ OpenAgain(p) \/ InputsFail(p) \/ InitScriptFails(p) \/ Spawn(p)
         \/ Attach(p) \/ Reuse(p) \/ SpawnContainer(p) \/ InitDone(p) \/ InitFails(p)
         \/ TimesOut(p) \/ WriteFails(p)
  \/ \E b \in Starts :
       ReadAnswer(b) \/ ReadUpdate(b) \/ ReadPermission(b) \/ ReadFile(b) \/ ReadTerminal(b) \/ Waited(b)
  \/ \E id \in 1 .. MaxAsks, grants \in BOOLEAN : Decide(id, grants)
  \/ AcpClose
  \/ \E n \in Starts :
       ExitNoticed(n) \/ Dies(n) \/ AgentReads(n) \/ AgentTakes(n) \/ AgentFinishes(n)
         \/ AgentUpdates(n) \/ AgentAsks(n) \/ CommandExits(n)

\* The steps of the proxy's own event loop happen: its operations and its timers.  The
\* agent, the command and the users owe nothing, nor what is done before an agent starts.
ChannelFair ==
  \A p \in Prompts :
    /\ WF_chanVars(OpenAgain(p)) /\ WF_chanVars(Attach(p)) /\ WF_chanVars(WriteFails(p))
    /\ WF_chanVars(InitFails(p)) /\ WF_chanVars(TimesOut(p))

ChannelSpec == ChannelInit /\ [][ChannelNext]_chanVars /\ ChannelFair

-----------------------------------------------------------------------------
(* Properties                                                               *)

\* A prompt is reported as done only when an agent has finished that prompt: an answer
\* belongs to the call whose id it bears (AgentBridge.pendingRpc).
AnsweredByWork == \A p \in Prompts : prompt[p].result = "ok" => p \in done

\* Where users are asked, no permission is granted without one: a request that waits when
\* its agent is closed is cancelled, so that its id cannot stand for another's.
GrantedByUser == scene.provider = "host_process" => granted \subseteq selected

\* While no answer is given up, an update is passed on as one of the prompt it is about.
UpdatesAttributed == ~late => ~misheard

\* The operation at work waits for what has no timeout: the opening of an agent (git, the
\* inputs, the start), or an agent that does not read what is written to it.
Stalled ==
  /\ opQueue # <<>>
  /\ \/ prompt[Head(opQueue)].at = "queued" /\ runtime.agent = 0
     \/ "call" \in jam

\* Every prompt is answered, whatever the agent, its process and the users do, unless the
\* run is stalled for ever: everything else an operation waits for has a timeout or fails
\* when the agent is closed.
PromptsAnswered ==
  \/ \A p \in Prompts : (prompt[p].at = "queued") ~> (prompt[p].at = "answered")
  \/ <>[]Stalled

=============================================================================
