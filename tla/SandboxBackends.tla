-------------------------- MODULE SandboxBackends --------------------------
(***************************************************************************)
(* What the sandbox of a proxy does inside one call: the three kinds of     *)
(* ProxySandbox, down to the processes, boxes and containers they start.    *)
(* SandboxControl sees each of these calls as one step; here the calls of   *)
(* two instances meet between their awaits, agents exit meanwhile, and the  *)
(* proxy restarts.                                                          *)
(*                                                                         *)
(*   host, bwrap             processes of the host, a map in memory, and a  *)
(*                           registry file that survives the proxy          *)
(*   simple, named, common, shared                                          *)
(*                           BoxLite: the proxy has one box at a time       *)
(*   container               the docker or podman command line              *)
(*                                                                         *)
(* What a call starts bears the name of the call: its process, its box or   *)
(* its container.                                                           *)
(***************************************************************************)
EXTENDS Naturals, FiniteSets

CONSTANTS
  Insts,      \* sandbox instances, one per run
  Calls,      \* bound: calls of the sandbox's methods
  Providers,  \* the providers looked at
  MaxRestarts \* bound: restarts of the proxy

Native == {"host", "bwrap"}
\* SimpleBox; a JsBox under the instance's name; one under the configured boxName, for each
\* instance anew or, with boxReuse, for all of them
Boxlite == {"simple", "named", "common", "shared"}

ASSUME ProvidersKnown == Providers \subseteq Native \cup Boxlite \cup {"container"}
ASSUME MaxRestartsNat == MaxRestarts \in Nat

NoCall == "no call"
ASSUME NoCallIsNone == {NoCall, "absent", "noAgent"} \cap Calls = {}
Nobody == [op |-> "none", inst |-> "none", at |-> "idle"]

VARIABLES
  provider,  \* sandbox.provider, with boxMode and boxReuse for BoxLite
  call,      \* per call: the method, the instance, and where it is
  proc,      \* per call: the process it started
  home,      \* per call: the box or container its process runs in
  held,      \* native: the instances map: the agent of each entry
  file,      \* native: registry.json: the process of each instance
  read,      \* native: what a call has read of the registry
  place,     \* per call: the box or the container it made
  named,     \* the runtime's names: the box or container that bears each
  box,       \* BoxLite: this.box
  meta,      \* BoxLite: this.boxMeta.instanceName
  victim,    \* BoxLite: the box a call awaits the stop of
  booted,    \* BoxLite: the bootstrapped set
  latest,    \* history: per instance, the last call begun, exec apart
  agent,     \* history: per instance, the last agent process
  muddled,   \* history: the proxy lost track of a process or a box
  restarts   \* bound: restarts so far

nativeVars == <<held, file, read>>
boxVars == <<box, meta, victim, booted>>
worldVars == <<place, named>>
procVars == <<proc, home, agent>>
backendVars == <<provider, call, procVars, nativeVars, worldVars, boxVars, latest, muddled, restarts>>

At(c, at) == call[c].at = at
In(c) == call[c].inst
Goto(c, at) == call' = [call EXCEPT ![c].at = at]
Over(c) == call[c].at \in {"idle", "done", "failed"}
IsOpen(c) == call[c].op \in {"open", "openInit"}

BackendInit ==
  /\ provider \in Providers
  /\ call = [c \in Calls |-> Nobody]
  /\ proc = [c \in Calls |-> "none"] /\ home = [c \in Calls |-> NoCall]
  /\ held = [i \in Insts |-> "absent"] /\ file = [i \in Insts |-> NoCall]
  /\ read = [c \in Calls |-> file]
  /\ place = [c \in Calls |-> "none"] /\ named = [i \in Insts \cup {"boxName"} |-> NoCall]
  /\ box = NoCall /\ meta = "none" /\ victim = [c \in Calls |-> NoCall] /\ booted = {}
  /\ latest = [i \in Insts |-> NoCall] /\ agent = [i \in Insts |-> NoCall]
  /\ muddled = FALSE /\ restarts = 0

-----------------------------------------------------------------------------
(* The calls: those of one instance wait for each other in the queue of its *)
(* run, but a terminal's execProcess waits for nobody.                      *)

FirstOf(op) ==
  CASE provider \in Native -> [open |-> "mkdir", openInit |-> "mkdir", ensure |-> "ensure",
                               exec |-> "exec", stop |-> "stop", remove |-> "lookup"][op]
    [] provider \in Boxlite -> [open |-> "inspect", openInit |-> "inspect", ensure |-> "ensure",
                                exec |-> "exec", stop |-> "stop", remove |-> "stop"][op]
    [] OTHER -> [open |-> "look", openInit |-> "look", ensure |-> "lookEnsure",
                 exec |-> "dockerExec", stop |-> "dockerStop", remove |-> "rm"][op]

Begin(c, op, i) ==
  /\ At(c, "idle")
  /\ op # "exec" => \A d \in Calls : In(d) = i /\ call[d].op # "exec" => Over(d)
  /\ op = "openInit" => provider = "container"
  /\ call' = [call EXCEPT ![c] = [op |-> op, inst |-> i, at |-> FirstOf(op)]]
  /\ latest' = IF op = "exec" THEN latest ELSE [latest EXCEPT ![i] = c]
  /\ UNCHANGED <<provider, procVars, nativeVars, worldVars, boxVars, muddled, restarts>>

\* the process of call c starts, in the place h
Start(c, h) ==
  /\ proc' = [proc EXCEPT ![c] = "live"]
  /\ home' = [home EXCEPT ![c] = h]
  /\ agent' = IF IsOpen(c) THEN [agent EXCEPT ![In(c)] = c] ELSE agent

\* the processes of the place h are gone with it
Gone(h) == proc' = [p \in Calls |-> IF home[p] = h THEN "gone" ELSE proc[p]]

Signal(ps) == proc' = [p \in Calls |-> IF p \in ps /\ proc[p] = "live" THEN "signalled" ELSE proc[p]]

-----------------------------------------------------------------------------
(* host_process and bwrap                                                   *)

nativeRest == <<provider, worldVars, boxVars, latest, restarts>>

NativeEnsure(c) ==
  /\ At(c, "ensure") /\ provider \in Native
  /\ Goto(c, "done")
  /\ held' = IF held[In(c)] = "absent" THEN [held EXCEPT ![In(c)] = "noAgent"] ELSE held
  /\ UNCHANGED <<nativeRest, procVars, file, read, muddled>>

NativeReuse(c) ==
  /\ At(c, "mkdir")
  /\ held[In(c)] \in Calls
  /\ Goto(c, "done")
  /\ UNCHANGED <<nativeRest, procVars, nativeVars, muddled>>

\* bwrap writes the passwd and group files of the sandbox and looks up its mounts first
PrepareUserView(c) ==
  /\ At(c, "mkdir") /\ provider = "bwrap"
  /\ held[In(c)] \notin Calls
  /\ Goto(c, "spawn")
  /\ UNCHANGED <<nativeRest, procVars, nativeVars, muddled>>

Spawning(c) ==
  \/ At(c, "mkdir") /\ provider = "host" /\ held[In(c)] \notin Calls
  \/ At(c, "spawn")

HostSpawn(c) ==
  /\ Spawning(c)
  /\ Start(c, NoCall)
  /\ held' = [held EXCEPT ![In(c)] = c]
  /\ Goto(c, "upsert")
  /\ UNCHANGED <<nativeRest, file, read, muddled>>

\* a command that cannot be run has no pid: its error event finds the listener in place
SpawnFails(c) ==
  /\ Spawning(c)
  /\ proc' = [proc EXCEPT ![c] = "gone"]
  /\ held' = [held EXCEPT ![In(c)] = "noAgent"]
  /\ Goto(c, "done")
  /\ UNCHANGED <<nativeRest, home, agent, file, read, muddled>>

\* a write truncates the file first; cut off, it reads as empty
NoEntries == [i \in Insts |-> NoCall]
Truncated(c) == call[c].at \in {"upsertWrite", "dropWrite"}

\* what is read while another call writes may lack every entry
ReadRegistry(c) ==
  /\ \/ At(c, "lookup") /\ Goto(c, "kill")
     \/ At(c, "upsert") /\ Goto(c, "upsertOpen")
     \/ At(c, "drop") /\ Goto(c, "dropOpen")
  /\ read' = [read EXCEPT ![c] = file]
  /\ muddled' = (muddled \/ \E d \in Calls : Truncated(d))
  /\ UNCHANGED <<nativeRest, procVars, held, file>>

\* to overwrite what has not been read loses an entry
OpenRegistry(c) ==
  /\ \/ At(c, "upsertOpen") /\ Goto(c, "upsertWrite")
     \/ At(c, "dropOpen") /\ Goto(c, "dropWrite")
  /\ file' = NoEntries
  /\ muddled' = (muddled \/ read[c] # file \/ \E d \in Calls : Truncated(d))
  /\ UNCHANGED <<nativeRest, procVars, held, read>>

\* over the longer text another call wrote meanwhile it leaves a text that cannot be parsed;
\* after the write of an open the exit is listened for
WriteRegistry(c) ==
  /\ Truncated(c)
  /\ \/ file' = [read[c] EXCEPT ![In(c)] = IF At(c, "upsertWrite") THEN c ELSE NoCall]
     \/ file # NoEntries /\ file' = NoEntries
  /\ Goto(c, "done")
  /\ UNCHANGED <<nativeRest, procVars, held, read, muddled>>

Agents(i) == {held[i]} \cap Calls

NativeStop(c) ==
  /\ At(c, "stop") /\ provider \in Native
  /\ Signal(Agents(In(c)))
  /\ held' = IF held[In(c)] = "absent" THEN held ELSE [held EXCEPT ![In(c)] = "noAgent"]
  /\ Goto(c, "done")
  /\ UNCHANGED <<nativeRest, home, agent, file, read, muddled>>

\* mutant: only the process of this proxy is killed
NativeRemoveMut(c) ==
  /\ At(c, "kill")
  /\ Signal(Agents(In(c)))
  /\ held' = [held EXCEPT ![In(c)] = "absent"]
  /\ Goto(c, "drop")
  /\ UNCHANGED <<nativeRest, home, agent, file, read, muddled>>
NativeRemove(c) ==
  /\ At(c, "kill")
  /\ Signal(Agents(In(c)) \cup {read[c][In(c)]})
  /\ held' = [held EXCEPT ![In(c)] = "absent"]
  /\ Goto(c, "drop")
  /\ UNCHANGED <<nativeRest, home, agent, file, read, muddled>>

NativeExec(c) ==
  /\ At(c, "exec") /\ provider \in Native
  /\ IF held[In(c)] = "absent"
     THEN Goto(c, "failed") /\ UNCHANGED procVars
     ELSE Goto(c, "done") /\ Start(c, NoCall)
  /\ UNCHANGED <<nativeRest, nativeVars, muddled>>

\* the agent's handle is closed: a signal, and the map still has the process
CloseHandle(p) ==
  /\ provider \in Native /\ proc[p] = "live" /\ Over(p)
  /\ Signal({p})
  /\ UNCHANGED <<nativeRest, call, home, agent, nativeVars, muddled>>

\* openAgent listens for the exit only once it has written the registry
NativeExit(p) ==
  /\ provider \in Native /\ proc[p] \in {"live", "signalled"}
  /\ proc' = [proc EXCEPT ![p] = "gone"]
  /\ held' = IF held[In(p)] = p /\ At(p, "done") THEN [held EXCEPT ![In(p)] = "noAgent"] ELSE held
  /\ UNCHANGED <<nativeRest, call, home, agent, file, read, muddled>>

\* the calls and the map are lost; bwrap dies with its parent, a host process does not; the
\* registry stays as it is, in the middle of a write cut off
ProxyRestarts ==
  /\ provider \in Native /\ restarts < MaxRestarts
  /\ restarts' = restarts + 1
  /\ call' = [c \in Calls |-> IF Over(c) THEN call[c] ELSE [call[c] EXCEPT !.at = "failed"]]
  /\ held' = [i \in Insts |-> "absent"]
  /\ proc' = IF provider = "bwrap"
             THEN [p \in Calls |-> IF proc[p] = "none" THEN "none" ELSE "gone"] ELSE proc
  /\ muddled' = (muddled \/ \E c \in Calls : Truncated(c) \/ call[c].at \in {"upsert", "upsertOpen"})
  /\ UNCHANGED <<provider, home, agent, file, read, worldVars, boxVars, latest>>

-----------------------------------------------------------------------------
(* BoxLite                                                                  *)

boxRest == <<provider, nativeVars, latest, restarts>>

IsShared == provider = "shared"
BoxName(i) == IF provider \in {"common", "shared"} THEN "boxName" ELSE i
Running(i) == box # NoCall /\ (IsShared \/ meta = i)
AfterEnsure(c) == IF call[c].op = "ensure" THEN "done" ELSE "boot"

BoxInspect(c) ==
  /\ At(c, "inspect")
  /\ Goto(c, IF Running(In(c)) THEN "boot" ELSE "box")
  /\ UNCHANGED <<boxRest, procVars, worldVars, boxVars, muddled>>

BoxEnsure(c) ==
  /\ At(c, "ensure") /\ provider \in Boxlite
  /\ Goto(c, IF IsShared /\ box # NoCall THEN "done" ELSE "box")
  /\ UNCHANGED <<boxRest, procVars, worldVars, boxVars, muddled>>

Ensuring(c) == call[c].at \in {"halt", "make", "create"}

\* after the look at the platform: another instance's box has to stop, a shared one is good;
\* two calls past this point do not know of each other, nor of a stop of the box whose name
\* the new one is to bear
EnsureBox(c) ==
  /\ At(c, "box")
  /\ IF box = NoCall
     THEN Goto(c, "make") /\ UNCHANGED victim
     ELSE IF IsShared THEN Goto(c, AfterEnsure(c)) /\ UNCHANGED victim
     ELSE Goto(c, "halt") /\ victim' = [victim EXCEPT ![c] = box]
  /\ muddled' = (muddled \/ \E d \in Calls : Ensuring(d) \/ (provider = "common" /\ At(d, "stopping")))
  /\ UNCHANGED <<boxRest, procVars, worldVars, box, meta, booted>>

Halted(b) ==
  /\ Gone(b)
  /\ place' = [place EXCEPT ![b] = "gone"]
  /\ named' = [n \in DOMAIN named |-> IF named[n] = b THEN NoCall ELSE named[n]]

\* the box stopped, or not, which is only logged
HaltPrevious(c) ==
  /\ At(c, "halt")
  /\ box' = NoCall
  /\ \/ Halted(victim[c]) /\ UNCHANGED muddled
     \/ UNCHANGED <<proc, worldVars>> /\ muddled' = TRUE
  /\ Goto(c, "make")
  /\ UNCHANGED <<boxRest, home, agent, meta, victim, booted>>

Adopt(c, b) == box' = b /\ meta' = In(c) /\ Goto(c, AfterEnsure(c))
Made(c) == place' = [place EXCEPT ![c] = "running"]

SimpleBox(c) ==
  /\ At(c, "make") /\ provider = "simple"
  /\ Made(c) /\ Adopt(c, c)
  /\ UNCHANGED <<boxRest, procVars, named, victim, booted, muddled>>

\* the runtime is asked for a box of this name
GetBox(c) ==
  /\ At(c, "make") /\ provider # "simple"
  /\ IF named[BoxName(In(c))] # NoCall
     THEN Adopt(c, named[BoxName(In(c))])
     ELSE Goto(c, "create") /\ UNCHANGED <<box, meta>>
  /\ UNCHANGED <<boxRest, procVars, worldVars, victim, booted, muddled>>

CreateBox(c) ==
  /\ At(c, "create")
  /\ IF named[BoxName(In(c))] # NoCall
     THEN Goto(c, "failed") /\ UNCHANGED <<worldVars, box, meta>>
     ELSE Made(c) /\ named' = [named EXCEPT ![BoxName(In(c))] = c] /\ Adopt(c, c)
  /\ UNCHANGED <<boxRest, procVars, victim, booted, muddled>>

BootstrapKey(i) == IF IsShared THEN "boxName" ELSE i
BootedAlready(c) ==
  /\ At(c, "boot") /\ BootstrapKey(In(c)) \in booted
  /\ Goto(c, "exec")
  /\ UNCHANGED <<boxRest, procVars, worldVars, boxVars, muddled>>

\* runCommand: the command needs a box of this instance; it may exit with 0 or not, or time out
Commanded(c) == IF Running(In(c)) THEN {"zero", "nonzero", "thrown"} ELSE {"thrown"}

Bootstrapping(c, result, next) ==
  /\ Goto(c, next)
  /\ booted' = IF result = "zero" THEN booted \cup {BootstrapKey(In(c))} ELSE booted
  /\ UNCHANGED <<boxRest, procVars, worldVars, box, meta, victim, muddled>>

CheckBootstrap(c) ==
  /\ At(c, "boot") /\ BootstrapKey(In(c)) \notin booted
  /\ \E result \in Commanded(c) :
       Bootstrapping(c, result, [zero |-> "exec", nonzero |-> "install", thrown |-> "failed"][result])

InstallBootstrap(c) ==
  /\ At(c, "install")
  /\ \E result \in Commanded(c) : Bootstrapping(c, result, IF result = "zero" THEN "exec" ELSE "failed")

\* mutant: whose box it is is not looked at
BoxExecMut(c) ==
  /\ At(c, "exec") /\ provider \in Boxlite
  /\ IF box # NoCall
     THEN Goto(c, "done") /\ IF place[box] = "running" THEN Start(c, box) ELSE UNCHANGED procVars
     ELSE Goto(c, "failed") /\ UNCHANGED procVars
  /\ UNCHANGED <<boxRest, worldVars, boxVars, muddled>>
BoxExec(c) ==
  /\ At(c, "exec") /\ provider \in Boxlite
  /\ IF Running(In(c))
     THEN Goto(c, "done") /\ IF place[box] = "running" THEN Start(c, box) ELSE UNCHANGED procVars
     ELSE Goto(c, "failed") /\ UNCHANGED procVars
  /\ UNCHANGED <<boxRest, worldVars, boxVars, muddled>>

\* stopInstance and removeInstance leave a shared box, and a box of another instance, alone
BoxStop(c) ==
  /\ At(c, "stop") /\ provider \in Boxlite
  /\ IF IsShared \/ meta # In(c)
     THEN Goto(c, "done") /\ UNCHANGED boxVars
     ELSE /\ box' = NoCall /\ meta' = "none" /\ victim' = [victim EXCEPT ![c] = box]
          /\ Goto(c, IF box = NoCall THEN "done" ELSE "stopping")
          /\ UNCHANGED booted
  /\ UNCHANGED <<boxRest, procVars, worldVars, muddled>>

StopBox(c) ==
  /\ At(c, "stopping")
  /\ \/ Halted(victim[c]) /\ UNCHANGED muddled
     \/ UNCHANGED <<proc, worldVars>> /\ muddled' = TRUE
  /\ Goto(c, "done")
  /\ UNCHANGED <<boxRest, home, agent, boxVars>>

\* the kill of a handle goes through the box, by the pid file of the process
BoxKill(p) ==
  /\ provider \in Boxlite /\ proc[p] = "live"
  /\ proc' = [proc EXCEPT ![p] = "gone"]
  /\ UNCHANGED <<boxRest, call, home, agent, worldVars, boxVars, muddled>>

-----------------------------------------------------------------------------
(* Containers                                                               *)

dockerRest == <<provider, nativeVars, boxVars, latest, restarts, muddled>>

Status(i) == IF named[i] = NoCall THEN "missing" ELSE place[named[i]]

Docker(c, at, next) == At(c, at) /\ Goto(c, next)

\* docker inspect, and what openAgent makes of it: a script to run first needs a new container
Inspect(c) ==
  /\ Docker(c, "look",
            IF Status(In(c)) = "missing" THEN "run"
            ELSE IF call[c].op = "openInit" THEN "rmFirst"
            ELSE IF Status(In(c)) = "stopped" THEN "startAttach" ELSE "attach")
  /\ UNCHANGED <<dockerRest, procVars, worldVars>>

\* docker rm -f
Rm(c, next) ==
  /\ Goto(c, next)
  /\ IF named[In(c)] = NoCall THEN UNCHANGED <<proc, worldVars>> ELSE Halted(named[In(c)])
  /\ UNCHANGED <<dockerRest, home, agent>>
RmFails(c, next) == Goto(c, next) /\ UNCHANGED <<dockerRest, procVars, worldVars>>

RemoveBeforeInit(c) == At(c, "rmFirst") /\ (Rm(c, "run") \/ RmFails(c, "run"))
RemoveContainer(c) == At(c, "rm") /\ (Rm(c, "done") \/ RmFails(c, "failed"))

DockerRun(c) == Made(c) /\ named' = [named EXCEPT ![In(c)] = c]

\* docker run, with the agent as the container's main process; the name must be free
RunAgent(c) ==
  /\ At(c, "run")
  /\ IF named[In(c)] # NoCall
     THEN Goto(c, "failed") /\ UNCHANGED <<procVars, worldVars>>
     ELSE DockerRun(c) /\ Start(c, c) /\ Goto(c, "done")
  /\ UNCHANGED dockerRest

\* docker start -a -i, and docker attach, of whatever bears the name by now
Attach(c) ==
  /\ call[c].at \in {"startAttach", "attach"}
  /\ LET h == named[In(c)] IN
     IF h = NoCall \/ (At(c, "attach") /\ place[h] # "running")
     THEN Goto(c, "failed") /\ UNCHANGED <<procVars, worldVars>>
     ELSE /\ place' = [place EXCEPT ![h] = "running"]
          /\ Start(c, h) /\ Goto(c, "done") /\ UNCHANGED named
  /\ UNCHANGED dockerRest

\* ensureInstanceRunning: a container that only sleeps is made if there is none
LookEnsure(c) ==
  /\ Docker(c, "lookEnsure",
            CASE Status(In(c)) = "missing" -> "runSleep"
              [] Status(In(c)) = "stopped" -> "start"
              [] OTHER -> "done")
  /\ UNCHANGED <<dockerRest, procVars, worldVars>>

RunSleep(c) ==
  /\ At(c, "runSleep")
  /\ IF named[In(c)] # NoCall
     THEN Goto(c, "failed") /\ UNCHANGED worldVars
     ELSE DockerRun(c) /\ Goto(c, "done")
  /\ UNCHANGED <<dockerRest, procVars>>

DockerStart(c) ==
  /\ At(c, "start")
  /\ IF named[In(c)] = NoCall
     THEN Goto(c, "failed") /\ UNCHANGED place
     ELSE Goto(c, "done") /\ place' = [place EXCEPT ![named[In(c)]] = "running"]
  /\ UNCHANGED <<dockerRest, procVars, named>>

\* docker exec
DockerExec(c) ==
  /\ At(c, "dockerExec")
  /\ IF Status(In(c)) = "running"
     THEN Goto(c, "done") /\ Start(c, named[In(c)])
     ELSE Goto(c, "failed") /\ UNCHANGED procVars
  /\ UNCHANGED <<dockerRest, worldVars>>

StopsContainer(h) ==
  /\ place' = [place EXCEPT ![h] = "stopped"]
  /\ Gone(h)
  /\ UNCHANGED <<named, home, agent>>

DockerStop(c) ==
  /\ At(c, "dockerStop")
  /\ IF named[In(c)] = NoCall
     THEN UNCHANGED <<worldVars, procVars>>
     ELSE StopsContainer(named[In(c)])
  /\ Goto(c, "done")
  /\ UNCHANGED dockerRest

\* a main process ends by itself, or by the close of a handle on it, and its container with it
ContainerExits(i) ==
  /\ provider = "container" /\ Status(i) = "running"
  /\ StopsContainer(named[i])
  /\ UNCHANGED <<dockerRest, call>>

\* the close of a process executed beside it kills that process
ExecKill(p) ==
  /\ provider = "container" /\ call[p].op = "exec" /\ proc[p] = "live"
  /\ proc' = [proc EXCEPT ![p] = "gone"]
  /\ UNCHANGED <<dockerRest, call, home, agent, worldVars>>

-----------------------------------------------------------------------------
BackendNext ==
  \/ \E c \in Calls :
       \/ \E op \in {"open", "openInit", "ensure", "exec", "stop", "remove"}, i \in Insts : Begin(c, op, i)
       \/ NativeEnsure(c) \/ NativeReuse(c) \/ PrepareUserView(c) \/ HostSpawn(c) \/ SpawnFails(c)
       \/ ReadRegistry(c) \/ OpenRegistry(c) \/ WriteRegistry(c) \/ NativeStop(c) \/ NativeRemove(c)
       \/ NativeExec(c) \/ CloseHandle(c) \/ NativeExit(c)
       \/ BoxInspect(c) \/ BoxEnsure(c) \/ EnsureBox(c) \/ HaltPrevious(c) \/ SimpleBox(c)
       \/ GetBox(c) \/ CreateBox(c) \/ BootedAlready(c) \/ CheckBootstrap(c)
       \/ InstallBootstrap(c) \/ BoxExec(c) \/ BoxKill(c) \/ BoxStop(c) \/ StopBox(c)
       \/ Inspect(c) \/ RemoveBeforeInit(c) \/ RemoveContainer(c) \/ RunAgent(c) \/ Attach(c)
       \/ LookEnsure(c) \/ RunSleep(c) \/ DockerStart(c) \/ DockerExec(c) \/ DockerStop(c)
       \/ ExecKill(c)
  \/ \E i \in Insts : ContainerExits(i)
  \/ ProxyRestarts

BackendSpec == BackendInit /\ [][BackendNext]_backendVars

-----------------------------------------------------------------------------
\* A process runs where it was meant to: in BoxLite in a box of its own instance, although the
\* proxy has one box that other calls stop, replace and adopt between any two awaits of an open
\* (execProcess, boxliteSandbox.ts); where all instances' boxes have one name, that is as long
\* as no stop of a box fails and none makes a box while another box is made or stopped. In a
\* container, an agent with a script to run first has a container made for it, although the
\* removal of the old one may fail (ociCliProxySandbox.ts).
OwnBoxes == provider \in {"simple", "named"} \/ (provider = "common" /\ ~muddled)
RunsInItsOwn ==
  \A p \in Calls : proc[p] = "live" =>
    /\ OwnBoxes => In(home[p]) = In(p)
    /\ call[p].op = "openInit" => home[p] = p

\* Once an instance is removed the agent it had last has been killed. A proxy that was not
\* restarted knows each process it started, whatever calls meet at its registry file; one that
\* was knows it from that file, unless two calls met there or the restart came between a start
\* and the end of its write. In BoxLite, unless two calls made a box at once or a stop failed; a
\* shared box stays.
Tracked == ~muddled \/ (provider \in Native /\ restarts = 0)
RemovedIsGone ==
  \A i \in Insts :
    LET c == latest[i] IN
    c # NoCall /\ call[c].op = "remove" /\ At(c, "done") /\ Tracked /\ ~IsShared /\ agent[i] # NoCall
      => proc[agent[i]] # "live"
=============================================================================
