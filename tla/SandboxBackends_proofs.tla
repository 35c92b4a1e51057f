------------------------ MODULE SandboxBackends_proofs ------------------------
(***************************************************************************)
(* Proofs about SandboxBackends, for any instances, calls, providers and    *)
(* numbers of restarts: a process runs in a box or container of its own     *)
(* instance, and what is removed has no agent left.                         *)
(*                                                                         *)
(* One invariant for the three kinds of sandbox: a call is at a place of    *)
(* its method and provider, the calls of an instance but exec wait for each *)
(* other, and each kind has its way to find a live agent again -- the       *)
(* registry or the text a call is about to write there, the one box or a    *)
(* stop of it under way, the container's name.                              *)
(***************************************************************************)
EXTENDS SandboxBackends, TLAPS

Ops == {"open", "openInit", "ensure", "exec", "stop", "remove"}
Places == {"idle", "done", "failed", "mkdir", "spawn", "upsert", "upsertOpen", "upsertWrite", "lookup",
           "kill", "drop", "dropOpen", "dropWrite", "ensure", "exec", "stop", "inspect", "box", "halt", "make", "create", "boot",
           "install", "stopping", "look", "rmFirst", "run", "startAttach", "attach", "lookEnsure",
           "runSleep", "start", "dockerExec", "dockerStop", "rm"}
CallRows == [op : Ops \cup {"none"}, inst : Insts \cup {"none"}, at : Places]
CallOrNone == Calls \cup {NoCall}

CallTypes == provider \in Providers /\ call \in [Calls -> CallRows] /\ latest \in [Insts -> CallOrNone]
ProcTypes == /\ proc \in [Calls -> {"none", "live", "signalled", "gone"}]
             /\ home \in [Calls -> CallOrNone] /\ agent \in [Insts -> CallOrNone]
FileTypes == /\ file \in [Insts -> CallOrNone] /\ read \in [Calls -> [Insts -> CallOrNone]]
             /\ muddled \in BOOLEAN /\ restarts \in Nat
BoxTypes == /\ named \in [Insts \cup {"boxName"} -> CallOrNone] /\ box \in CallOrNone
            /\ victim \in [Calls -> CallOrNone]

\* Where a call may be, by its method and the provider.
NativePlace(op, at) ==
  \/ op = "open" /\ at \in {"mkdir", "spawn", "upsert", "upsertOpen", "upsertWrite"}
  \/ op = "remove" /\ at \in {"lookup", "kill", "drop", "dropOpen", "dropWrite"}
  \/ op \in {"ensure", "exec", "stop"} /\ at = op
EnsurePlaces == {"box", "halt", "make", "create"}
BoxPlace(op, at) ==
  \/ op = "open" /\ at \in {"inspect", "boot", "install", "exec"} \cup EnsurePlaces
  \/ op = "ensure" /\ at \in {"ensure"} \cup EnsurePlaces
  \/ op = "exec" /\ at = "exec"
  \/ op \in {"stop", "remove"} /\ at \in {"stop", "stopping"}
ContainerPlace(op, at) ==
  \/ op = "open" /\ at \in {"look", "run", "startAttach", "attach"}
  \/ op = "openInit" /\ at \in {"look", "rmFirst", "run"}
  \/ op = "ensure" /\ at \in {"lookEnsure", "runSleep", "start"}
  \/ op = "exec" /\ at = "dockerExec"
  \/ op = "stop" /\ at = "dockerStop"
  \/ op = "remove" /\ at = "rm"

WorkPlace(kind, op, at) ==
  \/ kind \in Native /\ NativePlace(op, at)
  \/ kind \in Boxlite /\ BoxPlace(op, at)
  \/ kind = "container" /\ ContainerPlace(op, at)

Placed(c) ==
  \/ call[c] = Nobody
  \/ /\ call[c].op \in Ops /\ In(c) \in Insts
     /\ call[c].op = "openInit" => provider = "container"
     /\ call[c].at \in {"done", "failed"} \/ WorkPlace(provider, call[c].op, call[c].at)
AllPlaced == \A c \in Calls : Placed(c)

Idle(c) == At(c, "idle")

\* The calls of an instance wait for each other, and its agent is of a call that opened it.
Serial ==
  /\ \A c \in Calls : Idle(c) => proc[c] # "live"
  /\ \A c \in Calls : call[c].op # "exec" /\ ~Over(c) => latest[In(c)] = c
  /\ \A i \in Insts : latest[i] \in Calls => ~Idle(latest[i]) /\ In(latest[i]) = i
  /\ \A i \in Insts : agent[i] \in Calls => In(agent[i]) = i /\ IsOpen(agent[i])

Alive(i) == agent[i] \in Calls /\ proc[agent[i]] = "live"

\* A live agent is in the registry, or in what a call is about to write there, or its open is
\* on the way to write it there.
Recording == {"upsert", "upsertOpen", "upsertWrite"}
Dropping == {"drop", "dropOpen", "dropWrite"}
Known(i) ==
  \/ call[agent[i]].at \in Recording
  \/ file[i] = agent[i]
  \/ \E c \in Calls : Truncated(c) /\ read[c][i] = agent[i]
OneWrites ==
  /\ \A c, d \in Calls : Truncated(c) /\ Truncated(d) => c = d
  /\ \A c \in Calls : Truncated(c) => file = NoEntries
NativeKept ==
  /\ OneWrites
  /\ \A i \in Insts : Alive(i) => Known(i)
  /\ \A c \in Calls, i \in Insts : In(c) = i =>
       /\ call[c].at \in Recording => agent[i] = c
       /\ At(c, "kill") /\ Alive(i) => read[c][i] = agent[i]
       /\ call[c].at \in Dropping => ~Alive(i)
NativeInv == provider \in Native /\ ~muddled => NativeKept

\* A proxy that has not been restarted has every live agent in its map.
Agentless == Dropping \cup {"spawn"}
Mapped ==
  /\ \A i \in Insts : Alive(i) => held[i] = agent[i]
  /\ \A c \in Calls, i \in Insts : In(c) = i /\ call[c].at \in Agentless => ~Alive(i)
HeldMaps == [Insts -> Calls \cup {"absent", "noAgent"}]
MapInv == provider \in Native /\ restarts = 0 => held \in HeldMaps /\ Mapped

\* A box is of the instance it was made for, and so is what runs in it.
OwnBox ==
  /\ box \in Calls => In(box) = meta /\ ~Idle(box)
  /\ provider # "common" =>
       \A i \in Insts : named[i] \in Calls => In(named[i]) = i /\ ~Idle(named[i])
  /\ \A p \in Calls : proc[p] = "live" =>
       home[p] \in Calls /\ In(home[p]) = In(p) /\ ~Idle(home[p])
  /\ \A d \in Calls : At(d, "stopping") /\ box \in Calls => In(box) # In(d)

\* One call at a time makes a box, and while it does there is none; a process is in the box
\* there is, or in one that its own instance is stopping.
OneBox ==
  /\ \A d, e \in Calls : Ensuring(d) /\ Ensuring(e) => d = e
  /\ \A d \in Calls : /\ call[d].at \in {"make", "create"} => box = NoCall
                      /\ At(d, "halt") => box \in {victim[d], NoCall}
  /\ \A p \in Calls : proc[p] = "live" =>
       \/ home[p] = box
       \/ \E d \in Calls : At(d, "stopping") /\ victim[d] = home[p] /\ In(d) = In(p)

\* The name all instances share is that of the box there is, or of one that is being stopped;
\* it is free while a box is made.
OneName ==
  /\ named["boxName"] \in Calls =>
       \/ box = named["boxName"]
       \/ \E d \in Calls : At(d, "stopping") /\ victim[d] = named["boxName"]
  /\ \A d \in Calls :
       /\ call[d].at \in {"make", "create"} => named["boxName"] = NoCall
       /\ At(d, "halt") => named["boxName"] \in {NoCall, victim[d]}

BoxInv ==
  /\ OwnBoxes => OwnBox
  /\ provider \in Boxlite \ {"shared"} /\ ~muddled => OneBox
  /\ provider = "common" /\ ~muddled => OneName

\* A process is in the container that bears the name of its instance.
Contained(p) ==
  /\ home[p] \in Calls /\ named[In(p)] = home[p]
  /\ call[p].op = "openInit" => home[p] = p
ContainerInv == provider = "container" => \A p \in Calls : proc[p] = "live" => Contained(p)

BackendInv ==
  /\ CallTypes /\ ProcTypes /\ FileTypes /\ BoxTypes
  /\ AllPlaced /\ Serial
  /\ NativeInv /\ MapInv /\ BoxInv /\ ContainerInv
  /\ RemovedIsGone

-----------------------------------------------------------------------------
(* What the parts of a step do.                                              *)

LEMMA Kinds ==
  ASSUME CallTypes
  PROVE  /\ provider \in Native \cup Boxlite \cup {"container"}
         /\ provider \in Native => provider \notin Boxlite \cup {"container"}
         /\ provider \in Boxlite => provider \notin Native \cup {"container"}
         /\ provider = "container" => provider \notin Native \cup Boxlite
         /\ NoCall \notin Calls
         /\ provider \in Boxlite <=> OwnBoxes \/ provider = "common" \/ provider = "shared"
         /\ OwnBoxes => provider # "shared"
BY ProvidersKnown, NoCallIsNone DEF CallTypes, Native, Boxlite, OwnBoxes

\* Call c goes to a place; the others stay.
Moved(c, at) ==
  /\ call' \in [Calls -> CallRows]
  /\ call'[c].op = call[c].op /\ call'[c].inst = call[c].inst /\ call'[c].at = at
  /\ \A d \in Calls \ {c} : call'[d] = call[d]

LEMMA GotoEffect ==
  ASSUME CallTypes, NEW c \in Calls, NEW at \in Places, Goto(c, at)
  PROVE  Moved(c, at)
<1> DEFINE row == [call[c] EXCEPT !.at = at]
<1>1. call \in [Calls -> CallRows] /\ call[c] \in CallRows
  BY DEF CallTypes
<1>2. row \in CallRows /\ row.op = call[c].op /\ row.inst = call[c].inst /\ row.at = at
  BY <1>1 DEF CallRows
<1>3. call' = [call EXCEPT ![c] = row]
  BY DEF Goto
<1> HIDE DEF row
<1>4. QED
  BY <1>1, <1>2, <1>3 DEF Moved

\* Processes only come to an end.
Fewer ==
  /\ proc' \in [Calls -> {"none", "live", "signalled", "gone"}]
  /\ \A p \in Calls : proc'[p] = "live" => proc[p] = "live"

LEMMA SignalEffect ==
  ASSUME ProcTypes, NEW ps, Signal(ps)
  PROVE  Fewer /\ \A p \in Calls : proc'[p] = "live" => p \notin ps
BY DEF Signal, Fewer, ProcTypes

\* The process of call c starts.
Started(c, h) ==
  /\ ProcTypes' /\ proc'[c] = "live" /\ home'[c] = h
  /\ \A p \in Calls \ {c} : proc'[p] = proc[p] /\ home'[p] = home[p]
  /\ IsOpen(c) => agent'[In(c)] = c
  /\ \A i \in Insts : (IsOpen(c) => i # In(c)) => agent'[i] = agent[i]

LEMMA StartEffect ==
  ASSUME ProcTypes, NEW c \in Calls, NEW h \in CallOrNone, In(c) \in Insts, Start(c, h)
  PROVE  Started(c, h)
<1>1. /\ proc' = [proc EXCEPT ![c] = "live"] /\ home' = [home EXCEPT ![c] = h]
      /\ agent' = IF IsOpen(c) THEN [agent EXCEPT ![In(c)] = c] ELSE agent
  BY DEF Start
<1>2. c \in CallOrNone
  BY DEF CallOrNone
<1>3. ProcTypes'
  BY <1>1, <1>2 DEF ProcTypes
<1>4. QED
  BY <1>1, <1>3 DEF ProcTypes, Started

-----------------------------------------------------------------------------
(* What every step of a call, and every end of a process, has in common.     *)

\* A call under way goes on, and what is shared by the kinds of sandbox stays.
Works(c, at) ==
  /\ ~Over(c) /\ Moved(c, at) /\ UNCHANGED <<provider, latest, restarts>>
  /\ at \in {"done", "failed"} \/ WorkPlace(provider, call[c].op, at)
  /\ muddled => muddled'

\* No process starts but that of c, and no agent but that.
OnlyOf(c) ==
  /\ \A i \in Insts : agent'[i] = agent[i] \/ (IsOpen(c) /\ In(c) = i /\ agent'[i] = c)
  /\ \A p \in Calls \ {c} : proc'[p] = "live" => proc[p] = "live"

LEMMA Working ==
  ASSUME BackendInv, NEW c \in Calls, ~Over(c)
  PROVE  /\ In(c) \in Insts /\ call[c].op \in Ops
         /\ call[c].op = "openInit" => provider = "container"
         /\ WorkPlace(provider, call[c].op, call[c].at)
         /\ call[c].op # "exec" => latest[In(c)] = c
BY DEF BackendInv, AllPlaced, Placed, Serial, Over, Nobody, In

\* A working call is at none of the places where nobody works.
LEMMA WorksAt ==
  ASSUME NEW kind, NEW op, NEW at, WorkPlace(kind, op, at)
  PROVE  at \notin {"idle", "done", "failed"}
BY DEF WorkPlace, NativePlace, BoxPlace, ContainerPlace, EnsurePlaces

LEMMA StepShared ==
  ASSUME BackendInv, NEW c \in Calls, NEW at, Works(c, at), OnlyOf(c),
         call[c].op = "remove" /\ at = "done" /\ Tracked' /\ ~IsShared => ~Alive(In(c))'
  PROVE  CallTypes' /\ AllPlaced' /\ Serial' /\ RemovedIsGone'
<1>1. /\ call' \in [Calls -> CallRows] /\ call \in [Calls -> CallRows]
      /\ call'[c].op = call[c].op /\ call'[c].inst = call[c].inst /\ call'[c].at = at
      /\ \A d \in Calls \ {c} : call'[d] = call[d]
      /\ provider' = provider /\ latest' = latest /\ (Tracked' => Tracked)
  BY DEF Works, Moved, BackendInv, CallTypes, Tracked
<1>2. CallTypes'
  BY <1>1 DEF BackendInv, CallTypes
<1>3. /\ In(c) \in Insts /\ call[c].op \in Ops /\ (call[c].op = "openInit" => provider = "container")
      /\ call[c].op # "exec" => latest[In(c)] = c
  BY Working DEF Works
<1>4. at # "idle"
  BY WorksAt DEF Works
<1>5. Placed(c)'
  <2>1. at \in {"done", "failed"} \/ WorkPlace(provider, call[c].op, at)
    BY DEF Works
  <2>2. WorkPlace(provider, call[c].op, at) => WorkPlace(provider, call[c].op, call[c].at)'
    BY <1>1 DEF WorkPlace
  <2>3. QED
    BY <1>1, <1>3, <2>1, <2>2 DEF Placed, In
<1>6. AllPlaced'
  <2> SUFFICES ASSUME NEW d \in Calls, d # c
               PROVE  Placed(d)'
    BY <1>5 DEF AllPlaced
  <2>1. Placed(d) /\ call'[d] = call[d]
    BY <1>1 DEF BackendInv, AllPlaced
  <2>2. WorkPlace(provider, call[d].op, call[d].at) => WorkPlace(provider, call[d].op, call[d].at)'
    BY <1>1, <2>1
  <2>3. QED
    BY <1>1, <2>1, <2>2 DEF Placed, In
<1>7. Serial'
  <2>1. \A d \in Calls : Idle(d)' => proc'[d] # "live"
    BY <1>1, <1>4 DEF BackendInv, Serial, Idle, At, OnlyOf
  <2>2. \A d \in Calls : call'[d].op # "exec" /\ ~Over(d)' => latest'[In(d)'] = d
    BY <1>1, <1>3 DEF BackendInv, Serial, Over, In
  <2>3. \A i \in Insts : latest'[i] \in Calls => ~Idle(latest[i])' /\ In(latest[i])' = i
    BY <1>1, <1>4 DEF BackendInv, Serial, Idle, At, In
  <2>4. \A i \in Insts : agent'[i] \in Calls => call'[agent'[i]].inst = i /\ call'[agent'[i]].op \in {"open", "openInit"}
    BY <1>1 DEF BackendInv, Serial, IsOpen, In, OnlyOf
  <2>5. QED
    BY <1>1, <2>1, <2>2, <2>3, <2>4 DEF Serial, In, IsOpen
<1>8. RemovedIsGone'
  <2> SUFFICES ASSUME NEW i \in Insts, latest[i] # NoCall, call'[latest[i]].op = "remove",
                      call'[latest[i]].at = "done", Tracked', ~IsShared, agent'[i] # NoCall
               PROVE  proc'[agent'[i]] # "live"
    BY <1>1 DEF RemovedIsGone, At, IsShared
  <2>1. latest[i] \in Calls /\ In(latest[i]) = i
    BY DEF BackendInv, CallTypes, CallOrNone, Serial
  <2>2. CASE latest[i] = c
    BY <1>1, <2>1, <2>2 DEF Alive, In, BackendInv, ProcTypes, CallOrNone, OnlyOf
  <2>3. CASE latest[i] # c
    <3>1. call[latest[i]].op = "remove" /\ call[latest[i]].at = "done" /\ Tracked
      BY <1>1, <2>1, <2>3
    <3>2. In(c) = i => call[c].op = "exec"
      BY <1>3, <2>3
    <3>3. agent'[i] = agent[i] /\ agent[i] # c
      BY <3>2, <2>1 DEF OnlyOf, IsOpen, BackendInv, Serial
    <3>4. agent[i] \in Calls /\ proc[agent[i]] # "live"
      BY <3>1, <3>3 DEF BackendInv, RemovedIsGone, At, ProcTypes, CallOrNone
    <3>5. QED
      BY <3>3, <3>4 DEF OnlyOf
  <2>4. QED
    BY <2>2, <2>3
<1>9. QED
  BY <1>2, <1>6, <1>7, <1>8

\* Each kind of sandbox has its part of the invariant to keep, and only that.
LEMMA StepKeeps ==
  ASSUME BackendInv, NEW c \in Calls, NEW at, Works(c, at), OnlyOf(c),
         ProcTypes', FileTypes', BoxTypes',
         call[c].op = "remove" /\ at = "done" /\ Tracked' /\ ~IsShared => ~Alive(In(c))',
         provider \in Native => NativeInv' /\ MapInv',
         provider \in Boxlite => BoxInv',
         provider = "container" => ContainerInv'
  PROVE  BackendInv'
<1>1. CallTypes' /\ AllPlaced' /\ Serial' /\ RemovedIsGone'
  BY StepShared
<1>2. provider' = provider
  BY DEF Works
<1>3. NativeInv' /\ MapInv' /\ BoxInv' /\ ContainerInv'
  <2>1. provider \notin Native => NativeInv' /\ MapInv'
    BY <1>2 DEF NativeInv, MapInv
  <2>2. provider \notin Boxlite => BoxInv'
    BY <1>2 DEF BoxInv, OwnBoxes, Boxlite
  <2>3. provider # "container" => ContainerInv'
    BY <1>2 DEF ContainerInv
  <2>4. QED
    BY <2>1, <2>2, <2>3
<1>4. QED
  BY <1>1, <1>3 DEF BackendInv

\* A process ends, or is told to.
LEMMA EndKeeps ==
  ASSUME BackendInv, Fewer, MapInv',
         UNCHANGED <<provider, call, latest, home, agent, muddled, file, read, named, box, meta, victim,
                     restarts>>
  PROVE  BackendInv'
<1>1. CallTypes' /\ ProcTypes' /\ FileTypes' /\ BoxTypes' /\ AllPlaced'
  BY DEF BackendInv, CallTypes, ProcTypes, FileTypes, BoxTypes, AllPlaced, Placed, In, Fewer
<1>2. Serial'
  BY DEF BackendInv, Serial, Idle, Over, At, In, IsOpen, Fewer
<1>3. \A i \in Insts : Alive(i)' => Alive(i)
  BY DEF Alive, Fewer
<1>4. NativeInv'
  <2> SUFFICES ASSUME provider \in Native, ~muddled
               PROVE  NativeKept'
    BY DEF NativeInv
  <2>1. NativeKept
    BY DEF BackendInv, NativeInv
  <2>2. /\ OneWrites' /\ \A i \in Insts : Known(i)' <=> Known(i)
    BY <2>1 DEF NativeKept, OneWrites, Known, Truncated, NoEntries
  <2>3. QED
    BY <1>3, <2>1, <2>2 DEF NativeKept, In, At
<1>5. BoxInv'
  <2>1. OwnBox => OwnBox'
    BY DEF OwnBox, Idle, At, In, Fewer
  <2>2. OneBox => OneBox'
    BY DEF OneBox, Ensuring, At, In, Fewer
  <2>3. OneName => OneName'
    BY DEF OneName, At
  <2>4. QED
    BY <2>1, <2>2, <2>3 DEF BackendInv, BoxInv, OwnBoxes
<1>6. ContainerInv'
  BY DEF BackendInv, ContainerInv, Contained, In, Fewer
<1>7. RemovedIsGone'
  <2> SUFFICES ASSUME NEW i \in Insts, latest[i] # NoCall, call[latest[i]].op = "remove",
                      call[latest[i]].at = "done", Tracked, ~IsShared, agent[i] # NoCall
               PROVE  proc'[agent[i]] # "live"
    BY DEF RemovedIsGone, At, IsShared, Tracked
  <2>1. proc[agent[i]] # "live" /\ agent[i] \in Calls
    BY DEF BackendInv, RemovedIsGone, At, ProcTypes, CallOrNone
  <2>2. QED
    BY <2>1 DEF Fewer
<1>8. QED
  BY <1>1, <1>2, <1>4, <1>5, <1>6, <1>7 DEF BackendInv

\* The map is of the native sandboxes alone.
LEMMA NoMap ==
  ASSUME BackendInv, UNCHANGED provider, provider \notin Native
  PROVE  MapInv'
BY DEF MapInv

-----------------------------------------------------------------------------
(* host_process and bwrap.                                                   *)

\* The calls that have to do with an agent work alone for their instance.
LEMMA NativeWorkers ==
  ASSUME BackendInv, provider \in Native, NEW c \in Calls,
         call[c].at \in {"mkdir", "spawn", "lookup", "kill"} \cup Recording \cup Dropping
  PROVE  /\ ~Over(c) /\ In(c) \in Insts /\ latest[In(c)] = c
         /\ call[c].at \in {"mkdir", "spawn"} \cup Recording => call[c].op = "open"
         /\ call[c].at \in {"lookup", "kill"} \cup Dropping => call[c].op = "remove"
<1>1. ~Over(c)
  BY DEF Over, Recording, Dropping
<1>2. In(c) \in Insts /\ WorkPlace(provider, call[c].op, call[c].at)
      /\ (call[c].op # "exec" => latest[In(c)] = c)
  BY <1>1, Working
<1>3. NativePlace(call[c].op, call[c].at)
  BY <1>2, Kinds DEF WorkPlace, BackendInv
<1>4. QED
  BY <1>1, <1>2, <1>3 DEF NativePlace, Recording, Dropping

\* A step that leaves the registry and what others have read of it alone.
LEMMA FileStays ==
  ASSUME BackendInv, NativeKept, NEW c \in Calls, NEW at, Works(c, at),
         call[c].at \notin {"upsertWrite", "dropWrite"}, at \notin {"upsertWrite", "dropWrite"},
         call[c].at \in Recording => at \in Recording,
         UNCHANGED file, \A d \in Calls \ {c} : read'[d] = read[d]
  PROVE  /\ OneWrites'
         /\ \A i \in Insts : agent'[i] = agent[i] /\ agent[i] \in Calls /\ Known(i) => Known(i)'
<1>1. call'[c].at = at /\ \A d \in Calls \ {c} : call'[d] = call[d]
  BY DEF Works, Moved
<1>2. \A d \in Calls : Truncated(d)' => d # c /\ Truncated(d)
  BY <1>1 DEF Truncated
<1>3. \A d \in Calls : Truncated(d) => d # c /\ Truncated(d)'
  BY <1>1 DEF Truncated
<1>4. OneWrites'
  <2>1. NoEntries' = NoEntries
    BY DEF NoEntries
  <2>2. QED
    BY <1>2, <2>1 DEF NativeKept, OneWrites
<1>5. ASSUME NEW i \in Insts, agent'[i] = agent[i], agent[i] \in Calls, Known(i)
      PROVE  Known(i)'
  <2>1. CASE call[agent[i]].at \in Recording
    BY <1>1, <1>5, <2>1 DEF Known
  <2>2. CASE file[i] = agent[i]
    BY <1>5, <2>2 DEF Known
  <2>3. CASE \E d \in Calls : Truncated(d) /\ read[d][i] = agent[i]
    BY <1>3, <1>5, <2>3 DEF Known
  <2>4. QED
    BY <1>5, <2>1, <2>2, <2>3 DEF Known
<1>6. QED
  BY <1>4, <1>5

\* The map keeps what it has of the agents that live on.
MapStays ==
  held \in HeldMaps /\ Mapped => held' \in HeldMaps /\ \A i \in Insts : Alive(i)' => held'[i] = agent[i]

\* A step that leaves the registry and what was read of it alone, and starts no agent.
LEMMA NativeQuiet ==
  ASSUME BackendInv, provider \in Native, NEW c \in Calls, NEW at, Works(c, at),
         call[c].op # "remove", at \in {"done", "failed", "spawn"},
         call[c].at \notin Recording,
         ProcTypes', \A p \in Calls \ {c} : proc'[p] = "live" => proc[p] = "live",
         IsOpen(c) /\ proc'[c] = "live" => proc[c] = "live", MapStays,
         Mapped /\ at = "spawn" => \A i \in Insts : i = In(c) => ~Alive(i),
         UNCHANGED <<agent, file, read, muddled, boxVars, worldVars>>
  PROVE  BackendInv'
<1>1. OnlyOf(c) /\ FileTypes' /\ BoxTypes'
  BY DEF OnlyOf, FileTypes, BoxTypes, BackendInv, boxVars, worldVars, Works
<1>2. \A i \in Insts : Alive(i)' => Alive(i)
  BY DEF Alive, BackendInv, Serial
<1>3. /\ call'[c].at = at /\ \A d \in Calls \ {c} : call'[d] = call[d]
      /\ call'[c].inst = call[c].inst /\ provider' = provider /\ restarts' = restarts
  BY DEF Works, Moved
<1>4. at \notin {"kill", "upsertWrite", "dropWrite"} \cup Recording \cup Dropping
  BY DEF Recording, Dropping
<1>5. call[c].at \notin {"upsertWrite", "dropWrite"}
  <2>1. call[c].at # "upsertWrite"
    BY DEF Recording
  <2>2. call[c].at = "dropWrite" => call[c].op = "remove"
    BY NativeWorkers DEF Dropping
  <2>3. QED
    BY <2>1, <2>2
<1>6. NativeInv'
  <2> SUFFICES ASSUME provider \in Native, ~muddled
               PROVE  NativeKept'
    BY <1>3 DEF NativeInv
  <2>1. NativeKept
    BY DEF BackendInv, NativeInv
  <2>2. OneWrites' /\ \A i \in Insts : Alive(i)' => Known(i)'
    <3>1. /\ OneWrites'
          /\ \A i \in Insts : agent'[i] = agent[i] /\ agent[i] \in Calls /\ Known(i) => Known(i)'
      BY <1>4, <1>5, <2>1, FileStays
    <3>2. QED
      BY <1>2, <2>1, <3>1 DEF NativeKept, Alive
  <2>3. ASSUME NEW d \in Calls, NEW i \in Insts, call'[d].inst = i,
               call'[d].at \in {"kill"} \cup Recording \cup Dropping
        PROVE  /\ call'[d].at \in Recording => agent[i] = d
               /\ call'[d].at = "kill" /\ Alive(i)' => read[d][i] = agent[i]
               /\ call'[d].at \in Dropping => ~Alive(i)'
    <3>1. d # c /\ call'[d] = call[d]
      BY <1>3, <1>4, <2>3
    <3>2. QED
      BY <1>2, <2>1, <2>3, <3>1 DEF NativeKept, In, At
  <2>4. QED
    BY <2>2, <2>3 DEF NativeKept, In, At
<1>7. MapInv'
  <2> SUFFICES ASSUME restarts = 0
               PROVE  held' \in HeldMaps /\ Mapped'
    BY <1>3 DEF MapInv, HeldMaps
  <2>1. held \in HeldMaps /\ Mapped
    BY DEF BackendInv, MapInv
  <2>2. \A i \in Insts : Alive(i)' => held'[i] = agent[i]
    BY <2>1 DEF MapStays
  <2>3. ASSUME NEW d \in Calls, NEW i \in Insts, call'[d].inst = i, call'[d].at \in Agentless
        PROVE  ~Alive(i)'
    <3>1. CASE d = c
      <4>1. at = "spawn" /\ i = In(c)
        BY <1>3, <1>4, <2>3, <3>1 DEF Agentless, In
      <4>2. QED
        BY <1>2, <2>1, <4>1
    <3>2. CASE d # c
      BY <1>2, <1>3, <2>1, <2>3, <3>2 DEF Mapped, In
    <3>3. QED
      BY <3>1, <3>2
  <2>4. QED
    BY <2>1, <2>2, <2>3 DEF MapStays, Mapped, In, At
<1>8. QED
  BY <1>1, <1>6, <1>7, Kinds, StepKeeps DEF BackendInv

\* Most places are those of one kind of sandbox.
LEMMA PlaceOf ==
  ASSUME BackendInv, NEW c \in Calls
  PROVE  /\ call[c].at \in {"mkdir", "spawn", "lookup", "kill"} \cup Recording \cup Dropping
              => provider \in Native
         /\ call[c].at \in {"inspect", "box", "halt", "make", "create", "boot", "install", "stopping"}
              => provider \in Boxlite
         /\ call[c].at \in {"look", "rmFirst", "run", "startAttach", "attach", "lookEnsure", "runSleep",
                            "start", "dockerExec", "dockerStop", "rm"}
              => provider = "container"
BY Working, Kinds DEF Over, WorkPlace, NativePlace, BoxPlace, ContainerPlace, EnsurePlaces, BackendInv,
                      Recording, Dropping

\* A call goes on to its next place.
LEMMA GoesOn ==
  ASSUME BackendInv, NEW c \in Calls, NEW at, ~Over(c), Goto(c, at),
         UNCHANGED <<provider, latest, restarts>>, muddled => muddled',
         at \in {"done", "failed"} \/ WorkPlace(provider, call[c].op, at)
  PROVE  Works(c, at)
<1>1. at \in Places
  BY DEF Places, WorkPlace, NativePlace, BoxPlace, ContainerPlace, EnsurePlaces
<1>2. Moved(c, at)
  BY <1>1, GotoEffect DEF BackendInv
<1>3. QED
  BY <1>2 DEF Works

LEMMA NativeQuietSteps ==
  ASSUME BackendInv, NEW c \in Calls,
         \/ NativeEnsure(c) \/ NativeReuse(c) \/ PrepareUserView(c) \/ SpawnFails(c)
         \/ NativeStop(c) \/ NativeExec(c)
  PROVE  BackendInv'
<1> DEFINE Quiet(at) ==
      /\ Goto(c, at) /\ provider \in Native
      /\ call[c].at \in {"ensure", "mkdir", "spawn", "stop", "exec"}
      /\ at \in {"done", "failed"} \/ (at = "spawn" /\ call[c].at = "mkdir")
      /\ UNCHANGED <<provider, latest, restarts, agent, file, read, muddled, boxVars, worldVars>>
      /\ ProcTypes' /\ \A p \in Calls \ {c} : proc'[p] = "live" => proc[p] = "live"
      /\ call[c].at # "exec" /\ proc'[c] = "live" => proc[c] = "live"
      /\ MapStays /\ (Mapped /\ at = "spawn" => \A i \in Insts : i = In(c) => ~Alive(i))
<1>1. ASSUME NEW at \in {"done", "failed", "spawn"}, Quiet(at)
      PROVE  BackendInv'
  <2>1. ~Over(c)
    BY <1>1 DEF Over
  <2>2. NativePlace(call[c].op, call[c].at)
    BY <1>1, <2>1, Working, Kinds DEF WorkPlace, BackendInv
  <2>3. /\ at \in {"done", "failed"} \/ WorkPlace(provider, call[c].op, at)
        /\ call[c].op # "remove" /\ (call[c].at = "exec" => ~IsOpen(c)) /\ call[c].at \notin Recording
    BY <1>1, <2>2 DEF NativePlace, WorkPlace, IsOpen, Recording
  <2>4. Works(c, at)
    BY <1>1, <2>1, <2>3, GoesOn
  <2>5. QED
    BY <1>1, <2>3, <2>4, NativeQuiet
<1>2. ProcTypes /\ (UNCHANGED procVars => ProcTypes')
  BY DEF BackendInv, ProcTypes, procVars
<1>m. UNCHANGED <<held, agent>> /\ (\A i \in Insts : Alive(i)' => Alive(i)) => MapStays
  BY DEF MapStays, Mapped
<1>u. UNCHANGED procVars => \A i \in Insts : Alive(i)' <=> Alive(i)
  BY DEF procVars, Alive
<1>3. ASSUME NativeEnsure(c) \/ NativeReuse(c)
      PROVE  Quiet("done")
  <2>1. MapStays
    <3>1. UNCHANGED procVars /\ UNCHANGED agent
      BY <1>3 DEF NativeEnsure, NativeReuse, procVars
    <3>2. CASE UNCHANGED held
      BY <1>m, <1>u, <3>1, <3>2
    <3>3. CASE held[In(c)] = "absent" /\ held' = [held EXCEPT ![In(c)] = "noAgent"]
      <4> SUFFICES ASSUME held \in HeldMaps, Mapped
                   PROVE  held' \in HeldMaps /\ \A i \in Insts : Alive(i)' => held'[i] = agent[i]
        BY DEF MapStays
      <4>1. \A i \in Insts : Alive(i) => held[i] = agent[i] /\ held[i] # "absent"
        BY NoCallIsNone DEF Mapped, Alive
      <4>2. held' \in HeldMaps /\ \A i \in Insts : held[i] # "absent" => held'[i] = held[i]
        BY <3>3 DEF HeldMaps
      <4>3. QED
        BY <1>u, <3>1, <4>1, <4>2
    <3>4. QED
      BY <1>3, <3>2, <3>3 DEF NativeEnsure, NativeReuse, nativeVars
  <2>2. QED
    BY <1>2, <1>3, <2>1, PlaceOf DEF NativeEnsure, NativeReuse, nativeRest, nativeVars, procVars, At
<1>4. ASSUME PrepareUserView(c)
      PROVE  Quiet("spawn")
  <2>1. UNCHANGED procVars /\ UNCHANGED <<held, agent>> /\ held[In(c)] \notin Calls
    BY <1>4 DEF PrepareUserView, procVars, nativeVars
  <2>2. MapStays
    BY <1>m, <1>u, <2>1
  <2>3. Mapped => \A i \in Insts : i = In(c) => ~Alive(i)
    BY <2>1 DEF Mapped, Alive
  <2>4. QED
    BY <1>2, <1>4, <2>2, <2>3, PlaceOf DEF PrepareUserView, nativeRest, nativeVars, procVars, At
<1>5. ASSUME SpawnFails(c)
      PROVE  Quiet("done")
  <2>1. ProcTypes' /\ proc'[c] = "gone" /\ \A p \in Calls \ {c} : proc'[p] = proc[p]
    BY <1>2, <1>5 DEF SpawnFails, ProcTypes
  <2>2. MapStays
    <3> SUFFICES ASSUME held \in HeldMaps, Mapped
                 PROVE  held' \in HeldMaps /\ \A i \in Insts : Alive(i)' => held'[i] = agent[i]
      BY DEF MapStays
    <3>1. Mapped /\ (held[In(c)] \notin Calls \/ call[c].at = "spawn")
      BY <1>5 DEF SpawnFails, Spawning, At
    <3>2. \A i \in Insts : i = In(c) => ~Alive(i)
      BY <3>1 DEF Mapped, Alive, Agentless
    <3>3. UNCHANGED agent /\ \A i \in Insts : Alive(i)' => Alive(i)
      BY <1>5, <2>1 DEF SpawnFails, Alive
    <3>4. held' \in HeldMaps /\ \A i \in Insts : i # In(c) => held'[i] = held[i]
      BY <1>5 DEF SpawnFails, HeldMaps
    <3>5. QED
      BY <3>1, <3>2, <3>3, <3>4 DEF Mapped
  <2>3. QED
    BY <2>1, <2>2, <1>5, PlaceOf DEF SpawnFails, Spawning, nativeRest, At
<1>6. ASSUME NativeStop(c)
      PROVE  Quiet("done")
  <2>1. Fewer /\ \A p \in Calls : proc'[p] = "live" => p \notin Agents(In(c))
    BY <1>2, <1>6, SignalEffect DEF NativeStop
  <2>2. MapStays
    BY <1>6, <2>1 DEF NativeStop, MapStays, Mapped, HeldMaps, Alive, Agents, Fewer
  <2>3. QED
    BY <1>2, <2>1, <2>2, <1>6 DEF NativeStop, nativeRest, At, Fewer, ProcTypes
<1>7. ASSUME NativeExec(c)
      PROVE  Quiet("done") \/ Quiet("failed")
  <2>1. /\ call[c].at = "exec" /\ provider \in Native
        /\ UNCHANGED <<provider, latest, restarts, file, read, muddled, boxVars, worldVars>>
        /\ \/ Goto(c, "failed") /\ UNCHANGED procVars
           \/ Goto(c, "done") /\ Start(c, NoCall)
        /\ UNCHANGED held
    BY <1>7 DEF NativeExec, nativeRest, nativeVars, At
  <2>2. CASE UNCHANGED procVars
    <3>1. MapStays
      BY <1>m, <1>u, <2>1, <2>2 DEF procVars
    <3>2. QED
      BY <1>2, <2>1, <2>2, <3>1 DEF procVars
  <2>3. CASE Start(c, NoCall)
    <3>1. ~IsOpen(c) /\ In(c) \in Insts /\ NoCall \in CallOrNone
      BY <2>1, Working, Kinds DEF Over, WorkPlace, NativePlace, BackendInv, IsOpen, CallOrNone
    <3>2. Started(c, NoCall)
      BY <1>2, <2>3, <3>1, StartEffect
    <3>3. agent' = agent
      BY <2>3, <3>1 DEF Start
    <3>4. \A i \in Insts : Alive(i)' => Alive(i)
      BY <3>1, <3>2, <3>3 DEF Alive, Started, BackendInv, Serial
    <3>5. MapStays
      BY <1>m, <2>1, <3>3, <3>4
    <3>6. QED
      BY <2>1, <3>2, <3>3, <3>5 DEF Started
  <2>4. QED
    BY <2>1, <2>2, <2>3
<1> HIDE DEF Quiet
<1>8. QED
  BY <1>1, <1>3, <1>4, <1>5, <1>6, <1>7

\* A step of a call that has to do with an agent: what it does for its own instance is enough.
LEMMA NativeStep ==
  ASSUME BackendInv, provider \in Native, NEW c \in Calls, NEW at, Works(c, at), OnlyOf(c),
         call[c].at \in {"mkdir", "spawn", "lookup", "kill"} \cup Recording \cup Dropping,
         ProcTypes', FileTypes', UNCHANGED <<boxVars, worldVars>>,
         \A d \in Calls \ {c} : read'[d] = read[d],
         ~muddled' =>
           /\ OneWrites' /\ \A i \in Insts : Alive(i)' => Known(i)'
           /\ \A i \in Insts : i = In(c) =>
                /\ at \in Recording => agent'[i] = c
                /\ at = "kill" /\ Alive(i)' => read'[c][i] = agent'[i]
                /\ at \in Dropping => ~Alive(i)',
         restarts = 0 =>
           /\ held' \in HeldMaps /\ \A i \in Insts : Alive(i)' => held'[i] = agent'[i]
           /\ \A i \in Insts : i = In(c) /\ at \in Dropping => ~Alive(i)',
         at # "spawn",
         \A i \in Insts : i = In(c) /\ call[c].op = "remove" /\ at = "done" /\ Tracked => ~Alive(i)'
  PROVE  BackendInv'
<1>1. /\ call'[c].at = at /\ \A d \in Calls \ {c} : call'[d] = call[d]
      /\ call'[c].inst = call[c].inst /\ provider' = provider /\ (muddled => muddled')
      /\ restarts' = restarts /\ (Tracked' => Tracked)
  BY DEF Works, Moved, Tracked
<1>2. In(c) \in Insts /\ latest[In(c)] = c
  BY NativeWorkers
<1>3. \A j \in Insts \ {In(c)} : agent'[j] = agent[j] /\ (Alive(j)' => Alive(j))
  BY DEF OnlyOf, BackendInv, Serial, Alive
<1>4. ASSUME NEW d \in Calls \ {c}, NEW j \in Insts, call'[d].inst = j,
             call[d].at \in {"kill", "spawn"} \cup Recording \cup Dropping
      PROVE  /\ call'[d] = call[d] /\ In(d) = j /\ read'[d] = read[d]
             /\ agent'[j] = agent[j] /\ (Alive(j)' => Alive(j))
  <2>1. call'[d] = call[d] /\ In(d) = j /\ latest[j] = d
    BY <1>1, <1>4, NativeWorkers DEF In
  <2>2. j # In(c)
    BY <1>2, <2>1
  <2>3. QED
    BY <1>3, <2>1, <2>2
<1>5. NativeInv'
  <2> SUFFICES ASSUME ~muddled'
               PROVE  NativeKept'
    BY DEF NativeInv
  <2>1. NativeKept
    BY <1>1 DEF BackendInv, NativeInv
  <2>2. ASSUME NEW d \in Calls, NEW j \in Insts, call'[d].inst = j
        PROVE  /\ call'[d].at \in Recording => agent'[j] = d
               /\ call'[d].at = "kill" /\ Alive(j)' => read'[d][j] = agent'[j]
               /\ call'[d].at \in Dropping => ~Alive(j)'
    <3>1. CASE d = c
      BY <1>1, <2>2, <3>1 DEF In
    <3>2. CASE d # c /\ call[d].at \in {"kill"} \cup Recording \cup Dropping
      BY <1>4, <2>1, <2>2, <3>2 DEF NativeKept, At
    <3>3. QED
      BY <1>1, <3>1, <3>2
  <2>3. QED
    BY <2>2 DEF NativeKept, In, At
<1>6. MapInv'
  <2> SUFFICES ASSUME restarts = 0
               PROVE  held' \in HeldMaps /\ Mapped'
    BY <1>1 DEF MapInv, HeldMaps
  <2>1. Mapped
    BY DEF BackendInv, MapInv
  <2>2. ASSUME NEW d \in Calls, NEW j \in Insts, call'[d].inst = j, call'[d].at \in Agentless
        PROVE  ~Alive(j)'
    <3>1. CASE d = c
      BY <1>1, <2>2, <3>1 DEF In, Agentless
    <3>2. CASE d # c
      <4>1. call[d].at \in {"kill", "spawn"} \cup Recording \cup Dropping /\ call[d].at \in Agentless
        BY <1>1, <2>2, <3>2 DEF Agentless
      <4>2. QED
        BY <1>4, <2>1, <2>2, <3>2, <4>1 DEF Mapped
    <3>3. QED
      BY <3>1, <3>2
  <2>3. QED
    BY <2>2 DEF Mapped, In
<1>7. BoxTypes'
  BY DEF BackendInv, BoxTypes, boxVars, worldVars
<1>8. call[c].op = "remove" /\ at = "done" /\ Tracked' /\ ~IsShared => ~Alive(In(c))'
  <2> SUFFICES ASSUME call[c].op = "remove", at = "done", Tracked', NEW i \in Insts, i = In(c)
               PROVE  ~Alive(i)'
    BY <1>1, <1>2 DEF In
  <2>1. QED
    BY <1>1
<1>9. QED
  BY <1>5, <1>6, <1>7, <1>8, Kinds, StepKeeps DEF BackendInv

LEMMA HostSpawnKeeps ==
  ASSUME BackendInv, NEW c \in Calls, HostSpawn(c)
  PROVE  BackendInv'
<1>1. /\ call[c].at \in {"mkdir", "spawn"} /\ Start(c, NoCall) /\ Goto(c, "upsert")
      /\ held' = [held EXCEPT ![In(c)] = c]
      /\ UNCHANGED <<provider, latest, restarts, file, read, muddled, boxVars, worldVars>>
  BY DEF HostSpawn, Spawning, At, nativeRest
<1>2. provider \in Native
  BY <1>1, PlaceOf
<1>3. ~Over(c) /\ In(c) \in Insts /\ latest[In(c)] = c /\ call[c].op = "open"
  BY <1>1, <1>2, NativeWorkers
<1>4. Works(c, "upsert")
  <2>1. WorkPlace(provider, call[c].op, "upsert")
    BY <1>2, <1>3 DEF WorkPlace, NativePlace
  <2>2. QED
    BY <1>1, <1>3, <2>1, GoesOn
<1>5. Started(c, NoCall)
  BY <1>1, <1>3, StartEffect DEF BackendInv, CallOrNone
<1>6. ProcTypes' /\ OnlyOf(c) /\ FileTypes'
  BY <1>1, <1>3, <1>5 DEF Started, OnlyOf, BackendInv, FileTypes
<1>7. \A i \in Insts : i = In(c) => agent'[i] = c
  BY <1>3, <1>5 DEF Started, IsOpen
<1>8. \A j \in Insts \ {In(c)} : agent'[j] = agent[j] /\ (Alive(j)' => Alive(j))
  BY <1>5, <1>6 DEF OnlyOf, BackendInv, Serial, Alive
<1>9. "upsert" \in Recording /\ "upsert" \notin Dropping
  BY DEF Recording, Dropping
<1>10. ~muddled' => OneWrites' /\ \A i \in Insts : Alive(i)' => Known(i)'
  <2> SUFFICES ASSUME ~muddled
               PROVE  OneWrites' /\ \A i \in Insts : Alive(i)' => Known(i)'
    BY <1>1
  <2>1. NativeKept
    BY <1>2 DEF BackendInv, NativeInv
  <2>2. /\ OneWrites'
        /\ \A i \in Insts : agent'[i] = agent[i] /\ agent[i] \in Calls /\ Known(i) => Known(i)'
    BY <1>1, <1>4, <1>9, <2>1, FileStays
  <2>3. ASSUME NEW i \in Insts, Alive(i)'
        PROVE  Known(i)'
    <3>1. CASE i = In(c)
      <4>1. call'[agent'[i]].at = "upsert"
        BY <1>4, <1>7, <3>1 DEF Works, Moved
      <4>2. QED
        BY <1>9, <4>1 DEF Known
    <3>2. CASE i # In(c)
      BY <1>8, <2>1, <2>2, <2>3, <3>2 DEF NativeKept, Alive
    <3>3. QED
      BY <3>1, <3>2
  <2>4. QED
    BY <2>2, <2>3
<1>11. restarts = 0 => held' \in HeldMaps /\ \A i \in Insts : Alive(i)' => held'[i] = agent'[i]
  <2> SUFFICES ASSUME restarts = 0
               PROVE  held' \in HeldMaps /\ \A i \in Insts : Alive(i)' => held'[i] = agent'[i]
    OBVIOUS
  <2>1. held \in HeldMaps /\ Mapped
    BY <1>2 DEF BackendInv, MapInv
  <2>2. held' \in HeldMaps /\ \A j \in Insts : held'[j] = IF j = In(c) THEN c ELSE held[j]
    BY <1>1, <1>3, <2>1 DEF HeldMaps
  <2>3. QED
    BY <1>7, <1>8, <2>1, <2>2 DEF Mapped
<1>12. QED
  BY <1>1, <1>2, <1>3, <1>4, <1>6, <1>7, <1>9, <1>10, <1>11, NativeStep

\* An agent whose instance is at a call that works alone is not on the way to the registry,
\* but by that call.
LEMMA NotRecording ==
  ASSUME BackendInv, provider \in Native, NEW c \in Calls, Alive(In(c)),
         call[c].at \in {"lookup", "kill"} \cup Dropping
  PROVE  call[agent[In(c)]].at \notin Recording
<1> SUFFICES ASSUME call[agent[In(c)]].at \in Recording
             PROVE  FALSE
  OBVIOUS
<1>1. In(c) \in Insts /\ latest[In(c)] = c /\ call[c].op = "remove"
  BY NativeWorkers
<1>2. agent[In(c)] \in Calls /\ In(agent[In(c)]) = In(c)
  BY <1>1 DEF Alive, BackendInv, Serial
<1>3. latest[In(c)] = agent[In(c)] /\ call[agent[In(c)]].op = "open"
  BY <1>2, NativeWorkers
<1>4. QED
  BY <1>1, <1>3

LEMMA ReadRegistryKeeps ==
  ASSUME BackendInv, NEW c \in Calls, ReadRegistry(c)
  PROVE  BackendInv'
<1>1. PICK at : /\ \/ call[c].at = "lookup" /\ at = "kill"
                   \/ call[c].at = "upsert" /\ at = "upsertOpen"
                   \/ call[c].at = "drop" /\ at = "dropOpen"
                /\ Goto(c, at)
  BY DEF ReadRegistry, At
<1>2. /\ read' = [read EXCEPT ![c] = file]
      /\ muddled' = (muddled \/ \E d \in Calls : Truncated(d))
      /\ UNCHANGED <<provider, latest, restarts, proc, home, agent, held, file, boxVars, worldVars>>
  BY DEF ReadRegistry, nativeRest, procVars
<1>a. /\ call[c].at \in {"lookup"} \cup Recording \cup Dropping
      /\ call[c].at \notin {"upsertWrite", "dropWrite"} /\ at \notin {"upsertWrite", "dropWrite", "done", "spawn"}
      /\ call[c].at \in Recording <=> at \in Recording
      /\ call[c].at \in Dropping <=> at \in Dropping
      /\ at = "kill" => call[c].at = "lookup"
  BY <1>1 DEF Recording, Dropping
<1>3. provider \in Native
  BY <1>a, PlaceOf
<1>4. /\ ~Over(c) /\ In(c) \in Insts /\ latest[In(c)] = c
      /\ call[c].at = "upsert" => call[c].op = "open"
      /\ call[c].at # "upsert" => call[c].op = "remove"
  BY <1>1, <1>3, NativeWorkers DEF Recording, Dropping
<1>5. Works(c, at)
  <2>1. WorkPlace(provider, call[c].op, at)
    BY <1>1, <1>3, <1>4 DEF WorkPlace, NativePlace
  <2>2. Goto(c, at) /\ UNCHANGED <<provider, latest, restarts>> /\ (muddled => muddled')
    BY <1>1, <1>2
  <2>3. QED
    BY <1>4, <2>1, <2>2, GoesOn
<1>6. ProcTypes' /\ OnlyOf(c) /\ FileTypes'
  BY <1>2 DEF ProcTypes, OnlyOf, BackendInv, FileTypes
<1>7. \A i \in Insts : (Alive(i)' <=> Alive(i)) /\ agent'[i] = agent[i]
  BY <1>2 DEF Alive
<1>8. \A d \in Calls \ {c} : read'[d] = read[d]
  BY <1>2
<1>9. ASSUME ~muddled'
      PROVE  /\ OneWrites' /\ \A i \in Insts : Alive(i)' => Known(i)'
             /\ \A i \in Insts : i = In(c) =>
                  /\ at \in Recording => agent'[i] = c
                  /\ at = "kill" /\ Alive(i)' => read'[c][i] = agent'[i]
                  /\ at \in Dropping => ~Alive(i)'
  <2>1. ~muddled /\ \A d \in Calls : ~Truncated(d)
    BY <1>2, <1>9
  <2>2. NativeKept
    BY <1>3, <2>1 DEF BackendInv, NativeInv
  <2>3. /\ OneWrites'
        /\ \A i \in Insts : agent'[i] = agent[i] /\ agent[i] \in Calls /\ Known(i) => Known(i)'
    BY <1>2, <1>5, <1>8, <1>a, <2>2, FileStays
  <2>4. \A i \in Insts : Alive(i)' => Known(i)'
    BY <1>7, <2>2, <2>3 DEF NativeKept, Alive
  <2>5. ASSUME NEW i \in Insts, i = In(c)
        PROVE  /\ at \in Recording => agent'[i] = c
               /\ at \in Dropping => ~Alive(i)'
    BY <1>7, <1>a, <2>2, <2>5 DEF NativeKept
  <2>6. ASSUME NEW i \in Insts, i = In(c), at = "kill", Alive(i)
        PROVE  read'[c][i] = agent'[i]
    <3>1. Known(i) /\ call[agent[i]].at \notin Recording
      BY <1>3, <1>a, <2>2, <2>6, NotRecording DEF NativeKept
    <3>2. file[i] = agent[i]
      BY <2>1, <3>1 DEF Known
    <3>3. read'[c] = file
      BY <1>2 DEF BackendInv, FileTypes
    <3>4. QED
      BY <1>7, <3>2, <3>3
  <2>7. QED
    BY <1>7, <2>3, <2>4, <2>5, <2>6
<1>10. ASSUME restarts = 0
       PROVE  /\ held' \in HeldMaps /\ \A i \in Insts : Alive(i)' => held'[i] = agent'[i]
              /\ \A i \in Insts : i = In(c) /\ at \in Dropping => ~Alive(i)'
  <2>1. held \in HeldMaps /\ Mapped
    BY <1>3, <1>10 DEF BackendInv, MapInv
  <2>2. QED
    BY <1>2, <1>7, <1>a, <2>1 DEF Mapped, Agentless
<1>11. QED
  BY <1>2, <1>3, <1>5, <1>6, <1>8, <1>9, <1>10, <1>a, NativeStep

LEMMA OpenRegistryKeeps ==
  ASSUME BackendInv, NEW c \in Calls, OpenRegistry(c)
  PROVE  BackendInv'
<1>1. PICK at : /\ \/ call[c].at = "upsertOpen" /\ at = "upsertWrite"
                   \/ call[c].at = "dropOpen" /\ at = "dropWrite"
                /\ Goto(c, at)
  BY DEF OpenRegistry, At
<1>2. /\ file' = NoEntries
      /\ muddled' = (muddled \/ read[c] # file \/ \E d \in Calls : Truncated(d))
      /\ UNCHANGED <<provider, latest, restarts, proc, home, agent, held, read, boxVars, worldVars>>
  BY DEF OpenRegistry, nativeRest, procVars
<1>3. /\ call[c].at \in Recording \cup Dropping /\ at \in {"upsertWrite", "dropWrite"}
      /\ call[c].at \in Recording <=> at \in Recording
      /\ call[c].at \in Dropping <=> at \in Dropping
      /\ at \notin {"kill", "done"}
  BY <1>1 DEF Recording, Dropping
<1>4. provider \in Native
  BY <1>3, PlaceOf
<1>5. /\ ~Over(c) /\ In(c) \in Insts
      /\ call[c].at = "upsertOpen" => call[c].op = "open"
      /\ call[c].at = "dropOpen" => call[c].op = "remove"
  BY <1>1, <1>3, <1>4, NativeWorkers DEF Recording, Dropping
<1>6. Works(c, at)
  <2>1. WorkPlace(provider, call[c].op, at)
    BY <1>1, <1>4, <1>5 DEF WorkPlace, NativePlace
  <2>2. ~Over(c) /\ Goto(c, at) /\ UNCHANGED <<provider, latest, restarts>> /\ (muddled => muddled')
    BY <1>1, <1>2, <1>3, <1>4, NativeWorkers
  <2>3. QED
    BY <2>1, <2>2, GoesOn
<1>7. ProcTypes' /\ OnlyOf(c) /\ FileTypes'
  <2>1. NoEntries \in [Insts -> CallOrNone]
    BY DEF NoEntries, CallOrNone
  <2>2. QED
    BY <1>2, <2>1 DEF ProcTypes, OnlyOf, BackendInv, FileTypes
<1>8. \A i \in Insts : (Alive(i)' <=> Alive(i)) /\ agent'[i] = agent[i]
  BY <1>2 DEF Alive
<1>9. call'[c].at = at /\ \A d \in Calls \ {c} : call'[d] = call[d]
  BY <1>6 DEF Works, Moved
<1>10. ASSUME ~muddled'
       PROVE  /\ OneWrites' /\ \A i \in Insts : Alive(i)' => Known(i)'
              /\ \A i \in Insts : i = In(c) =>
                   /\ at \in Recording => agent'[i] = c
                   /\ at \in Dropping => ~Alive(i)'
  <2>1. ~muddled /\ read[c] = file /\ \A d \in Calls : ~Truncated(d)
    BY <1>2, <1>10
  <2>2. NativeKept
    BY <1>4, <2>1 DEF BackendInv, NativeInv
  <2>3. Truncated(c)' /\ \A d \in Calls : Truncated(d)' => d = c
    BY <1>3, <1>9, <2>1 DEF Truncated
  <2>4. OneWrites'
    <3>1. NoEntries' = NoEntries
      BY DEF NoEntries
    <3>2. QED
      BY <1>2, <2>3, <3>1 DEF OneWrites
  <2>5. ASSUME NEW i \in Insts, Alive(i)
        PROVE  Known(i)'
    <3>1. Known(i) /\ agent[i] \in Calls
      BY <2>2, <2>5 DEF NativeKept, Alive
    <3>2. CASE call[agent[i]].at \in Recording
      <4>1. call'[agent[i]].at \in Recording
        BY <1>3, <1>9, <3>1, <3>2
      <4>2. QED
        BY <1>8, <4>1 DEF Known
    <3>3. CASE file[i] = agent[i]
      <4>1. read'[c][i] = agent'[i]
        BY <1>2, <2>1, <3>3
      <4>2. QED
        BY <2>3, <4>1 DEF Known
    <3>4. QED
      BY <2>1, <3>1, <3>2, <3>3 DEF Known
  <2>6. ASSUME NEW i \in Insts, i = In(c)
        PROVE  /\ at \in Recording => agent'[i] = c
               /\ at \in Dropping => ~Alive(i)'
    BY <1>3, <1>8, <2>2, <2>6 DEF NativeKept
  <2>7. QED
    BY <1>8, <2>4, <2>5, <2>6
<1>11. ASSUME restarts = 0
       PROVE  /\ held' \in HeldMaps /\ \A i \in Insts : Alive(i)' => held'[i] = agent'[i]
              /\ \A i \in Insts : i = In(c) /\ at \in Dropping => ~Alive(i)'
  <2>1. held \in HeldMaps /\ Mapped
    BY <1>4, <1>11 DEF BackendInv, MapInv
  <2>2. QED
    BY <1>2, <1>3, <1>8, <2>1 DEF Mapped, Agentless
<1>12. QED
  BY <1>2, <1>3, <1>4, <1>6, <1>7, <1>10, <1>11, NativeStep

LEMMA WriteRegistryKeeps ==
  ASSUME BackendInv, NEW c \in Calls, WriteRegistry(c)
  PROVE  BackendInv'
<1> DEFINE p == IF At(c, "upsertWrite") THEN c ELSE NoCall
<1>1. /\ Truncated(c) /\ Goto(c, "done")
      /\ \/ file' = [read[c] EXCEPT ![In(c)] = p]
         \/ file # NoEntries /\ file' = NoEntries
      /\ UNCHANGED <<provider, latest, restarts, proc, home, agent, held, read, muddled, boxVars, worldVars>>
  BY DEF WriteRegistry, nativeRest, procVars
<1>2. call[c].at \in {"upsertWrite", "dropWrite"} /\ call[c].at \in Recording \cup Dropping
  BY <1>1 DEF Truncated, Recording, Dropping
<1>3. provider \in Native
  BY <1>2, PlaceOf
<1>4. ~Over(c) /\ In(c) \in Insts
  BY <1>2, <1>3, NativeWorkers
<1>5. Works(c, "done")
  BY <1>1, <1>4, GoesOn
<1>6. p \in CallOrNone
  BY DEF CallOrNone
<1> HIDE DEF p
<1>7. ProcTypes' /\ OnlyOf(c) /\ FileTypes'
  <2>1. read[c] \in [Insts -> CallOrNone] /\ NoEntries \in [Insts -> CallOrNone]
    BY DEF CallOrNone, BackendInv, FileTypes, NoEntries
  <2>2. file' \in [Insts -> CallOrNone]
    BY <1>1, <1>6, <2>1
  <2>3. QED
    BY <1>1, <2>2 DEF ProcTypes, OnlyOf, BackendInv, FileTypes
<1>8. \A i \in Insts : (Alive(i)' <=> Alive(i)) /\ agent'[i] = agent[i]
  BY <1>1 DEF Alive
<1>9. call'[c].at = "done" /\ \A d \in Calls \ {c} : call'[d] = call[d]
  BY <1>5 DEF Works, Moved
<1>10. \A d \in Calls : Truncated(d)' => d # c /\ Truncated(d)
  BY <1>9 DEF Truncated
<1>11. ASSUME ~muddled
       PROVE  OneWrites' /\ \A i \in Insts : Alive(i)' => Known(i)'
  <2>1. NativeKept
    BY <1>3, <1>11 DEF BackendInv, NativeInv
  <2>2. file = NoEntries /\ \A d \in Calls : Truncated(d) => d = c
    BY <1>1, <2>1 DEF NativeKept, OneWrites
  <2>3. OneWrites'
    BY <1>10, <2>2 DEF OneWrites
  <2>4. \A j \in Insts : file[j] = NoCall /\ file'[j] = IF j = In(c) THEN p ELSE read[c][j]
    BY <1>1, <2>2 DEF BackendInv, FileTypes, NoEntries
  <2>5. ASSUME NEW i \in Insts, Alive(i)
        PROVE  Known(i)'
    <3>1. Known(i) /\ agent[i] \in Calls /\ In(agent[i]) = i
      BY <2>1, <2>5 DEF NativeKept, Alive, BackendInv, Serial
    <3>2. CASE i = In(c)
      <4>1. At(c, "upsertWrite") /\ agent[i] = c
        BY <1>2, <2>1, <2>5, <3>2 DEF NativeKept, At, Recording, Dropping
      <4>2. file'[i] = c
        BY <2>4, <3>2, <4>1 DEF p
      <4>3. QED
        BY <1>8, <4>1, <4>2 DEF Known
    <3>3. CASE i # In(c) /\ call[agent[i]].at \in Recording
      <4>1. call'[agent'[i]].at \in Recording
        BY <1>8, <1>9, <3>1, <3>3
      <4>2. QED
        BY <4>1 DEF Known
    <3>4. CASE i # In(c) /\ read[c][i] = agent[i]
      BY <1>8, <2>4, <3>4 DEF Known
    <3>5. file[i] # agent[i]
      BY <2>4, <3>1, NoCallIsNone
    <3>6. (\E d \in Calls : Truncated(d) /\ read[d][i] = agent[i]) => read[c][i] = agent[i]
      BY <2>2
    <3>7. QED
      BY <3>1, <3>2, <3>3, <3>4, <3>5, <3>6 DEF Known
  <2>6. QED
    BY <1>8, <2>3, <2>5
<1>12. ASSUME restarts = 0
       PROVE  held' \in HeldMaps /\ \A i \in Insts : Alive(i)' => held'[i] = agent'[i]
  <2>1. held \in HeldMaps /\ Mapped
    BY <1>3, <1>12 DEF BackendInv, MapInv
  <2>2. QED
    BY <1>1, <1>8, <2>1 DEF Mapped
<1>13. ASSUME NEW i \in Insts, i = In(c), call[c].op = "remove", Tracked
       PROVE  ~Alive(i)'
  <2>1. call[c].at \in Dropping
    BY <1>2, <1>3, <1>13, NativeWorkers
  <2>2. CASE ~muddled
    BY <1>3, <1>8, <1>13, <2>1, <2>2 DEF BackendInv, NativeInv, NativeKept
  <2>3. CASE restarts = 0
    BY <1>3, <1>8, <1>13, <2>1, <2>3 DEF BackendInv, MapInv, Mapped, Agentless
  <2>4. QED
    BY <1>13, <2>2, <2>3 DEF Tracked
<1>14. "done" \notin Recording \cup Dropping /\ "done" # "kill"
  BY DEF Recording, Dropping
<1>15. QED
  BY <1>1, <1>2, <1>3, <1>5, <1>7, <1>11, <1>12, <1>13, <1>14, NativeStep

LEMMA NativeRemoveKeeps ==
  ASSUME BackendInv, NEW c \in Calls, NativeRemove(c)
  PROVE  BackendInv'
<1>1. /\ call[c].at = "kill" /\ Signal(Agents(In(c)) \cup {read[c][In(c)]}) /\ Goto(c, "drop")
      /\ held' = [held EXCEPT ![In(c)] = "absent"]
      /\ UNCHANGED <<provider, latest, restarts, home, agent, file, read, muddled, boxVars, worldVars>>
  BY DEF NativeRemove, At, nativeRest
<1>2. provider \in Native
  BY <1>1, PlaceOf
<1>3. ~Over(c) /\ In(c) \in Insts /\ call[c].op = "remove"
  BY <1>1, <1>2, NativeWorkers
<1>4. Works(c, "drop")
  <2>1. WorkPlace(provider, call[c].op, "drop")
    BY <1>2, <1>3 DEF WorkPlace, NativePlace
  <2>2. QED
    BY <1>1, <1>3, <2>1, GoesOn
<1>5. Fewer /\ \A p \in Calls : proc'[p] = "live" => p # read[c][In(c)] /\ p \notin Agents(In(c))
  BY <1>1, SignalEffect DEF BackendInv
<1>6. ProcTypes' /\ OnlyOf(c) /\ FileTypes'
  BY <1>1, <1>5 DEF ProcTypes, OnlyOf, BackendInv, FileTypes, Fewer
<1>7. \A i \in Insts : (Alive(i)' => Alive(i)) /\ agent'[i] = agent[i]
  BY <1>1, <1>5 DEF Alive, Fewer
<1>8. "drop" \notin Recording /\ "kill" \notin Recording /\ "drop" \notin {"kill", "done", "upsertWrite", "dropWrite"}
  BY DEF Recording
<1>9. ASSUME ~muddled'
      PROVE  /\ OneWrites' /\ \A i \in Insts : Alive(i)' => Known(i)'
             /\ \A i \in Insts : i = In(c) => ~Alive(i)'
  <2>1. NativeKept
    BY <1>1, <1>2, <1>9 DEF BackendInv, NativeInv
  <2>2. /\ OneWrites'
        /\ \A i \in Insts : agent'[i] = agent[i] /\ agent[i] \in Calls /\ Known(i) => Known(i)'
    BY <1>1, <1>4, <1>8, <2>1, FileStays
  <2>3. \A i \in Insts : Alive(i)' => Known(i)'
    BY <1>7, <2>1, <2>2 DEF NativeKept, Alive
  <2>4. ASSUME NEW i \in Insts, i = In(c), Alive(i)'
        PROVE  FALSE
    <3>1. read[c][i] = agent[i]
      BY <1>1, <1>7, <2>1, <2>4 DEF NativeKept, At
    <3>2. QED
      BY <1>5, <1>7, <2>4, <3>1 DEF Alive
  <2>5. QED
    BY <2>2, <2>3, <2>4
<1>10. ASSUME restarts = 0
       PROVE  /\ held' \in HeldMaps /\ \A i \in Insts : Alive(i)' => held'[i] = agent'[i]
              /\ \A i \in Insts : i = In(c) => ~Alive(i)'
  <2>1. held \in HeldMaps /\ Mapped
    BY <1>2, <1>10 DEF BackendInv, MapInv
  <2>2. ASSUME NEW i \in Insts, i = In(c), Alive(i)'
        PROVE  FALSE
    <3>1. held[i] = agent[i] /\ agent[i] \in Calls
      BY <1>7, <2>1, <2>2 DEF Mapped, Alive
    <3>2. QED
      BY <1>5, <1>7, <2>2, <3>1 DEF Alive, Agents
  <2>3. /\ held' \in HeldMaps /\ \A j \in Insts : j # In(c) => held'[j] = held[j]
    BY <1>1, <1>3, <2>1 DEF HeldMaps
  <2>4. QED
    BY <1>7, <2>1, <2>2, <2>3 DEF Mapped
<1>11. QED
  BY <1>1, <1>2, <1>4, <1>6, <1>8, <1>9, <1>10, NativeStep

LEMMA GoneEffect ==
  ASSUME ProcTypes, NEW h, Gone(h)
  PROVE  Fewer /\ \A p \in Calls : proc'[p] = "live" => home[p] # h
BY DEF Gone, Fewer, ProcTypes

\* The ends of processes that no call asks for.
LEMMA EndSteps ==
  ASSUME BackendInv, NEW p \in Calls,
         CloseHandle(p) \/ NativeExit(p) \/ BoxKill(p) \/ ExecKill(p)
  PROVE  BackendInv'
<1>1. ProcTypes
  BY DEF BackendInv
<1>2. CASE CloseHandle(p)
  <2>1. Fewer
    BY <1>1, <1>2, SignalEffect DEF CloseHandle
  <2>2. MapInv'
    BY <1>2, <2>1 DEF CloseHandle, nativeRest, nativeVars, BackendInv, MapInv, HeldMaps, Mapped, Alive, Fewer, In
  <2>3. QED
    BY <1>2, <2>1, <2>2, EndKeeps DEF CloseHandle, nativeRest, nativeVars, worldVars, boxVars
<1>3. CASE NativeExit(p)
  <2>1. Fewer
    BY <1>1, <1>3 DEF NativeExit, Fewer, ProcTypes
  <2>2. UNCHANGED <<provider, call, agent, restarts>> /\ proc'[p] # "live" /\ p \in Calls
    BY <1>1, <1>3 DEF NativeExit, nativeRest, ProcTypes
  <2>3. ASSUME held \in HeldMaps
        PROVE  held' \in HeldMaps /\ \A i \in Insts : held'[i] = held[i] \/ held[i] = p
    BY <1>3, <2>3 DEF NativeExit, HeldMaps
  <2>4. MapInv'
    BY <2>1, <2>2, <2>3 DEF BackendInv, MapInv, HeldMaps, Mapped, Alive, Fewer, In
  <2>5. QED
    BY <1>3, <2>1, <2>4, EndKeeps DEF NativeExit, nativeRest, worldVars, boxVars
<1>4. CASE BoxKill(p)
  <2>1. Fewer
    BY <1>1, <1>4 DEF BoxKill, Fewer, ProcTypes
  <2>2. MapInv'
    BY <1>4, Kinds, NoMap DEF BoxKill, boxRest, BackendInv
  <2>3. QED
    BY <1>4, <2>1, <2>2, EndKeeps DEF BoxKill, boxRest, nativeVars, worldVars, boxVars
<1>5. CASE ExecKill(p)
  <2>1. Fewer
    BY <1>1, <1>5 DEF ExecKill, Fewer, ProcTypes
  <2>2. MapInv'
    BY <1>5, Kinds, NoMap DEF ExecKill, dockerRest, BackendInv
  <2>3. QED
    BY <1>5, <2>1, <2>2, EndKeeps DEF ExecKill, dockerRest, nativeVars, worldVars, boxVars
<1>6. QED
  BY <1>2, <1>3, <1>4, <1>5

\* A restart of the proxy forgets no agent that the registry knows.
LEMMA RestartKeeps ==
  ASSUME BackendInv, ProxyRestarts
  PROVE  BackendInv'
<1>1. /\ provider \in Native
      /\ call' = [c \in Calls |-> IF Over(c) THEN call[c] ELSE [call[c] EXCEPT !.at = "failed"]]
      /\ proc' = proc \/ proc' = [p \in Calls |-> IF proc[p] = "none" THEN "none" ELSE "gone"]
      /\ muddled' = (muddled \/ \E c \in Calls : Truncated(c) \/ call[c].at \in {"upsert", "upsertOpen"})
      /\ restarts' = restarts + 1 /\ restarts \in Nat
      /\ UNCHANGED <<provider, home, agent, file, read, worldVars, boxVars, latest>>
  BY DEF ProxyRestarts, BackendInv, FileTypes
<1>2. \A c \in Calls : /\ call'[c] \in CallRows /\ call'[c].op = call[c].op /\ call'[c].inst = call[c].inst
                       /\ Over(c) => call'[c] = call[c]
                       /\ ~Over(c) => call'[c].at = "failed"
  <2> SUFFICES ASSUME NEW c \in Calls, ~Over(c)
               PROVE  /\ call'[c] \in CallRows /\ call'[c].op = call[c].op
                      /\ call'[c].inst = call[c].inst /\ call'[c].at = "failed"
    BY <1>1 DEF BackendInv, CallTypes
  <2>1. call'[c] = [call[c] EXCEPT !.at = "failed"] /\ call[c] \in CallRows
    BY <1>1 DEF BackendInv, CallTypes
  <2>2. "failed" \in Places
    BY DEF Places
  <2>3. QED
    BY <2>1, <2>2 DEF CallRows
<1>3. CallTypes' /\ BoxTypes'
  <2>1. call' \in [Calls -> CallRows]
    BY <1>1, <1>2
  <2>2. QED
    BY <1>1, <2>1 DEF BackendInv, CallTypes, BoxTypes, worldVars, boxVars
<1>r. restarts' \in Nat /\ restarts' # 0
  BY <1>1
<1>4. FileTypes' /\ ProcTypes' /\ Fewer
  BY <1>1, <1>r DEF BackendInv, FileTypes, ProcTypes, Fewer
<1>5. AllPlaced'
  <2> SUFFICES ASSUME NEW c \in Calls
               PROVE  Placed(c)'
    BY DEF AllPlaced
  <2>1. Placed(c)
    BY DEF BackendInv, AllPlaced
  <2>2. CASE Over(c)
    <3>1. call'[c] = call[c] /\ (call[c] = Nobody \/ call[c].at \in {"done", "failed"})
      BY <1>2, <2>1, <2>2, WorksAt DEF Placed, Over
    <3>2. QED
      BY <1>1, <2>1, <3>1 DEF Placed, In
  <2>3. CASE ~Over(c)
    BY <1>1, <1>2, <2>1, <2>3 DEF Placed, In, Over, Nobody
  <2>4. QED
    BY <2>2, <2>3
<1>6. Serial'
  <2>1. \A c \in Calls : ~Idle(c) => ~Idle(c)'
    BY <1>2 DEF Idle, At, Over
  <2>2. \A c \in Calls : Idle(c)' => Idle(c)
    BY <1>2 DEF Idle, At, Over
  <2>3. \A c \in Calls : Idle(c)' => proc'[c] # "live"
    BY <1>4, <2>2 DEF Fewer, BackendInv, Serial
  <2>4. \A c \in Calls : Over(c)'
    BY <1>2 DEF Over
  <2>5. \A i \in Insts : latest'[i] \in Calls => call'[latest'[i]].at # "idle" /\ call'[latest'[i]].inst = i
    BY <1>1, <1>2, <2>1 DEF BackendInv, Serial, In, Idle, At
  <2>6. \A i \in Insts : agent'[i] \in Calls => /\ call'[agent'[i]].inst = i
                                                /\ call'[agent'[i]].op \in {"open", "openInit"}
    BY <1>1, <1>2 DEF BackendInv, Serial, In, IsOpen
  <2>7. QED
    BY <2>3, <2>4, <2>5, <2>6 DEF Serial, In, IsOpen, Idle, At
<1>7. \A i \in Insts : Alive(i)' => Alive(i)
  BY <1>1, <1>4 DEF Alive, Fewer
<1>8. NativeInv'
  <2> SUFFICES ASSUME ~muddled'
               PROVE  NativeKept'
    BY DEF NativeInv
  <2>1. /\ NativeKept /\ file' = file
        /\ \A c \in Calls : ~Truncated(c) /\ call[c].at \notin {"upsert", "upsertOpen"}
    BY <1>1 DEF BackendInv, NativeInv
  <2>2. \A c \in Calls : call'[c].at \notin {"kill"} \cup Recording \cup Dropping /\ ~Truncated(c)'
    BY <1>2 DEF Over, Recording, Dropping, Truncated
  <2>3. ASSUME NEW i \in Insts, Alive(i)
        PROVE  Known(i)'
    <3>1. Known(i) /\ agent[i] \in Calls
      BY <2>1, <2>3 DEF NativeKept, Alive
    <3>2. file[i] = agent[i]
      BY <2>1, <3>1 DEF Known, Recording, Truncated
    <3>3. QED
      BY <1>1, <3>2 DEF Known
  <2>4. OneWrites'
    BY <2>2 DEF OneWrites
  <2>5. QED
    BY <1>7, <2>2, <2>3, <2>4 DEF NativeKept, In, At
<1>9. RemovedIsGone'
  <2> SUFFICES ASSUME NEW i \in Insts, latest[i] # NoCall, call'[latest[i]].op = "remove",
                      call'[latest[i]].at = "done", Tracked', ~IsShared, agent[i] # NoCall
               PROVE  proc'[agent[i]] # "live"
    BY <1>1 DEF RemovedIsGone, At, IsShared
  <2>1. latest[i] \in Calls /\ agent[i] \in Calls /\ Tracked
    BY <1>1, <1>r DEF BackendInv, CallTypes, ProcTypes, CallOrNone, Tracked
  <2>2. call'[latest[i]] = call[latest[i]]
    BY <1>2, <2>1
  <2>3. proc[agent[i]] # "live"
    BY <2>1, <2>2 DEF BackendInv, RemovedIsGone, At
  <2>4. QED
    BY <1>4, <2>1, <2>3 DEF Fewer
<1>10. MapInv' /\ BoxInv' /\ ContainerInv'
  BY <1>1, <1>r DEF MapInv, BoxInv, OwnBoxes, ContainerInv, Native, Boxlite
<1>11. QED
  BY <1>3, <1>4, <1>5, <1>6, <1>8, <1>9, <1>10 DEF BackendInv

-----------------------------------------------------------------------------
(* BoxLite.                                                                  *)

\* What a step of c leaves behind: the boxes are still of their instances, ...
OwnBoxAfter(c, at) ==
  /\ box' \in Calls => call[box'].inst = meta' /\ call[box'].at # "idle"
  /\ provider # "common" =>
       \A i \in Insts : named'[i] \in Calls => call[named'[i]].inst = i /\ call[named'[i]].at # "idle"
  /\ \A p \in Calls : proc'[p] = "live" =>
       home'[p] \in Calls /\ call[home'[p]].inst = In(p) /\ call[home'[p]].at # "idle"
  /\ box' \in Calls => \A d \in Calls : (IF d = c THEN at ELSE call[d].at) = "stopping" =>
                                          call[box'].inst # In(d)

\* ... there is one that is in use, ...
OneBoxAfter(c, at) ==
  /\ at \in {"halt", "make", "create"} => \A d \in Calls \ {c} : ~Ensuring(d)
  /\ \A d \in Calls : LET now == IF d = c THEN at ELSE call[d].at IN
       /\ now \in {"make", "create"} => box' = NoCall
       /\ now = "halt" => box' \in {victim'[d], NoCall}
  /\ \A p \in Calls : proc'[p] = "live" =>
       \/ home'[p] = box'
       \/ \E d \in Calls : /\ (IF d = c THEN at ELSE call[d].at) = "stopping"
                           /\ victim'[d] = home'[p] /\ In(d) = In(p)

\* ... and the name they may share is of that one, or of one that stops.
OneNameAfter(c, at) ==
  /\ named'["boxName"] \in Calls =>
       \/ box' = named'["boxName"]
       \/ \E d \in Calls : /\ (IF d = c THEN at ELSE call[d].at) = "stopping"
                           /\ victim'[d] = named'["boxName"]
  /\ \A d \in Calls : LET now == IF d = c THEN at ELSE call[d].at IN
       /\ now \in {"make", "create"} => named'["boxName"] = NoCall
       /\ now = "halt" => named'["boxName"] \in {NoCall, victim'[d]}

LEMMA BoxStep ==
  ASSUME BackendInv, provider \in Boxlite, NEW c \in Calls, NEW at, Works(c, at), OnlyOf(c),
         ProcTypes', FileTypes', BoxTypes',
         call[c].op = "remove" /\ at = "done" /\ ~muddled' /\ ~IsShared => ~Alive(In(c))',
         OwnBoxes /\ OwnBoxes' => OwnBoxAfter(c, at),
         provider # "shared" /\ ~muddled' => OneBoxAfter(c, at),
         provider = "common" /\ ~muddled' => OneNameAfter(c, at)
  PROVE  BackendInv'
<1>1. /\ \A d \in Calls : /\ call'[d].at = IF d = c THEN at ELSE call[d].at
                          /\ call'[d].inst = call[d].inst
      /\ provider' = provider /\ (muddled => muddled')
  BY DEF Works, Moved
<1>2. at # "idle" /\ call[c].at # "idle"
  BY WorksAt DEF Works, Over
<1>3. ASSUME OwnBoxes'
      PROVE  OwnBox'
  <2>1. OwnBoxAfter(c, at)
    BY <1>1, <1>3 DEF OwnBoxes
  <2>2. QED
    BY <1>1, <1>2, <2>1 DEF OwnBox, OwnBoxAfter, In, Idle, At
<1>4. ASSUME provider # "shared", ~muddled'
      PROVE  OneBox'
  <2>1. OneBoxAfter(c, at) /\ OneBox
    BY <1>1, <1>4 DEF BackendInv, BoxInv, Boxlite
  <2>2. \A d, e \in Calls : Ensuring(d)' /\ Ensuring(e)' => d = e
    BY <1>1, <2>1 DEF OneBox, OneBoxAfter, Ensuring
  <2>3. \A d \in Calls : /\ call'[d].at \in {"make", "create"} => box' = NoCall
                         /\ call'[d].at = "halt" => box' \in {victim'[d], NoCall}
    BY <1>1, <2>1 DEF OneBoxAfter
  <2>4. ASSUME NEW p \in Calls, proc'[p] = "live", home'[p] # box'
        PROVE  \E d \in Calls : call'[d].at = "stopping" /\ victim'[d] = home'[p] /\ call'[d].inst = call'[p].inst
    BY <1>1, <2>1, <2>4 DEF OneBoxAfter, In
  <2>5. QED
    BY <2>2, <2>3, <2>4 DEF OneBox, In, At
<1>5. ASSUME provider = "common", ~muddled'
      PROVE  OneName'
  <2>1. OneNameAfter(c, at)
    BY <1>5
  <2>2. named'["boxName"] \in Calls =>
          \/ box' = named'["boxName"]
          \/ \E d \in Calls : call'[d].at = "stopping" /\ victim'[d] = named'["boxName"]
    BY <1>1, <2>1 DEF OneNameAfter
  <2>3. \A d \in Calls : /\ call'[d].at \in {"make", "create"} => named'["boxName"] = NoCall
                         /\ call'[d].at = "halt" => named'["boxName"] \in {NoCall, victim'[d]}
    BY <1>1, <2>1 DEF OneNameAfter
  <2>4. QED
    BY <2>2, <2>3 DEF OneName, At
<1>6. BoxInv'
  BY <1>1, <1>3, <1>4, <1>5 DEF BoxInv
<1>7. provider \notin Native /\ MapInv' /\ (Tracked' => ~muddled')
  BY <1>1, Kinds, NoMap DEF BackendInv, Tracked
<1>8. QED
  BY <1>6, <1>7, Kinds, StepKeeps DEF BackendInv

\* What a call of BoxLite may be about, and what holds of the boxes before it.
LEMMA BoxWorkers ==
  ASSUME BackendInv, provider \in Boxlite, NEW c \in Calls, ~Over(c)
  PROVE  /\ In(c) \in Insts /\ call[c].op \in Ops \ {"openInit"}
         /\ BoxPlace(call[c].op, call[c].at)
         /\ \A at : BoxPlace(call[c].op, at) => WorkPlace(provider, call[c].op, at)
         /\ call[c].op # "exec" => latest[In(c)] = c
         /\ OwnBoxes => OwnBox /\ provider # "shared"
         /\ provider # "shared" /\ ~muddled => OneBox /\ OwnBoxes
         /\ provider = "common" /\ ~muddled => OneName
<1>1. /\ In(c) \in Insts /\ call[c].op \in Ops /\ (call[c].op # "exec" => latest[In(c)] = c)
      /\ WorkPlace(provider, call[c].op, call[c].at)
      /\ call[c].op # "openInit" \/ provider = "container"
  BY Working
<1>2. provider \notin Native /\ provider # "container"
  BY Kinds DEF BackendInv
<1>3. BoxPlace(call[c].op, call[c].at) /\ \A at : BoxPlace(call[c].op, at) => WorkPlace(provider, call[c].op, at)
  BY <1>1, <1>2 DEF WorkPlace
<1>4. /\ OwnBoxes => OwnBox /\ provider # "shared"
      /\ provider # "shared" /\ ~muddled => OneBox /\ OwnBoxes
      /\ provider = "common" /\ ~muddled => OneName
  BY DEF BackendInv, BoxInv, Boxlite, OwnBoxes
<1>5. QED
  BY <1>1, <1>2, <1>3, <1>4

\* A stop waits for no other call of its instance that could make a box.
LEMMA StopsAlone ==
  ASSUME BackendInv, NEW c \in Calls, NEW d \in Calls, ~Over(c), call[c].op # "exec",
         call[d].at = "stopping", In(c) = In(d)
  PROVE  c = d
<1>1. ~Over(d)
  BY DEF Over
<1>2. provider \in Boxlite
  BY PlaceOf
<1>3. call[d].op # "exec"
  BY <1>1, <1>2, BoxWorkers DEF BoxPlace, EnsurePlaces
<1>4. QED
  BY <1>1, <1>3, Working

\* A step that changes no process and no box.
LEMMA BoxQuiet ==
  ASSUME BackendInv, provider \in Boxlite, NEW c \in Calls, NEW at, ~Over(c), Goto(c, at),
         at \in {"done", "failed"} \/ BoxPlace(call[c].op, at), call[c].op \notin {"stop", "remove"},
         at \notin {"stopping", "halt", "make"}, at = "create" => call[c].at = "make",
         UNCHANGED <<provider, latest, restarts, procVars, file, read, named, box, meta, victim, muddled>>
  PROVE  BackendInv'
<1>1. /\ \A e : BoxPlace(call[c].op, e) => WorkPlace(provider, call[c].op, e)
      /\ BoxPlace(call[c].op, call[c].at)
      /\ OwnBoxes => OwnBox /\ provider # "shared"
      /\ provider # "shared" /\ ~muddled => OneBox /\ OwnBoxes
      /\ provider = "common" /\ ~muddled => OneName
  BY BoxWorkers
<1>2. call[c].at # "stopping"
  BY <1>1 DEF BoxPlace, EnsurePlaces
<1>3. Works(c, at)
  <2>1. UNCHANGED <<provider, latest, restarts>> /\ (muddled => muddled')
    OBVIOUS
  <2>2. at \in {"done", "failed"} \/ WorkPlace(provider, call[c].op, at)
    BY <1>1
  <2>3. QED
    BY <2>1, <2>2, GoesOn
<1>4. OnlyOf(c) /\ ProcTypes' /\ FileTypes' /\ BoxTypes'
  BY DEF OnlyOf, BackendInv, ProcTypes, FileTypes, BoxTypes, procVars
<1>5. OwnBoxes /\ OwnBoxes' => OwnBoxAfter(c, at)
  BY <1>1 DEF OwnBox, OwnBoxAfter, In, Idle, At, procVars
<1>6. provider # "shared" /\ ~muddled' => OneBoxAfter(c, at)
  <2> SUFFICES ASSUME OneBox
               PROVE  OneBoxAfter(c, at)
    BY <1>1
  <2>1. at = "create" => Ensuring(c) /\ box = NoCall
    BY DEF OneBox, Ensuring
  <2>2. \A p \in Calls : proc'[p] = "live" =>
          \/ home'[p] = box'
          \/ \E d \in Calls : /\ (IF d = c THEN at ELSE call[d].at) = "stopping"
                              /\ victim'[d] = home'[p] /\ In(d) = In(p)
    BY <1>2 DEF OneBox, At, procVars
  <2>3. \A d \in Calls \ {c} : /\ call[d].at \in {"make", "create"} => box' = NoCall
                               /\ call[d].at = "halt" => box' \in {victim'[d], NoCall}
    BY DEF OneBox, At
  <2>4. at \in {"halt", "make", "create"} => \A d \in Calls \ {c} : ~Ensuring(d)
    BY <2>1 DEF OneBox
  <2>5. QED
    BY <2>1, <2>2, <2>3, <2>4 DEF OneBoxAfter
<1>7. provider = "common" /\ ~muddled' => OneNameAfter(c, at)
  BY <1>1, <1>2 DEF OneName, OneNameAfter, At
<1>8. QED
  BY <1>3, <1>4, <1>5, <1>6, <1>7, BoxStep

LEMMA BoxQuietSteps ==
  ASSUME BackendInv, NEW c \in Calls,
         BoxInspect(c) \/ BoxEnsure(c) \/ BootedAlready(c) \/ CheckBootstrap(c) \/ InstallBootstrap(c)
  PROVE  BackendInv'
<1> DEFINE Same == UNCHANGED <<provider, latest, restarts, procVars, file, read, named, box, meta, victim, muddled>>
<1>1. PICK at : /\ Goto(c, at) /\ Same
                /\ \/ call[c].at = "inspect" /\ at \in {"boot", "box"}
                   \/ call[c].at = "ensure" /\ provider \in Boxlite /\ at \in {"done", "box"}
                   \/ call[c].at \in {"boot", "install"} /\ at \in {"exec", "install", "failed"}
  <2>1. CASE BoxInspect(c)
    BY <2>1 DEF BoxInspect, boxRest, nativeVars, worldVars, boxVars, At
  <2>2. CASE BoxEnsure(c)
    BY <2>2 DEF BoxEnsure, boxRest, nativeVars, worldVars, boxVars, At
  <2>3. CASE BootedAlready(c)
    BY <2>3 DEF BootedAlready, boxRest, nativeVars, worldVars, boxVars, At
  <2>4. CASE CheckBootstrap(c)
    <3>1. PICK result \in {"zero", "nonzero", "thrown"} :
            Bootstrapping(c, result, [zero |-> "exec", nonzero |-> "install", thrown |-> "failed"][result])
      BY <2>4 DEF CheckBootstrap, Commanded
    <3>2. [zero |-> "exec", nonzero |-> "install", thrown |-> "failed"][result] \in {"exec", "install", "failed"}
      OBVIOUS
    <3>3. QED
      BY <2>4, <3>1, <3>2 DEF CheckBootstrap, Bootstrapping, boxRest, nativeVars, worldVars, At
  <2>5. CASE InstallBootstrap(c)
    BY <2>5 DEF InstallBootstrap, Bootstrapping, boxRest, nativeVars, worldVars, At
  <2>6. QED
    BY <2>1, <2>2, <2>3, <2>4, <2>5
<1>2. provider \in Boxlite /\ ~Over(c)
  BY <1>1, PlaceOf DEF Over
<1>3. BoxPlace(call[c].op, call[c].at)
  BY <1>2, BoxWorkers
<1>4. /\ at \in {"done", "failed"} \/ BoxPlace(call[c].op, at)
      /\ call[c].op \notin {"stop", "remove"} /\ at \notin {"stopping", "halt", "make", "create"}
  BY <1>1, <1>3 DEF BoxPlace, EnsurePlaces
<1>5. QED
  BY <1>1, <1>2, <1>4, BoxQuiet

LEMMA EnsureBoxKeeps ==
  ASSUME BackendInv, NEW c \in Calls, EnsureBox(c)
  PROVE  BackendInv'
<1>1. /\ call[c].at = "box"
      /\ muddled' = (muddled \/ \E d \in Calls : Ensuring(d) \/ (provider = "common" /\ At(d, "stopping")))
      /\ UNCHANGED <<provider, latest, restarts, proc, home, agent, file, read, named, box, meta>>
  BY DEF EnsureBox, boxRest, procVars, nativeVars, worldVars, At
<1>2. PICK at : /\ Goto(c, at)
                /\ \/ at = "make" /\ box = NoCall /\ victim' = victim
                   \/ at = AfterEnsure(c) /\ IsShared /\ victim' = victim
                   \/ at = "halt" /\ box # NoCall /\ victim' = [victim EXCEPT ![c] = box]
  BY DEF EnsureBox
<1>3. provider \in Boxlite /\ ~Over(c)
  BY <1>1, PlaceOf DEF Over
<1>4. /\ \A e : BoxPlace(call[c].op, e) => WorkPlace(provider, call[c].op, e)
      /\ BoxPlace(call[c].op, "box")
      /\ OwnBoxes => OwnBox /\ provider # "shared"
      /\ provider # "shared" /\ ~muddled => OneBox /\ OwnBoxes
      /\ provider = "common" /\ ~muddled => OneName
  BY <1>1, <1>3, BoxWorkers
<1>5. Works(c, at) /\ call[c].op # "remove" /\ at # "stopping"
  <2>1. /\ at = "done" \/ BoxPlace(call[c].op, at)
        /\ call[c].op # "remove" /\ at # "stopping"
    BY <1>2, <1>4 DEF BoxPlace, EnsurePlaces, AfterEnsure
  <2>2. Goto(c, at) /\ UNCHANGED <<provider, latest, restarts>> /\ (muddled => muddled')
    BY <1>1, <1>2
  <2>3. at \in {"done", "failed"} \/ WorkPlace(provider, call[c].op, at)
    BY <1>4, <2>1
  <2>4. QED
    BY <1>3, <2>1, <2>2, <2>3, GoesOn
<1>6. OnlyOf(c) /\ ProcTypes' /\ FileTypes' /\ BoxTypes'
  BY <1>1, <1>2 DEF OnlyOf, BackendInv, ProcTypes, FileTypes, BoxTypes
<1>7. OwnBoxes /\ OwnBoxes' => OwnBoxAfter(c, at)
  BY <1>1, <1>4, <1>5 DEF OwnBox, OwnBoxAfter, In, Idle, At
<1>8. provider # "shared" /\ ~muddled' => OneBoxAfter(c, at)
  <2> SUFFICES ASSUME provider # "shared", ~muddled'
               PROVE  OneBoxAfter(c, at)
    OBVIOUS
  <2>1. OneBox /\ \A d \in Calls : ~Ensuring(d)
    BY <1>1, <1>4
  <2>2. \A d \in Calls \ {c} : victim'[d] = victim[d] /\ call[d].at \notin {"halt", "make", "create"}
    BY <1>2, <2>1 DEF Ensuring, BackendInv, BoxTypes
  <2>3. at \in {"halt", "make"} /\ (at = "halt" => victim'[c] = box) /\ (at = "make" => box = NoCall)
    BY <1>2 DEF IsShared, BackendInv, BoxTypes
  <2>4. \A p \in Calls : proc'[p] = "live" =>
          \/ home'[p] = box'
          \/ \E d \in Calls : /\ (IF d = c THEN at ELSE call[d].at) = "stopping"
                              /\ victim'[d] = home'[p] /\ In(d) = In(p)
    BY <1>1, <2>1, <2>2 DEF OneBox, At
  <2>5. QED
    BY <1>1, <2>1, <2>2, <2>3, <2>4 DEF OneBoxAfter
<1>9. ASSUME provider = "common", ~muddled'
      PROVE  OneNameAfter(c, at)
  <2>1. OneName /\ \A d \in Calls : ~Ensuring(d) /\ call[d].at # "stopping"
    BY <1>1, <1>4, <1>9 DEF At
  <2>2. named["boxName"] \in Calls => box = named["boxName"]
    BY <2>1 DEF OneName, At
  <2>3. named["boxName"] \in CallOrNone /\ named' = named /\ box' = box
    BY <1>1 DEF BackendInv, BoxTypes
  <2>4. at \in {"halt", "make"} /\ (at = "halt" => victim'[c] = box) /\ (at = "make" => box = NoCall)
    BY <1>2, <1>9 DEF IsShared, BackendInv, BoxTypes
  <2>5. \A d \in Calls \ {c} : call[d].at \notin {"halt", "make", "create"}
    BY <2>1 DEF Ensuring
  <2>6. named["boxName"] \in {NoCall, box}
    BY <2>2, <2>3 DEF CallOrNone
  <2>7. QED
    BY <2>2, <2>3, <2>4, <2>5, <2>6 DEF OneNameAfter
<1>10. QED
  BY <1>3, <1>5, <1>6, <1>7, <1>8, <1>9, BoxStep

LEMMA HaltedEffect ==
  ASSUME ProcTypes, BoxTypes, NEW h, Halted(h)
  PROVE  /\ Fewer /\ \A p \in Calls : proc'[p] = "live" => home[p] # h
         /\ \A n \in Insts \cup {"boxName"} : named'[n] = named[n] \/ named'[n] = NoCall
         /\ \A n \in Insts \cup {"boxName"} : named[n] # h => named'[n] = named[n]
         /\ named["boxName"] = h => named'["boxName"] = NoCall
         /\ named' \in [Insts \cup {"boxName"} -> CallOrNone]
<1>1. Fewer /\ \A p \in Calls : proc'[p] = "live" => home[p] # h
  BY GoneEffect DEF Halted
<1>2. named' = [n \in Insts \cup {"boxName"} |-> IF named[n] = h THEN NoCall ELSE named[n]]
  BY DEF Halted, BoxTypes
<1>3. QED
  BY <1>1, <1>2 DEF BoxTypes, CallOrNone

\* The box of another instance stops, or not.
LEMMA HaltPreviousKeeps ==
  ASSUME BackendInv, NEW c \in Calls, HaltPrevious(c)
  PROVE  BackendInv'
<1>1. /\ call[c].at = "halt" /\ box' = NoCall /\ Goto(c, "make")
      /\ \/ Halted(victim[c]) /\ muddled' = muddled
         \/ UNCHANGED <<proc, named>> /\ muddled' = TRUE
      /\ UNCHANGED <<provider, latest, restarts, home, agent, file, read, meta, victim>>
  BY DEF HaltPrevious, boxRest, nativeVars, worldVars, At
<1>2. provider \in Boxlite /\ ~Over(c)
  BY <1>1, PlaceOf DEF Over
<1>3. /\ BoxPlace(call[c].op, "halt")
      /\ \A e : BoxPlace(call[c].op, e) => WorkPlace(provider, call[c].op, e)
      /\ OwnBoxes => OwnBox /\ provider # "shared"
      /\ provider # "shared" /\ ~muddled => OneBox /\ OwnBoxes
      /\ provider = "common" /\ ~muddled => OneName
  BY <1>1, <1>2, BoxWorkers
<1>4. Works(c, "make") /\ call[c].op # "remove"
  <2>1. BoxPlace(call[c].op, "make") /\ call[c].op # "remove"
    BY <1>3 DEF BoxPlace, EnsurePlaces
  <2>2. QED
    BY <1>1, <1>2, <1>3, <2>1, GoesOn
<1>5. /\ Fewer /\ \A n \in Insts \cup {"boxName"} : named'[n] = named[n] \/ named'[n] = NoCall
      /\ named' \in [Insts \cup {"boxName"} -> CallOrNone]
      /\ ~muddled' => /\ ~muddled /\ \A p \in Calls : proc'[p] = "live" => home[p] # victim[c]
                      /\ named'["boxName"] # NoCall => named["boxName"] # victim[c]
  <2>1. CASE Halted(victim[c]) /\ muddled' = muddled
    <3>1. /\ Fewer /\ \A p \in Calls : proc'[p] = "live" => home[p] # victim[c]
          /\ \A n \in Insts \cup {"boxName"} : named'[n] = named[n] \/ named'[n] = NoCall
          /\ named["boxName"] = victim[c] => named'["boxName"] = NoCall
          /\ named' \in [Insts \cup {"boxName"} -> CallOrNone]
      BY <2>1, HaltedEffect DEF BackendInv
    <3>2. named'["boxName"] # NoCall => named["boxName"] # victim[c]
      BY <3>1
    <3>3. QED
      BY <2>1, <3>1, <3>2
  <2>2. CASE UNCHANGED <<proc, named>> /\ muddled' = TRUE
    BY <2>2 DEF BackendInv, ProcTypes, BoxTypes, Fewer
  <2>3. QED
    BY <1>1, <2>1, <2>2
<1>6. OnlyOf(c) /\ ProcTypes' /\ FileTypes' /\ BoxTypes'
  BY <1>1, <1>5 DEF OnlyOf, BackendInv, ProcTypes, FileTypes, BoxTypes, Fewer, CallOrNone
<1>7. OwnBoxes /\ OwnBoxes' => OwnBoxAfter(c, "make")
  BY <1>1, <1>3, <1>5, NoCallIsNone DEF OwnBox, OwnBoxAfter, In, Idle, At, Fewer
<1>8. provider # "shared" /\ ~muddled' => OneBoxAfter(c, "make")
  <2> SUFFICES ASSUME provider # "shared", ~muddled'
               PROVE  OneBoxAfter(c, "make")
    OBVIOUS
  <2>1. OneBox /\ OwnBox
    BY <1>3, <1>5
  <2>2. \A d \in Calls \ {c} : ~Ensuring(d)
    BY <1>1, <2>1 DEF OneBox, Ensuring
  <2>3. ASSUME NEW p \in Calls, proc'[p] = "live"
        PROVE  \E d \in Calls : /\ (IF d = c THEN "make" ELSE call[d].at) = "stopping"
                                /\ victim'[d] = home'[p] /\ In(d) = In(p)
    <3>1. proc[p] = "live" /\ home[p] # victim[c] /\ home[p] \in Calls
      BY <1>5, <2>1, <2>3 DEF Fewer, OwnBox
    <3>2. box \in {victim[c], NoCall}
      BY <1>1, <2>1 DEF OneBox, At
    <3>3. home[p] # box
      BY <3>1, <3>2, NoCallIsNone
    <3>4. PICK d \in Calls : At(d, "stopping") /\ victim[d] = home[p] /\ In(d) = In(p)
      BY <2>1, <3>1, <3>3 DEF OneBox
    <3>5. QED
      BY <1>1, <3>4 DEF At
  <2>4. QED
    BY <1>1, <2>2, <2>3 DEF OneBoxAfter, Ensuring
<1>9. ASSUME provider = "common", ~muddled'
      PROVE  OneNameAfter(c, "make")
  <2>1. OneName /\ OneBox
    BY <1>3, <1>5, <1>9
  <2>2. named["boxName"] \in {NoCall, victim[c]}
    BY <1>1, <2>1 DEF OneName, At
  <2>3. named'["boxName"] = NoCall
    BY <1>5, <1>9, <2>2
  <2>4. QED
    BY <2>3, NoCallIsNone DEF OneNameAfter
<1>10. QED
  BY <1>2, <1>4, <1>6, <1>7, <1>8, <1>9, BoxStep

\* The proxy has a box again, of the instance of the call that makes or finds it.
LEMMA AdoptKeeps ==
  ASSUME BackendInv, provider \in Boxlite, NEW c \in Calls, NEW b \in Calls,
         call[c].at \in {"make", "create"}, Adopt(c, b),
         OwnBoxes => In(b) = In(c) /\ ~Idle(b),
         named' \in [Insts \cup {"boxName"} -> CallOrNone],
         provider \in {"simple", "named"} =>
           \A i \in Insts : named'[i] = named[i] \/ (i = In(c) /\ named'[i] = c),
         provider = "common" /\ ~muddled => named'["boxName"] = b,
         UNCHANGED <<provider, latest, restarts, procVars, file, read, victim, muddled>>
  PROVE  BackendInv'
<1> DEFINE at == AfterEnsure(c)
<1>1. box' = b /\ meta' = In(c) /\ Goto(c, at)
  BY DEF Adopt
<1>2. ~Over(c) /\ ~Idle(c)
  BY DEF Over, Idle, At
<1>3. /\ BoxPlace(call[c].op, call[c].at) /\ In(c) \in Insts
      /\ \A e : BoxPlace(call[c].op, e) => WorkPlace(provider, call[c].op, e)
      /\ OwnBoxes => OwnBox /\ provider # "shared"
      /\ provider # "shared" /\ ~muddled => OneBox /\ OwnBoxes
      /\ provider = "common" /\ ~muddled => OneName
  BY <1>2, BoxWorkers
<1>4. /\ at \in {"done", "boot"} /\ call[c].op \notin {"remove", "exec"}
      /\ at = "done" \/ BoxPlace(call[c].op, at)
  BY <1>3 DEF BoxPlace, EnsurePlaces, AfterEnsure
<1> HIDE DEF at
<1>5. Works(c, at)
  <2>1. UNCHANGED <<provider, latest, restarts>> /\ (muddled => muddled')
    OBVIOUS
  <2>2. at \in {"done", "failed"} \/ WorkPlace(provider, call[c].op, at)
    BY <1>3, <1>4
  <2>3. QED
    BY <1>1, <1>2, <2>1, <2>2, GoesOn
<1>6. OnlyOf(c) /\ ProcTypes' /\ FileTypes' /\ BoxTypes'
  BY <1>1 DEF OnlyOf, BackendInv, ProcTypes, FileTypes, BoxTypes, procVars, CallOrNone
<1>7. OwnBoxes /\ OwnBoxes' => OwnBoxAfter(c, at)
  <2> SUFFICES ASSUME OwnBoxes
               PROVE  OwnBoxAfter(c, at)
    OBVIOUS
  <2>1. OwnBox
    BY <1>3
  <2>2. \A d \in Calls : (IF d = c THEN at ELSE call[d].at) = "stopping" => In(d) # In(c)
    BY <1>2, <1>4, StopsAlone
  <2>3. In(b) = In(c) /\ ~Idle(b)
    OBVIOUS
  <2>4. provider # "common" =>
          \A i \in Insts : named'[i] \in Calls => call[named'[i]].inst = i /\ call[named'[i]].at # "idle"
    BY <1>2, <2>1 DEF OwnBox, OwnBoxes, In, Idle, At
  <2>5. QED
    BY <1>1, <2>1, <2>2, <2>3, <2>4 DEF OwnBox, OwnBoxAfter, In, Idle, At, procVars
<1>8. provider # "shared" /\ ~muddled' => OneBoxAfter(c, at)
  <2> SUFFICES ASSUME provider # "shared", ~muddled
               PROVE  OneBoxAfter(c, at)
    OBVIOUS
  <2>1. OneBox /\ OwnBox
    BY <1>3
  <2>2. box = NoCall /\ \A d \in Calls \ {c} : ~Ensuring(d)
    BY <2>1 DEF OneBox, Ensuring
  <2>3. ASSUME NEW p \in Calls, proc'[p] = "live"
        PROVE  \E d \in Calls : /\ (IF d = c THEN at ELSE call[d].at) = "stopping"
                                /\ victim'[d] = home'[p] /\ In(d) = In(p)
    <3>1. proc[p] = "live" /\ home[p] \in Calls /\ home[p] # box /\ home' = home
      BY <2>1, <2>2, <2>3, NoCallIsNone DEF OwnBox, procVars
    <3>2. PICK d \in Calls : At(d, "stopping") /\ victim[d] = home[p] /\ In(d) = In(p)
      BY <2>1, <3>1 DEF OneBox
    <3>3. d # c
      BY <3>2 DEF At
    <3>4. QED
      BY <3>1, <3>2, <3>3 DEF At
  <2>4. QED
    BY <1>4, <2>2, <2>3 DEF OneBoxAfter, Ensuring
<1>9. ASSUME provider = "common", ~muddled'
      PROVE  OneNameAfter(c, at)
  <2>1. named'["boxName"] = box'
    BY <1>1, <1>9
  <2>2. \A d \in Calls \ {c} : ~Ensuring(d)
    BY <1>3, <1>9 DEF OneBox, Ensuring
  <2>3. QED
    BY <1>4, <2>1, <2>2 DEF OneNameAfter, Ensuring
<1>10. QED
  BY <1>4, <1>5, <1>6, <1>7, <1>8, <1>9, BoxStep

LEMMA MakeSteps ==
  ASSUME BackendInv, NEW c \in Calls, SimpleBox(c) \/ GetBox(c) \/ CreateBox(c)
  PROVE  BackendInv'
<1>1. /\ call[c].at \in {"make", "create"} /\ (call[c].at = "create" => CreateBox(c))
      /\ UNCHANGED <<provider, latest, restarts, procVars, file, read, victim, muddled>>
  BY DEF SimpleBox, GetBox, CreateBox, boxRest, nativeVars, At
<1>2. provider \in Boxlite /\ ~Over(c)
  BY <1>1, PlaceOf DEF Over
<1>3. /\ BoxPlace(call[c].op, call[c].at) /\ In(c) \in Insts
      /\ \A e : BoxPlace(call[c].op, e) => WorkPlace(provider, call[c].op, e)
      /\ OwnBoxes => OwnBox
      /\ provider = "common" /\ ~muddled => OneName
  BY <1>2, BoxWorkers
<1>4. ~Idle(c) /\ call[c].op \notin {"stop", "remove"} /\ BoxPlace(call[c].op, "create")
  BY <1>1, <1>3 DEF BoxPlace, EnsurePlaces, Idle, At
<1>5. /\ named \in [Insts \cup {"boxName"} -> CallOrNone] /\ BoxName(In(c)) \in Insts \cup {"boxName"}
      /\ provider \in {"simple", "named"} => BoxName(In(c)) = In(c)
      /\ provider = "common" => BoxName(In(c)) = "boxName"
  BY <1>3 DEF BackendInv, BoxTypes, BoxName
<1>6. CASE SimpleBox(c)
  <2>1. Adopt(c, c) /\ named' = named /\ provider = "simple"
    BY <1>6 DEF SimpleBox
  <2>2. QED
    BY <1>1, <1>2, <1>4, <1>5, <2>1, AdoptKeeps
<1>7. CASE GetBox(c)
  <2>1. named' = named /\ call[c].at = "make"
    BY <1>7 DEF GetBox, worldVars, At
  <2>2. CASE named[BoxName(In(c))] # NoCall
    <3>1. Adopt(c, named[BoxName(In(c))]) /\ named[BoxName(In(c))] \in Calls
      BY <1>5, <1>7, <2>2 DEF GetBox, CallOrNone
    <3>c. ~(provider = "common" /\ ~muddled)
      BY <1>3, <1>5, <2>1, <2>2 DEF OneName
    <3>2. OwnBoxes => In(named[BoxName(In(c))]) = In(c) /\ ~Idle(named[BoxName(In(c))])
      BY <1>3, <1>5, <3>1, <3>c DEF OwnBox, OwnBoxes
    <3>3. QED
      BY <1>1, <1>2, <1>5, <2>1, <3>1, <3>2, <3>c, AdoptKeeps
  <2>3. CASE named[BoxName(In(c))] = NoCall
    <3>1. Goto(c, "create") /\ UNCHANGED <<box, meta>>
      BY <1>7, <2>3 DEF GetBox
    <3>2. QED
      BY <1>1, <1>2, <1>4, <2>1, <3>1, BoxQuiet
  <2>4. QED
    BY <2>2, <2>3
<1>8. CASE CreateBox(c)
  <2>1. CASE named[BoxName(In(c))] # NoCall
    <3>1. Goto(c, "failed") /\ UNCHANGED <<named, box, meta>>
      BY <1>8, <2>1 DEF CreateBox, worldVars
    <3>2. QED
      BY <1>1, <1>2, <1>4, <3>1, BoxQuiet
  <2>2. CASE named[BoxName(In(c))] = NoCall
    <3>1. Adopt(c, c) /\ named' = [named EXCEPT ![BoxName(In(c))] = c]
      BY <1>8, <2>2 DEF CreateBox
    <3>2. named' \in [Insts \cup {"boxName"} -> CallOrNone]
      BY <1>5, <3>1 DEF CallOrNone
    <3>3. /\ provider \in {"simple", "named"} =>
               \A i \in Insts : named'[i] = named[i] \/ (i = In(c) /\ named'[i] = c)
          /\ provider = "common" => named'["boxName"] = c
      BY <1>5, <3>1
    <3>4. QED
      BY <1>1, <1>2, <1>4, <3>1, <3>2, <3>3, AdoptKeeps
  <2>3. QED
    BY <2>1, <2>2
<1>9. QED
  BY <1>6, <1>7, <1>8

LEMMA BoxExecKeeps ==
  ASSUME BackendInv, NEW c \in Calls, BoxExec(c)
  PROVE  BackendInv'
<1>1. /\ call[c].at = "exec" /\ provider \in Boxlite /\ ~Over(c)
      /\ UNCHANGED <<provider, latest, restarts, file, read, named, box, meta, victim, muddled>>
      /\ \/ Goto(c, "failed") /\ UNCHANGED procVars
         \/ Goto(c, "done") /\ UNCHANGED procVars
         \/ Goto(c, "done") /\ Start(c, box) /\ Running(In(c))
  BY DEF BoxExec, boxRest, nativeVars, worldVars, boxVars, At, Over
<1>2. /\ BoxPlace(call[c].op, "exec") /\ In(c) \in Insts
      /\ OwnBoxes => OwnBox /\ provider # "shared"
      /\ provider # "shared" /\ ~muddled => OneBox /\ OwnBoxes
      /\ provider = "common" /\ ~muddled => OneName
  BY <1>1, BoxWorkers
<1>3. call[c].op \notin {"stop", "remove"}
  BY <1>2 DEF BoxPlace, EnsurePlaces
<1>4. CASE UNCHANGED procVars /\ (Goto(c, "failed") \/ Goto(c, "done"))
  BY <1>1, <1>3, <1>4, BoxQuiet
<1>5. CASE Goto(c, "done") /\ Start(c, box) /\ Running(In(c))
  <2>1. box \in Calls /\ (OwnBoxes => meta = In(c))
    BY <1>2, <1>5 DEF Running, IsShared, BackendInv, BoxTypes, CallOrNone
  <2>2. Started(c, box)
    BY <1>2, <1>5, <2>1, StartEffect DEF BackendInv, CallOrNone
  <2>3. Works(c, "done")
    BY <1>1, <1>5, GoesOn
  <2>4. OnlyOf(c) /\ ProcTypes' /\ FileTypes' /\ BoxTypes'
    BY <1>1, <2>2 DEF Started, OnlyOf, BackendInv, FileTypes, BoxTypes
  <2>5. OwnBoxes /\ OwnBoxes' => OwnBoxAfter(c, "done")
    BY <1>1, <1>2, <2>1, <2>2 DEF OwnBox, OwnBoxAfter, Started, In, Idle, At
  <2>6. provider # "shared" /\ ~muddled' => OneBoxAfter(c, "done")
    <3> SUFFICES ASSUME OneBox
                 PROVE  OneBoxAfter(c, "done")
      BY <1>1, <1>2
    <3>1. ASSUME NEW p \in Calls, proc'[p] = "live", home'[p] # box'
          PROVE  \E d \in Calls : /\ (IF d = c THEN "done" ELSE call[d].at) = "stopping"
                                  /\ victim'[d] = home'[p] /\ In(d) = In(p)
      <4>1. p # c /\ proc[p] = "live" /\ home[p] # box /\ home'[p] = home[p]
        BY <1>1, <2>2, <3>1 DEF Started
      <4>2. QED
        BY <1>1, <4>1 DEF OneBox, At
    <3>2. QED
      BY <1>1, <3>1 DEF OneBox, OneBoxAfter, At
  <2>7. provider = "common" /\ ~muddled' => OneNameAfter(c, "done")
    BY <1>1, <1>2 DEF OneName, OneNameAfter, At
  <2>8. QED
    BY <1>1, <1>3, <2>3, <2>4, <2>5, <2>6, <2>7, BoxStep
<1>6. QED
  BY <1>1, <1>4, <1>5

\* Who still lives where his instance has stopped its box is lost to the proxy, and it knows.
LEMMA BoxStopKeeps ==
  ASSUME BackendInv, NEW c \in Calls, BoxStop(c)
  PROVE  BackendInv'
<1>1. /\ call[c].at = "stop" /\ provider \in Boxlite /\ ~Over(c)
      /\ UNCHANGED <<provider, latest, restarts, proc, home, agent, file, read, named, muddled>>
  BY DEF BoxStop, boxRest, procVars, nativeVars, worldVars, At, Over
<1>2. PICK at : /\ Goto(c, at)
                /\ \/ at = "done" /\ (IsShared \/ meta # In(c)) /\ UNCHANGED <<box, meta, victim>>
                   \/ /\ ~IsShared /\ meta = In(c) /\ box' = NoCall /\ meta' = "none"
                      /\ victim' = [victim EXCEPT ![c] = box]
                      /\ at = IF box = NoCall THEN "done" ELSE "stopping"
  BY DEF BoxStop, boxVars
<1>3. /\ BoxPlace(call[c].op, "stop") /\ In(c) \in Insts
      /\ \A e : BoxPlace(call[c].op, e) => WorkPlace(provider, call[c].op, e)
      /\ OwnBoxes => OwnBox /\ provider # "shared"
      /\ provider # "shared" /\ ~muddled => OneBox /\ OwnBoxes
      /\ provider = "common" /\ ~muddled => OneName
  BY <1>1, BoxWorkers
<1>4. call[c].op \in {"stop", "remove"} /\ at \in {"done", "stopping"}
  BY <1>2, <1>3 DEF BoxPlace, EnsurePlaces
<1>5. Works(c, at)
  <2>1. BoxPlace(call[c].op, "stopping")
    BY <1>4 DEF BoxPlace
  <2>2. WorkPlace(provider, call[c].op, "stopping")
    BY <1>3, <2>1
  <2>3. at \in {"done", "failed"} \/ WorkPlace(provider, call[c].op, at)
    BY <1>4, <2>2
  <2>4. QED
    BY <1>1, <1>2, <2>3, GoesOn
<1>6. OnlyOf(c) /\ ProcTypes' /\ FileTypes' /\ BoxTypes'
  BY <1>1, <1>2 DEF OnlyOf, BackendInv, ProcTypes, FileTypes, BoxTypes, CallOrNone
<1>7. \A d \in Calls \ {c} : victim'[d] = victim[d]
  BY <1>2 DEF BackendInv, BoxTypes
<1>8. OwnBoxes /\ OwnBoxes' => OwnBoxAfter(c, at)
  BY <1>1, <1>2, <1>3, NoCallIsNone DEF OwnBox, OwnBoxAfter, In, Idle, At
<1>9. ASSUME provider # "shared", ~muddled, NEW p \in Calls, proc[p] = "live"
      PROVE  \/ home[p] = box' /\ box' = box
             \/ at = "stopping" /\ victim'[c] = home[p] /\ In(c) = In(p)
             \/ \E d \in Calls \ {c} : call[d].at = "stopping" /\ victim'[d] = home[p] /\ In(d) = In(p)
  <2>1. OneBox /\ OwnBox
    BY <1>3, <1>9
  <2>2. CASE home[p] = box
    <3>1. box \in Calls /\ In(box) = meta /\ In(box) = In(p)
      BY <1>9, <2>1, <2>2 DEF OwnBox
    <3>2. QED
      BY <1>2, <2>2, <3>1, NoCallIsNone DEF BackendInv, BoxTypes
  <2>3. CASE home[p] # box
    <3>1. PICK d \in Calls : At(d, "stopping") /\ victim[d] = home[p] /\ In(d) = In(p)
      BY <1>9, <2>1, <2>3 DEF OneBox
    <3>2. d # c
      BY <1>1, <3>1 DEF At
    <3>3. QED
      BY <1>7, <3>1, <3>2 DEF At
  <2>4. QED
    BY <2>2, <2>3
<1>10. provider # "shared" /\ ~muddled' => OneBoxAfter(c, at)
  <2> SUFFICES ASSUME provider # "shared", ~muddled
               PROVE  OneBoxAfter(c, at)
    BY <1>1
  <2>1. OneBox
    BY <1>3
  <2>2. \A d \in Calls \ {c} : /\ call[d].at \in {"make", "create"} => box' = NoCall
                               /\ call[d].at = "halt" => box' \in {victim'[d], NoCall}
    BY <1>2, <1>7, <2>1 DEF OneBox, At
  <2>3. \A p \in Calls : proc'[p] = "live" =>
          \/ home'[p] = box'
          \/ \E d \in Calls : /\ (IF d = c THEN at ELSE call[d].at) = "stopping"
                              /\ victim'[d] = home'[p] /\ In(d) = In(p)
    BY <1>1, <1>9
  <2>4. QED
    BY <1>4, <2>2, <2>3 DEF OneBoxAfter
<1>11. at = "done" /\ ~muddled' /\ ~IsShared => ~Alive(In(c))'
  <2> SUFFICES ASSUME at = "done", ~muddled, provider # "shared", NEW i \in Insts, i = In(c), Alive(i)
               PROVE  FALSE
    <3>1. In(c)' = In(c)
      BY <1>5 DEF Works, Moved, In
    <3>2. QED
      BY <1>1, <1>3, <3>1 DEF Alive, IsShared
  <2>1. agent[i] \in Calls /\ proc[agent[i]] = "live" /\ In(agent[i]) = In(c)
    BY DEF Alive, BackendInv, Serial
  <2>2. \A d \in Calls \ {c} : call[d].at = "stopping" => In(d) # In(c)
    BY <1>1, <1>4, StopsAlone
  <2>3. home[agent[i]] = box /\ box' = box
    BY <1>9, <2>1, <2>2
  <2>4. box \in Calls /\ meta = In(c)
    BY <1>3, <2>1, <2>3 DEF OwnBox
  <2>5. QED
    BY <1>2, <2>3, <2>4, NoCallIsNone DEF IsShared
<1>12. ASSUME provider = "common", ~muddled'
       PROVE  OneNameAfter(c, at)
  <2>1. OneName /\ named' = named
    BY <1>1, <1>3, <1>12
  <2>2. \A d \in Calls \ {c} : /\ call[d].at \in {"make", "create"} => named'["boxName"] = NoCall
                               /\ call[d].at = "halt" => named'["boxName"] \in {NoCall, victim'[d]}
    BY <1>7, <2>1 DEF OneName, At
  <2>3. named'["boxName"] \in Calls =>
          \/ box' = named'["boxName"]
          \/ \E d \in Calls : /\ (IF d = c THEN at ELSE call[d].at) = "stopping"
                              /\ victim'[d] = named'["boxName"]
    <3> SUFFICES ASSUME named["boxName"] \in Calls, box' # named["boxName"]
                 PROVE  \E d \in Calls : /\ (IF d = c THEN at ELSE call[d].at) = "stopping"
                                         /\ victim'[d] = named["boxName"]
      BY <2>1
    <3>1. CASE box = named["boxName"]
      BY <1>2, <3>1, NoCallIsNone DEF BackendInv, BoxTypes
    <3>2. CASE box # named["boxName"]
      <4>1. PICK d \in Calls : At(d, "stopping") /\ victim[d] = named["boxName"]
        BY <2>1, <3>2 DEF OneName
      <4>2. d # c
        BY <1>1, <4>1 DEF At
      <4>3. QED
        BY <1>7, <4>1, <4>2 DEF At
    <3>3. QED
      BY <3>1, <3>2
  <2>4. QED
    BY <1>4, <2>2, <2>3 DEF OneNameAfter
<1>13. QED
  BY <1>1, <1>5, <1>6, <1>8, <1>10, <1>11, <1>12, BoxStep

LEMMA StopBoxKeeps ==
  ASSUME BackendInv, NEW c \in Calls, StopBox(c)
  PROVE  BackendInv'
<1>1. /\ call[c].at = "stopping" /\ Goto(c, "done") /\ ~Over(c)
      /\ \/ Halted(victim[c]) /\ muddled' = muddled
         \/ UNCHANGED <<proc, named>> /\ muddled' = TRUE
      /\ UNCHANGED <<provider, latest, restarts, home, agent, file, read, box, meta, victim>>
  BY DEF StopBox, boxRest, nativeVars, worldVars, boxVars, At, Over
<1>2. provider \in Boxlite
  BY <1>1, PlaceOf
<1>3. /\ BoxPlace(call[c].op, "stopping") /\ In(c) \in Insts
      /\ OwnBoxes => OwnBox /\ provider # "shared"
      /\ provider # "shared" /\ ~muddled => OneBox /\ OwnBoxes
      /\ provider = "common" /\ ~muddled => OneName
  BY <1>1, <1>2, BoxWorkers
<1>4. Works(c, "done") /\ call[c].op # "exec"
  BY <1>1, <1>3, GoesOn DEF BoxPlace, EnsurePlaces
<1>5. /\ Fewer /\ \A n \in Insts \cup {"boxName"} : named'[n] = named[n] \/ named'[n] = NoCall
      /\ named' \in [Insts \cup {"boxName"} -> CallOrNone]
      /\ ~muddled' => /\ ~muddled /\ \A p \in Calls : proc'[p] = "live" => home[p] # victim[c]
                      /\ named'["boxName"] # NoCall => named["boxName"] # victim[c]
  <2>1. CASE Halted(victim[c]) /\ muddled' = muddled
    <3>1. /\ Fewer /\ \A p \in Calls : proc'[p] = "live" => home[p] # victim[c]
          /\ \A n \in Insts \cup {"boxName"} : named'[n] = named[n] \/ named'[n] = NoCall
          /\ named["boxName"] = victim[c] => named'["boxName"] = NoCall
          /\ named' \in [Insts \cup {"boxName"} -> CallOrNone]
      BY <2>1, HaltedEffect DEF BackendInv
    <3>2. named'["boxName"] # NoCall => named["boxName"] # victim[c]
      BY <3>1
    <3>3. QED
      BY <2>1, <3>1, <3>2
  <2>2. CASE UNCHANGED <<proc, named>> /\ muddled' = TRUE
    BY <2>2 DEF BackendInv, ProcTypes, BoxTypes, Fewer
  <2>3. QED
    BY <1>1, <2>1, <2>2
<1>6. OnlyOf(c) /\ ProcTypes' /\ FileTypes' /\ BoxTypes'
  BY <1>1, <1>5 DEF OnlyOf, BackendInv, ProcTypes, FileTypes, BoxTypes, Fewer
<1>7. OwnBoxes /\ OwnBoxes' => OwnBoxAfter(c, "done")
  BY <1>1, <1>3, <1>5, NoCallIsNone DEF OwnBox, OwnBoxAfter, In, Idle, At, Fewer
<1>8. ASSUME provider # "shared", ~muddled', NEW p \in Calls, proc'[p] = "live"
      PROVE  \/ home[p] = box
             \/ \E d \in Calls \ {c} : call[d].at = "stopping" /\ victim[d] = home[p] /\ In(d) = In(p)
  <2>1. proc[p] = "live" /\ home[p] # victim[c] /\ OneBox
    BY <1>3, <1>5, <1>8 DEF Fewer
  <2>2. QED
    BY <2>1 DEF OneBox, At
<1>9. provider # "shared" /\ ~muddled' => OneBoxAfter(c, "done")
  <2> SUFFICES ASSUME provider # "shared", ~muddled'
               PROVE  OneBoxAfter(c, "done")
    OBVIOUS
  <2>1. OneBox
    BY <1>3, <1>5
  <2>2. \A p \in Calls : proc'[p] = "live" =>
          \/ home'[p] = box'
          \/ \E d \in Calls : /\ (IF d = c THEN "done" ELSE call[d].at) = "stopping"
                              /\ victim'[d] = home'[p] /\ In(d) = In(p)
    BY <1>1, <1>8
  <2>3. QED
    BY <1>1, <2>1, <2>2 DEF OneBox, OneBoxAfter, At
<1>10. ~muddled' /\ ~IsShared => ~Alive(In(c))'
  <2> SUFFICES ASSUME ~muddled', provider # "shared", NEW i \in Insts, i = In(c), Alive(i)'
               PROVE  FALSE
    <3>1. In(c)' = In(c)
      BY <1>4 DEF Works, Moved, In
    <3>2. QED
      BY <1>3, <3>1 DEF IsShared
  <2>1. /\ agent[i] \in Calls /\ proc'[agent[i]] = "live" /\ proc[agent[i]] = "live"
        /\ In(agent[i]) = In(c)
    BY <1>1, <1>5 DEF Alive, BackendInv, Serial, Fewer
  <2>2. \A d \in Calls \ {c} : call[d].at = "stopping" => In(d) # In(c)
    BY <1>1, <1>4, StopsAlone
  <2>3. home[agent[i]] = box
    BY <1>8, <2>1, <2>2
  <2>4. box \in Calls /\ In(box) = In(c)
    BY <1>3, <1>5, <2>1, <2>3 DEF OwnBox
  <2>5. QED
    BY <1>1, <1>3, <1>5, <2>4 DEF OwnBox, At
<1>11. ASSUME provider = "common", ~muddled'
       PROVE  OneNameAfter(c, "done")
  <2>1. OneName /\ named'["boxName"] \in {named["boxName"], NoCall}
    BY <1>3, <1>5, <1>11
  <2>2. named'["boxName"] \in Calls =>
          \/ box' = named'["boxName"]
          \/ \E d \in Calls \ {c} : call[d].at = "stopping" /\ victim'[d] = named'["boxName"]
    <3> SUFFICES ASSUME named'["boxName"] \in Calls, box # named'["boxName"]
                 PROVE  \E d \in Calls \ {c} : call[d].at = "stopping" /\ victim[d] = named'["boxName"]
      BY <1>1
    <3>1. named'["boxName"] = named["boxName"] /\ named["boxName"] # victim[c]
      BY <1>5, <1>11, <2>1, NoCallIsNone
    <3>2. QED
      BY <2>1, <3>1 DEF OneName, At
  <2>3. \A d \in Calls : /\ call[d].at \in {"make", "create"} => named'["boxName"] = NoCall
                         /\ call[d].at = "halt" => named'["boxName"] \in {NoCall, victim'[d]}
    BY <1>1, <2>1 DEF OneName, At
  <2>4. QED
    BY <2>2, <2>3 DEF OneNameAfter
<1>12. QED
  BY <1>2, <1>4, <1>6, <1>7, <1>9, <1>10, <1>11, BoxStep

-----------------------------------------------------------------------------
(* Containers.                                                               *)

LEMMA ContainerStep ==
  ASSUME BackendInv, provider = "container", NEW c \in Calls, NEW at, ~Over(c), Goto(c, at),
         at \in {"done", "failed"} \/ ContainerPlace(call[c].op, at), OnlyOf(c), ProcTypes',
         UNCHANGED <<provider, latest, restarts, file, read, muddled, box, victim>>,
         named' \in [Insts \cup {"boxName"} -> CallOrNone],
         \A p \in Calls : proc'[p] = "live" => /\ home'[p] \in Calls /\ named'[In(p)] = home'[p]
                                               /\ call[p].op = "openInit" => home'[p] = p,
         call[c].op = "remove" /\ at = "done" /\ ~muddled => ~Alive(In(c))'
  PROVE  BackendInv'
<1>1. Works(c, at)
  <2>1. UNCHANGED <<provider, latest, restarts>> /\ (muddled => muddled')
    OBVIOUS
  <2>2. at \in {"done", "failed"} \/ WorkPlace(provider, call[c].op, at)
    BY DEF WorkPlace
  <2>3. QED
    BY <2>1, <2>2, GoesOn
<1>2. FileTypes' /\ BoxTypes'
  BY DEF BackendInv, FileTypes, BoxTypes
<1>3. \A p \in Calls : call'[p].op = call[p].op /\ call'[p].inst = call[p].inst
  BY <1>1 DEF Works, Moved
<1>4. ContainerInv'
  BY <1>3 DEF ContainerInv, Contained, In
<1>5. provider \notin Native /\ provider \notin Boxlite /\ MapInv' /\ (Tracked' => ~muddled')
  BY <1>1, Kinds, NoMap DEF BackendInv, Tracked, Works
<1>6. QED
  BY <1>1, <1>2, <1>4, <1>5, StepKeeps DEF BackendInv

\* What a call about a container may be about, and whose container it is.
LEMMA ContainerWorkers ==
  ASSUME BackendInv, provider = "container", NEW c \in Calls, ~Over(c)
  PROVE  /\ In(c) \in Insts /\ ContainerPlace(call[c].op, call[c].at)
         /\ call[c].op # "exec" => latest[In(c)] = c
         /\ \A p \in Calls : proc[p] = "live" =>
              In(p) \in Insts /\ home[p] \in Calls /\ named[In(p)] = home[p]
              /\ (call[p].op = "openInit" => home[p] = p)
<1>1. ContainerPlace(call[c].op, call[c].at)
  BY Working, Kinds DEF WorkPlace, BackendInv
<1>2. \A p \in Calls : proc[p] = "live" => Contained(p) /\ ~Idle(p) /\ Placed(p)
  BY DEF BackendInv, ContainerInv, Serial, AllPlaced
<1>3. \A p \in Calls : proc[p] = "live" => In(p) \in Insts
  BY <1>2 DEF Placed, Idle, At, Nobody
<1>4. QED
  BY <1>1, <1>2, <1>3, Working DEF Contained

\* A step that starts no process and leaves the containers of those that run.
LEMMA ContainerQuiet ==
  ASSUME BackendInv, provider = "container", NEW c \in Calls, NEW at, ~Over(c), Goto(c, at),
         at \in {"done", "failed"} \/ ContainerPlace(call[c].op, at), Fewer,
         UNCHANGED <<provider, latest, restarts, home, agent, file, read, muddled, box, victim>>,
         named' \in [Insts \cup {"boxName"} -> CallOrNone],
         \A p \in Calls : proc'[p] = "live" /\ In(p) \in Insts => named'[In(p)] = named[In(p)],
         call[c].op = "remove" /\ at = "done" /\ ~muddled => ~Alive(In(c))'
  PROVE  BackendInv'
<1>1. OnlyOf(c) /\ ProcTypes'
  BY DEF OnlyOf, Fewer, BackendInv, ProcTypes
<1>2. \A p \in Calls : proc'[p] = "live" => /\ home'[p] \in Calls /\ named'[In(p)] = home'[p]
                                            /\ call[p].op = "openInit" => home'[p] = p
  BY ContainerWorkers DEF Fewer
<1>3. QED
  BY <1>1, <1>2, ContainerStep

LEMMA SameProcs ==
  ASSUME BackendInv, UNCHANGED proc
  PROVE  Fewer
BY DEF BackendInv, ProcTypes, Fewer

LEMMA ContainerQuietSteps ==
  ASSUME BackendInv, NEW c \in Calls, Inspect(c) \/ LookEnsure(c) \/ DockerStart(c) \/ DockerStop(c) \/ RunSleep(c)
  PROVE  BackendInv'
<1>1. /\ call[c].at \in {"look", "lookEnsure", "start", "dockerStop", "runSleep"}
      /\ UNCHANGED <<provider, latest, restarts, home, agent, file, read, muddled, box, victim>>
      /\ DockerStop(c) \/ UNCHANGED proc
      /\ RunSleep(c) \/ UNCHANGED named
  BY DEF Inspect, LookEnsure, DockerStart, DockerStop, RunSleep, StopsContainer, Docker, At, dockerRest,
         procVars, nativeVars, worldVars, boxVars
<1>2. provider = "container" /\ ~Over(c)
  BY <1>1, PlaceOf DEF Over
<1>3. /\ In(c) \in Insts /\ ContainerPlace(call[c].op, call[c].at)
      /\ \A p \in Calls : proc[p] = "live" =>
           In(p) \in Insts /\ home[p] \in Calls /\ named[In(p)] = home[p]
           /\ (call[p].op = "openInit" => home[p] = p)
  BY <1>2, ContainerWorkers
<1>4. call[c].op # "remove" /\ named \in [Insts \cup {"boxName"} -> CallOrNone]
  BY <1>1, <1>3 DEF ContainerPlace, BackendInv, BoxTypes
<1>5. CASE Inspect(c)
  <2>1. PICK at \in {"run", "rmFirst", "startAttach", "attach"} :
          /\ Goto(c, at) /\ call[c].at = "look"
          /\ at = "rmFirst" => call[c].op = "openInit"
          /\ at \in {"startAttach", "attach"} => call[c].op # "openInit"
    BY <1>5 DEF Inspect, Docker, At
  <2>2. ContainerPlace(call[c].op, at)
    BY <1>3, <2>1 DEF ContainerPlace
  <2>3. QED
    BY <1>1, <1>2, <1>4, <1>5, <2>1, <2>2, SameProcs, ContainerQuiet DEF Inspect, procVars, worldVars
<1>6. CASE LookEnsure(c)
  <2>1. PICK at \in {"runSleep", "start", "done"} : Goto(c, at) /\ call[c].at = "lookEnsure"
    BY <1>6 DEF LookEnsure, Docker, At
  <2>2. at = "done" \/ ContainerPlace(call[c].op, at)
    BY <1>3, <2>1 DEF ContainerPlace
  <2>3. QED
    BY <1>1, <1>2, <1>4, <1>6, <2>1, <2>2, SameProcs, ContainerQuiet DEF LookEnsure, procVars, worldVars
<1>7. CASE DockerStart(c)
  <2>1. (Goto(c, "failed") \/ Goto(c, "done")) /\ UNCHANGED <<proc, named>>
    BY <1>7 DEF DockerStart, procVars
  <2>2. QED
    BY <1>1, <1>2, <1>4, <2>1, SameProcs, ContainerQuiet
<1>8. CASE DockerStop(c)
  <2>1. Goto(c, "done") /\ named' = named /\ (UNCHANGED proc \/ Gone(named[In(c)]))
    BY <1>8 DEF DockerStop, StopsContainer, worldVars, procVars
  <2>2. Fewer
    BY <2>1, SameProcs, GoneEffect DEF BackendInv
  <2>3. QED
    BY <1>1, <1>2, <1>4, <2>1, <2>2, ContainerQuiet
<1>9. CASE RunSleep(c)
  <2>1. /\ UNCHANGED proc
        /\ \/ Goto(c, "failed") /\ named' = named
           \/ Goto(c, "done") /\ named[In(c)] = NoCall /\ named' = [named EXCEPT ![In(c)] = c]
    BY <1>9 DEF RunSleep, DockerRun, worldVars, procVars
  <2>2. /\ named' \in [Insts \cup {"boxName"} -> CallOrNone]
        /\ \A p \in Calls : proc'[p] = "live" /\ In(p) \in Insts => named'[In(p)] = named[In(p)]
    BY <1>3, <1>4, <2>1, NoCallIsNone DEF CallOrNone
  <2>3. QED
    BY <1>1, <1>2, <1>4, <2>1, <2>2, SameProcs, ContainerQuiet
<1>10. QED
  BY <1>5, <1>6, <1>7, <1>8, <1>9

\* docker rm -f, before a new container or for good.
LEMMA RmKeeps ==
  ASSUME BackendInv, NEW c \in Calls, RemoveBeforeInit(c) \/ RemoveContainer(c)
  PROVE  BackendInv'
<1>1. PICK at : /\ Goto(c, at)
                /\ \/ call[c].at = "rmFirst" /\ at = "run"
                   \/ call[c].at = "rm" /\ at \in {"done", "failed"}
                /\ at = "done" => Rm(c, at)
                /\ Rm(c, at) \/ UNCHANGED <<proc, named>>
                /\ UNCHANGED <<provider, latest, restarts, home, agent, file, read, muddled, box, victim>>
  BY DEF RemoveBeforeInit, RemoveContainer, Rm, RmFails, At, dockerRest, procVars, nativeVars, worldVars, boxVars
<1>2. provider = "container" /\ ~Over(c)
  BY <1>1, PlaceOf DEF Over
<1>3. /\ In(c) \in Insts /\ ContainerPlace(call[c].op, call[c].at)
      /\ \A p \in Calls : proc[p] = "live" =>
           In(p) \in Insts /\ home[p] \in Calls /\ named[In(p)] = home[p]
           /\ (call[p].op = "openInit" => home[p] = p)
  BY <1>2, ContainerWorkers
<1>4. at \in {"done", "failed"} \/ ContainerPlace(call[c].op, at)
  BY <1>1, <1>3 DEF ContainerPlace
<1>5. Rm(c, at) => (UNCHANGED <<proc, named>> /\ named[In(c)] = NoCall) \/ Halted(named[In(c)])
  BY DEF Rm, worldVars
<1>6. /\ Fewer /\ named' \in [Insts \cup {"boxName"} -> CallOrNone]
      /\ \A p \in Calls : proc'[p] = "live" => proc[p] = "live" /\ named'[In(p)] = named[In(p)]
      /\ \A p \in Calls : at = "done" /\ proc'[p] = "live" => In(p) # In(c)
  <2>1. CASE UNCHANGED <<proc, named>>
    <3>1. Fewer /\ named' \in [Insts \cup {"boxName"} -> CallOrNone]
      BY <2>1, SameProcs DEF BackendInv, BoxTypes
    <3>2. at = "done" => named[In(c)] = NoCall \/ Halted(named[In(c)])
      BY <1>1, <1>5
    <3>3. ASSUME Halted(named[In(c)])
          PROVE  \A p \in Calls : proc'[p] = "live" => home[p] # named[In(c)]
      <4>1. ProcTypes /\ BoxTypes
        BY DEF BackendInv
      <4>2. QED
        BY <3>3, <4>1, HaltedEffect
    <3>4. QED
      BY <1>3, <2>1, <3>1, <3>2, <3>3, NoCallIsNone
  <2>2. CASE Halted(named[In(c)])
    <3>1. /\ Fewer /\ \A p \in Calls : proc'[p] = "live" => home[p] # named[In(c)]
          /\ \A n \in Insts \cup {"boxName"} : named[n] # named[In(c)] => named'[n] = named[n]
          /\ named' \in [Insts \cup {"boxName"} -> CallOrNone]
      BY <2>2, HaltedEffect DEF BackendInv
    <3>2. \A p \in Calls : proc'[p] = "live" => proc[p] = "live"
      BY <3>1 DEF Fewer
    <3>3. QED
      BY <1>3, <3>1, <3>2
  <2>3. QED
    BY <1>1, <1>5, <2>1, <2>2
<1>7. call[c].op = "remove" /\ at = "done" /\ ~muddled => ~Alive(In(c))'
  <2> SUFFICES ASSUME at = "done", NEW i \in Insts, i = In(c), Alive(i)'
               PROVE  FALSE
    <3>1. In(c)' = In(c)
      <4>1. Works(c, at)
        BY <1>1, <1>2, <1>4, GoesOn DEF WorkPlace
      <4>2. QED
        BY <4>1 DEF Works, Moved, In
    <3>2. QED
      BY <1>3, <3>1
  <2>1. agent[i] \in Calls /\ proc'[agent[i]] = "live" /\ In(agent[i]) = In(c)
    BY <1>1 DEF Alive, BackendInv, Serial
  <2>2. QED
    BY <1>6, <2>1
<1>8. QED
  BY <1>1, <1>2, <1>4, <1>6, <1>7, ContainerQuiet

\* A process starts in the container that bears the name of its instance.
LEMMA StartSteps ==
  ASSUME BackendInv, NEW c \in Calls, RunAgent(c) \/ Attach(c) \/ DockerExec(c)
  PROVE  BackendInv'
<1>1. /\ call[c].at \in {"run", "startAttach", "attach", "dockerExec"}
      /\ UNCHANGED <<provider, latest, restarts, file, read, muddled, box, victim>>
      /\ \/ Goto(c, "failed") /\ UNCHANGED <<proc, home, agent, named>>
         \/ \E h : /\ Goto(c, "done") /\ Start(c, h)
                   /\ \/ call[c].at # "run" /\ h = named[In(c)] /\ h # NoCall /\ named' = named
                      \/ h = c /\ named[In(c)] = NoCall /\ named' = [named EXCEPT ![In(c)] = c]
  <2>1. CASE RunAgent(c)
    BY <2>1 DEF RunAgent, DockerRun, At, dockerRest, procVars, nativeVars, worldVars, boxVars
  <2>2. CASE Attach(c)
    BY <2>2 DEF Attach, At, dockerRest, procVars, nativeVars, worldVars, boxVars
  <2>3. CASE DockerExec(c)
    BY <2>3 DEF DockerExec, Status, At, dockerRest, procVars, nativeVars, worldVars, boxVars
  <2>4. QED
    BY <2>1, <2>2, <2>3
<1>2. provider = "container" /\ ~Over(c)
  BY <1>1, PlaceOf DEF Over
<1>3. /\ In(c) \in Insts /\ ContainerPlace(call[c].op, call[c].at)
      /\ \A p \in Calls : proc[p] = "live" =>
           In(p) \in Insts /\ home[p] \in Calls /\ named[In(p)] = home[p]
           /\ (call[p].op = "openInit" => home[p] = p)
  BY <1>2, ContainerWorkers
<1>4. /\ call[c].op # "remove" /\ (call[c].op = "openInit" => call[c].at = "run")
      /\ named \in [Insts \cup {"boxName"} -> CallOrNone]
  BY <1>1, <1>3 DEF ContainerPlace, BackendInv, BoxTypes
<1>5. CASE Goto(c, "failed") /\ UNCHANGED <<proc, home, agent, named>>
  BY <1>1, <1>2, <1>4, <1>5, SameProcs, ContainerQuiet
<1>6. ASSUME NEW h, Goto(c, "done"), Start(c, h),
             \/ call[c].at # "run" /\ h = named[In(c)] /\ h # NoCall /\ named' = named
             \/ h = c /\ named[In(c)] = NoCall /\ named' = [named EXCEPT ![In(c)] = c]
      PROVE  BackendInv'
  <2>1. /\ h \in Calls /\ named'[In(c)] = h /\ (call[c].op = "openInit" => h = c)
        /\ named' \in [Insts \cup {"boxName"} -> CallOrNone]
        /\ \A i \in Insts : named[i] # NoCall => named'[i] = named[i]
    BY <1>3, <1>4, <1>6 DEF CallOrNone
  <2>2. Started(c, h)
    BY <1>3, <1>6, <2>1, StartEffect DEF BackendInv, CallOrNone
  <2>3. OnlyOf(c) /\ ProcTypes'
    BY <2>2 DEF Started, OnlyOf
  <2>4. ASSUME NEW p \in Calls, proc'[p] = "live"
        PROVE  home'[p] \in Calls /\ named'[In(p)] = home'[p] /\ (call[p].op = "openInit" => home'[p] = p)
    <3>1. CASE p = c
      BY <2>1, <2>2, <3>1 DEF Started
    <3>2. CASE p # c
      BY <1>3, <2>1, <2>2, <2>4, <3>2, NoCallIsNone DEF Started
    <3>3. QED
      BY <3>1, <3>2
  <2>5. QED
    BY <1>1, <1>2, <1>4, <1>6, <2>1, <2>3, <2>4, ContainerStep
<1>7. QED
  BY <1>1, <1>5, <1>6

-----------------------------------------------------------------------------
(* A call begins.                                                            *)

LEMMA FirstPlace ==
  ASSUME CallTypes, NEW op \in Ops, op = "openInit" => provider = "container"
  PROVE  /\ WorkPlace(provider, op, FirstOf(op))
         /\ FirstOf(op) \in Places \ ({"idle", "done", "failed", "spawn", "kill", "halt", "make", "create", "stopping"}
                                     \cup Recording \cup Dropping)
<1>1. /\ provider \in Native => FirstOf(op) =
           [open |-> "mkdir", openInit |-> "mkdir", ensure |-> "ensure",
            exec |-> "exec", stop |-> "stop", remove |-> "lookup"][op]
      /\ provider \in Boxlite => FirstOf(op) =
           [open |-> "inspect", openInit |-> "inspect", ensure |-> "ensure",
            exec |-> "exec", stop |-> "stop", remove |-> "stop"][op]
      /\ provider = "container" => FirstOf(op) =
           [open |-> "look", openInit |-> "look", ensure |-> "lookEnsure",
            exec |-> "dockerExec", stop |-> "dockerStop", remove |-> "rm"][op]
  BY Kinds DEF FirstOf
<1>2. /\ provider \in Native \cup Boxlite \cup {"container"}
      /\ provider # "container" => op # "openInit"
      /\ op \in {"open", "openInit", "ensure", "exec", "stop", "remove"}
  BY Kinds DEF Ops
<1>3. CASE provider \in Native
  BY <1>1, <1>2, <1>3, Kinds DEF WorkPlace, NativePlace, Places, Recording, Dropping
<1>4. CASE provider \in Boxlite
  BY <1>1, <1>2, <1>4, Kinds DEF WorkPlace, BoxPlace, EnsurePlaces, Places, Recording, Dropping
<1>5. CASE provider = "container"
  BY <1>1, <1>2, <1>5 DEF WorkPlace, ContainerPlace, Places, Recording, Dropping
<1>6. QED
  BY <1>2, <1>3, <1>4, <1>5

LEMMA BeginKeeps ==
  ASSUME BackendInv, NEW c \in Calls, NEW op \in Ops, NEW i \in Insts, Begin(c, op, i)
  PROVE  BackendInv'
<1> DEFINE at == FirstOf(op)
<1> DEFINE row == [op |-> op, inst |-> i, at |-> at]
<1>1. /\ call[c].at = "idle" /\ (op = "openInit" => provider = "container")
      /\ op # "exec" => \A d \in Calls : In(d) = i /\ call[d].op # "exec" => Over(d)
      /\ call' = [call EXCEPT ![c] = row]
      /\ latest' = IF op = "exec" THEN latest ELSE [latest EXCEPT ![i] = c]
      /\ UNCHANGED <<provider, proc, home, agent, file, read, held, named, box, meta, victim, muddled, restarts>>
  BY DEF Begin, At, procVars, nativeVars, worldVars, boxVars
<1>2. /\ WorkPlace(provider, op, at)
      /\ at \in Places \ ({"idle", "done", "failed", "spawn", "kill", "halt", "make", "create", "stopping"}
                         \cup Recording \cup Dropping)
  BY <1>1, FirstPlace DEF BackendInv
<1> HIDE DEF at
<1>3. row \in CallRows /\ row.op = op /\ row.inst = i /\ row.at = at
  BY <1>2 DEF CallRows
<1> HIDE DEF row
<1>4. /\ call' \in [Calls -> CallRows] /\ call'[c].op = op /\ call'[c].inst = i /\ call'[c].at = at
      /\ \A d \in Calls \ {c} : call'[d] = call[d]
  BY <1>1, <1>3 DEF BackendInv, CallTypes
<1>5. /\ proc[c] # "live" /\ \A j \in Insts : latest[j] # c /\ agent[j] # c
  <2>1. Idle(c) /\ ~IsOpen(c)
    <3>1. call[c] = Nobody
      BY <1>1, WorksAt DEF BackendInv, AllPlaced, Placed
    <3>2. QED
      BY <1>1, <3>1 DEF Nobody, IsOpen, Idle, At
  <2>2. QED
    BY <2>1 DEF BackendInv, Serial
<1>6. CallTypes' /\ ProcTypes' /\ FileTypes' /\ BoxTypes'
  <2>1. latest' \in [Insts -> CallOrNone]
    BY <1>1 DEF BackendInv, CallTypes, CallOrNone
  <2>2. QED
    BY <1>1, <1>4, <2>1 DEF BackendInv, CallTypes, ProcTypes, FileTypes, BoxTypes
<1>7. AllPlaced'
  <2> SUFFICES ASSUME NEW d \in Calls
               PROVE  Placed(d)'
    BY DEF AllPlaced
  <2>1. CASE d = c
    BY <1>1, <1>2, <1>4, <2>1 DEF Placed, In
  <2>2. CASE d # c
    <3>1. Placed(d) /\ call'[d] = call[d]
      BY <1>4, <2>2 DEF BackendInv, AllPlaced
    <3>2. QED
      BY <1>1, <3>1 DEF Placed, In
  <2>3. QED
    BY <2>1, <2>2
<1>8. Serial'
  <2>1. \A d \in Calls : Idle(d)' => proc'[d] # "live"
    BY <1>1, <1>2, <1>4 DEF BackendInv, Serial, Idle, At
  <2>2. \A d \in Calls : call'[d].op # "exec" /\ ~Over(d)' => latest'[call'[d].inst] = d
    <3> SUFFICES ASSUME NEW d \in Calls, call'[d].op # "exec", ~Over(d)'
                 PROVE  latest'[call'[d].inst] = d
      OBVIOUS
    <3>1. CASE d = c
      BY <1>1, <1>4, <3>1 DEF BackendInv, CallTypes
    <3>2. CASE d # c
      <4>1. call[d].op # "exec" /\ ~Over(d) /\ call'[d].inst = In(d)
        BY <1>4, <3>2 DEF Over, In
      <4>2. latest[In(d)] = d /\ In(d) \in Insts
        BY <4>1, Working
      <4>3. op # "exec" => In(d) # i
        BY <1>1, <4>1
      <4>4. QED
        BY <1>1, <4>1, <4>2, <4>3 DEF BackendInv, CallTypes
    <3>3. QED
      BY <3>1, <3>2
  <2>3. \A j \in Insts : latest'[j] \in Calls => /\ call'[latest'[j]].at # "idle"
                                                 /\ call'[latest'[j]].inst = j
    <3> SUFFICES ASSUME NEW j \in Insts, latest'[j] \in Calls
                 PROVE  call'[latest'[j]].at # "idle" /\ call'[latest'[j]].inst = j
      OBVIOUS
    <3>1. CASE latest'[j] = c
      BY <1>1, <1>2, <1>4, <1>5, <3>1 DEF BackendInv, CallTypes
    <3>2. CASE latest'[j] # c
      <4>1. latest'[j] = latest[j]
        BY <1>1, <3>2 DEF BackendInv, CallTypes
      <4>2. QED
        BY <1>4, <1>5, <4>1 DEF BackendInv, Serial, Idle, At, In
    <3>3. QED
      BY <3>1, <3>2
  <2>4. \A j \in Insts : agent[j] \in Calls => call'[agent[j]].inst = j /\ call'[agent[j]].op \in {"open", "openInit"}
    BY <1>4, <1>5 DEF BackendInv, Serial, IsOpen, In
  <2>5. QED
    BY <1>1, <2>1, <2>2, <2>3, <2>4 DEF Serial, In, IsOpen, Idle, At
<1>9. NativeInv' /\ MapInv'
  <2>1. \A j \in Insts : (Alive(j)' <=> Alive(j)) /\ (agent[j] \in Calls => call'[agent[j]] = call[agent[j]])
    BY <1>1, <1>4, <1>5 DEF Alive
  <2>2. ASSUME NEW d \in Calls, call'[d].at \in {"kill", "spawn"} \cup Recording \cup Dropping
        PROVE  d # c /\ call'[d] = call[d]
    BY <1>2, <1>4, <2>2
  <2>3. \A d \in Calls : Truncated(d)' <=> Truncated(d)
    <3>1. call[c].at \notin {"upsertWrite", "dropWrite"} /\ at \notin {"upsertWrite", "dropWrite"}
      BY <1>1, <1>2 DEF Recording, Dropping
    <3>2. QED
      BY <1>4, <3>1 DEF Truncated
  <2>4. ASSUME NativeKept
        PROVE  NativeKept'
    <3>1. OneWrites'
      <4>1. NoEntries' = NoEntries
        BY DEF NoEntries
      <4>2. QED
        BY <1>1, <2>3, <2>4, <4>1 DEF NativeKept, OneWrites
    <3>2. ASSUME NEW j \in Insts, Alive(j)
          PROVE  Known(j)'
      <4>1. Known(j) /\ agent[j] \in Calls
        BY <2>4, <3>2 DEF NativeKept, Alive
      <4>2. UNCHANGED <<agent, file, read>> /\ call'[agent[j]] = call[agent[j]]
        BY <1>1, <2>1, <4>1
      <4>3. QED
        BY <2>3, <4>1, <4>2 DEF Known
    <3>3. ASSUME NEW d \in Calls, NEW j \in Insts, call'[d].inst = j
          PROVE  /\ call'[d].at \in Recording => agent'[j] = d
                 /\ call'[d].at = "kill" /\ Alive(j)' => read'[d][j] = agent'[j]
                 /\ call'[d].at \in Dropping => ~Alive(j)'
      BY <1>1, <2>1, <2>2, <2>4, <3>3 DEF NativeKept, In, At
    <3>4. QED
      BY <2>1, <3>1, <3>2, <3>3 DEF NativeKept, In, At
  <2>5. ASSUME Mapped
        PROVE  Mapped'
    BY <1>1, <2>1, <2>2, <2>5 DEF Mapped, In, Agentless
  <2>6. QED
    BY <1>1, <2>4, <2>5 DEF BackendInv, NativeInv, MapInv, HeldMaps
<1>10. \A p \in Calls : proc[p] = "live" => p # c /\ call'[p] = call[p]
  BY <1>4, <1>5
<1>11. BoxInv'
  <2>1. ASSUME OwnBox
        PROVE  OwnBox'
    BY <1>1, <1>2, <1>4, <1>10, <2>1 DEF OwnBox, Idle, At, In
  <2>2. ASSUME OneBox
        PROVE  OneBox'
    <3>1. \A d \in Calls : /\ Ensuring(d)' => Ensuring(d)
                           /\ call'[d].at \in {"make", "create"} => call[d].at \in {"make", "create"}
                           /\ call'[d].at = "halt" => call[d].at = "halt"
      BY <1>2, <1>4 DEF Ensuring
    <3>2. \A d \in Calls : call[d].at = "stopping" => call'[d] = call[d]
      BY <1>1, <1>4
    <3>3. QED
      BY <1>1, <1>10, <2>2, <3>1, <3>2 DEF OneBox, At, In
  <2>3. ASSUME OneName
        PROVE  OneName'
    <3>1. \A d \in Calls : /\ call'[d].at \in {"make", "create"} => call[d].at \in {"make", "create"}
                           /\ call'[d].at = "halt" => call[d].at = "halt"
                           /\ call[d].at = "stopping" => call'[d].at = "stopping"
      BY <1>1, <1>2, <1>4
    <3>2. QED
      BY <1>1, <2>3, <3>1 DEF OneName, At
  <2>4. QED
    BY <1>1, <2>1, <2>2, <2>3 DEF BackendInv, BoxInv, OwnBoxes
<1>12. ContainerInv'
  BY <1>1, <1>10 DEF BackendInv, ContainerInv, Contained, In
<1>13. RemovedIsGone'
  <2> SUFFICES ASSUME NEW j \in Insts, latest'[j] # NoCall, call'[latest'[j]].op = "remove",
                      call'[latest'[j]].at = "done", Tracked, ~IsShared, agent[j] # NoCall
               PROVE  proc[agent[j]] # "live"
    BY <1>1 DEF RemovedIsGone, At, IsShared, Tracked
  <2>1. latest'[j] # c
    BY <1>2, <1>4
  <2>2. latest'[j] = latest[j] /\ latest[j] \in Calls
    BY <1>1, <2>1 DEF BackendInv, CallTypes, CallOrNone
  <2>3. call'[latest[j]] = call[latest[j]]
    BY <1>4, <2>1, <2>2
  <2>4. QED
    BY <2>2, <2>3 DEF BackendInv, RemovedIsGone, At
<1>14. QED
  BY <1>6, <1>7, <1>8, <1>9, <1>11, <1>12, <1>13 DEF BackendInv

-----------------------------------------------------------------------------
(* The invariant, and what follows from it.                                  *)

LEMMA BackendStarts ==
  ASSUME BackendInit
  PROVE  BackendInv
<1>1. /\ \A c \in Calls : call[c] = Nobody /\ proc[c] = "none" /\ victim[c] = NoCall
      /\ \A i \in Insts : latest[i] = NoCall /\ agent[i] = NoCall
      /\ \A n \in Insts \cup {"boxName"} : named[n] = NoCall
      /\ box = NoCall /\ muddled = FALSE /\ restarts = 0
  BY DEF BackendInit
<1>2. CallTypes
  <2>1. Nobody \in CallRows
    BY DEF Nobody, CallRows, Places
  <2>2. QED
    BY <2>1 DEF BackendInit, CallTypes, CallOrNone
<1>3. ProcTypes /\ FileTypes /\ BoxTypes
  BY DEF BackendInit, ProcTypes, FileTypes, BoxTypes, CallOrNone
<1>4. AllPlaced
  BY <1>1 DEF AllPlaced, Placed
<1>5. \A c \in Calls : call[c].at = "idle"
  BY <1>1 DEF Nobody
<1>6. Serial
  BY <1>1, <1>5, NoCallIsNone DEF Serial, Over, Idle, At
<1>7. NativeInv /\ MapInv
  <2>1. \A i \in Insts : ~Alive(i)
    BY <1>1, NoCallIsNone DEF Alive
  <2>2. \A c \in Calls : call[c].at \notin {"kill", "spawn"} \cup Recording \cup Dropping /\ ~Truncated(c)
    BY <1>5 DEF Recording, Dropping, Truncated
  <2>3. held \in HeldMaps
    BY DEF BackendInit, HeldMaps
  <2>4. QED
    BY <2>1, <2>2, <2>3 DEF NativeInv, NativeKept, OneWrites, MapInv, Mapped, Agentless, At
<1>8. BoxInv
  BY <1>1, <1>5, NoCallIsNone DEF BoxInv, OwnBox, OneBox, OneName, Ensuring, At
<1>9. ContainerInv /\ RemovedIsGone
  BY <1>1 DEF ContainerInv, RemovedIsGone
<1>10. QED
  BY <1>2, <1>3, <1>4, <1>6, <1>7, <1>8, <1>9 DEF BackendInv

LEMMA BackendStep ==
  ASSUME BackendInv, BackendNext
  PROVE  BackendInv'
<1>1. CASE ProxyRestarts
  BY <1>1, RestartKeeps
<1>2. ASSUME NEW i \in Insts, ContainerExits(i)
      PROVE  BackendInv'
  <2>1. /\ Gone(named[i]) /\ UNCHANGED <<named, home, agent, dockerRest, call>> /\ provider = "container"
    BY <1>2 DEF ContainerExits, StopsContainer
  <2>2. Fewer
    BY <2>1, GoneEffect DEF BackendInv
  <2>3. MapInv'
    BY <2>1, Kinds, NoMap DEF dockerRest, BackendInv
  <2>4. QED
    BY <2>1, <2>2, <2>3, EndKeeps DEF dockerRest, nativeVars, boxVars
<1>3. ASSUME NEW c \in Calls, NEW op \in Ops, NEW i \in Insts, Begin(c, op, i)
      PROVE  BackendInv'
  BY <1>3, BeginKeeps
<1>4. ASSUME NEW c \in Calls,
             \/ NativeEnsure(c) \/ NativeReuse(c) \/ PrepareUserView(c) \/ HostSpawn(c) \/ SpawnFails(c)
             \/ ReadRegistry(c) \/ OpenRegistry(c) \/ WriteRegistry(c) \/ NativeStop(c) \/ NativeRemove(c)
             \/ NativeExec(c)
      PROVE  BackendInv'
  BY <1>4, NativeQuietSteps, HostSpawnKeeps, ReadRegistryKeeps, OpenRegistryKeeps, WriteRegistryKeeps,
     NativeRemoveKeeps
<1>5. ASSUME NEW c \in Calls,
             \/ BoxInspect(c) \/ BoxEnsure(c) \/ EnsureBox(c) \/ HaltPrevious(c) \/ SimpleBox(c)
             \/ GetBox(c) \/ CreateBox(c) \/ BootedAlready(c) \/ CheckBootstrap(c)
             \/ InstallBootstrap(c) \/ BoxExec(c) \/ BoxStop(c) \/ StopBox(c)
      PROVE  BackendInv'
  BY <1>5, BoxQuietSteps, EnsureBoxKeeps, HaltPreviousKeeps, MakeSteps, BoxExecKeeps, BoxStopKeeps, StopBoxKeeps
<1>6. ASSUME NEW c \in Calls,
             \/ Inspect(c) \/ RemoveBeforeInit(c) \/ RemoveContainer(c) \/ RunAgent(c) \/ Attach(c)
             \/ LookEnsure(c) \/ RunSleep(c) \/ DockerStart(c) \/ DockerExec(c) \/ DockerStop(c)
      PROVE  BackendInv'
  BY <1>6, ContainerQuietSteps, RmKeeps, StartSteps
<1>7. ASSUME NEW c \in Calls, CloseHandle(c) \/ NativeExit(c) \/ BoxKill(c) \/ ExecKill(c)
      PROVE  BackendInv'
  BY <1>7, EndSteps
<1>8. QED
  BY <1>1, <1>2, <1>3, <1>4, <1>5, <1>6, <1>7 DEF BackendNext, Ops

LEMMA BackendStutters ==
  ASSUME BackendInv, UNCHANGED backendVars
  PROVE  BackendInv'
<1>1. /\ UNCHANGED <<provider, call, latest, home, agent, muddled, file, read, named, box, meta, victim,
                      restarts>>
      /\ UNCHANGED <<proc, held>>
  BY DEF backendVars, procVars, nativeVars, worldVars, boxVars
<1>2. MapInv'
  BY <1>1 DEF BackendInv, MapInv, HeldMaps, Mapped, Alive, In
<1>3. QED
  BY <1>1, <1>2, SameProcs, EndKeeps

THEOREM BackendInvHolds == BackendSpec => []BackendInv
<1>1. BackendInit => BackendInv
  BY BackendStarts
<1>2. BackendInv /\ [BackendNext]_backendVars => BackendInv'
  BY BackendStep, BackendStutters
<1>3. QED
  BY <1>1, <1>2, PTL DEF BackendSpec

\* Whatever calls of the instances meet, and whatever of them fails, a process runs in a box of
\* its own instance, and an agent with a script to run first in a container made for it; where
\* the boxes of all instances have one name, as long as none is made while another is made or
\* stopped, and no stop fails (boxliteSandbox.ts, ociCliProxySandbox.ts).
THEOREM RunsInItsOwnHolds == BackendSpec => []RunsInItsOwn
<1>1. BackendInv => RunsInItsOwn
  <2> SUFFICES ASSUME BackendInv, NEW p \in Calls, proc[p] = "live"
               PROVE  /\ OwnBoxes => In(home[p]) = In(p)
                      /\ call[p].op = "openInit" => home[p] = p
    BY DEF RunsInItsOwn
  <2>1. OwnBoxes => In(home[p]) = In(p)
    BY DEF BackendInv, BoxInv, OwnBox
  <2>2. call[p].op = "openInit" => provider = "container"
    BY DEF BackendInv, Serial, Idle, At, AllPlaced, Placed, Nobody
  <2>3. QED
    BY <2>1, <2>2 DEF BackendInv, ContainerInv, Contained
<1>2. QED
  BY <1>1, BackendInvHolds, PTL

\* Removing an instance leaves no agent of it, as long as the proxy has not lost track: a proxy
\* that was not restarted has its processes in its map, whatever becomes of the registry file
\* when two calls meet there; a restarted one has that file, each has its one box, or the
\* container's name (hostProcessProxySandbox.ts, nativeRegistry.ts, boxliteSandbox.ts,
\* ociCliProxySandbox.ts).
THEOREM RemovedIsGoneHolds == BackendSpec => []RemovedIsGone
<1>1. BackendInv => RemovedIsGone
  BY DEF BackendInv
<1>2. QED
  BY <1>1, BackendInvHolds, PTL
================================================================================
