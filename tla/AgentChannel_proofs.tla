-------------------------- MODULE AgentChannel_proofs --------------------------
(***************************************************************************)
(* Proofs about AgentChannel, for any numbers of prompts, agent processes  *)
(* and requests: one operation is at work and one agent is open, a call is  *)
(* in one place on its way to the agent and back, and what is read from an  *)
(* agent is therefore of the call that waits.                              *)
(***************************************************************************)
EXTENDS AgentChannel, FiniteSetTheorems, SequenceTheorems, TLAPS

PromptCalls == {"prompt", "promptAgain"}
Waits == {"unsent", "queued", "answered"}

Requests == [call : Calls, of : Prompts, sess : Nat]

\* What agents say, once they have finished the prompts of D.
Said(D) ==
  [t : {"answer"}, call : Calls \ PromptCalls, of : Prompts, ok : BOOLEAN, sess : Nat]
    \cup [t : {"answer"}, call : PromptCalls, of : Prompts, ok : {FALSE}, sess : Nat]
    \cup [t : {"answer"}, call : PromptCalls, of : D, ok : {TRUE}, sess : Nat]
    \cup [t : {"update"}, of : Prompts]
    \cup [t : {"ask"}, id : Nat \ {0}, ask : Asks]

PromptRows == [at : Waits \cup {"spawn", "init", "closing"} \cup Calls, sess : Nat,
               result : {"none", "ok", "failed"}]
RuntimeRows == [agent : Starts \cup {0}, initialized : BOOLEAN, active : Prompts \cup {0},
                seen : SUBSET Nat, suppress : BOOLEAN]
BridgeRows == [proc : Starts \cup {0}, closed : BOOLEAN, deaf : BOOLEAN, handles : Nat,
               rpc : SUBSET (Prompts \X Calls)]
ProcessRows == [started : BOOLEAN, alive : BOOLEAN, killed : BOOLEAN, exitSeen : BOOLEAN,
                knows : SUBSET Nat, works : SUBSET (Prompts \X PromptCalls), asked : Nat,
                command : BOOLEAN]

SeatTypes == prompt \in [Prompts -> PromptRows] /\ opQueue \in Seq(Prompts) /\ runtime \in RuntimeRows
WireTypes ==
  /\ bridge \in [Starts -> BridgeRows] /\ process \in [Starts -> ProcessRows]
  /\ inst \in Starts \cup {0}
  /\ stdin \in [Starts -> Seq(Requests)] /\ stdout \in [Starts -> Seq(Said(done))]
PastTypes ==
  /\ scene \in ChannelScenes
  /\ stored \in Nat /\ sessions \in Nat /\ done \subseteq Prompts
  /\ late \in BOOLEAN /\ misheard \in BOOLEAN

\* One operation is at work: it spawns a process, or ends its write, while there is no
\* agent, or awaits its agent.
Serial ==
  \A p \in Prompts :
    /\ prompt[p].at \notin Waits => AtWork(p)
    /\ prompt[p].at = "spawn" => runtime.agent = 0 /\ Next1 \in Starts
    /\ prompt[p].at = "closing" => runtime.agent = 0
    /\ prompt[p].at \in {"init"} \cup Calls => runtime.agent # 0
    /\ prompt[p].at \in Calls => <<p, prompt[p].at>> \in bridge[runtime.agent].rpc

\* One bridge is open; the call it waits for is the one its prompt is at; it alone waits for
\* the user's word, one request at a time.
OneAgent ==
  /\ \A b \in Starts : Open(b) => b = runtime.agent
  /\ \A b \in Starts : \A x \in bridge[b].rpc :
       /\ b = runtime.agent /\ prompt[x[1]].at = x[2]
       /\ x[2] # "initialize" => runtime.active = x[1]
  /\ \A id \in DOMAIN permission :
       /\ id # 0 /\ permission[id] = runtime.agent
       /\ runtime.agent # 0 /\ bridge[runtime.agent].handles = id

\* Bridges are made in order, and each for a process that was there.
Numbered ==
  \E k \in 0 .. MaxStarts :
    /\ \A b \in Starts : (bridge[b].proc # 0 <=> b <= k) /\ bridge[b].proc <= b
    /\ inst <= k + 1

\* A process without a bridge has been told nothing.
Fresh(n) == stdin[n] = <<>> /\ stdout[n] = <<>> /\ process[n].works = {}
Unbridged == \A n \in Starts : (\A b \in Starts : bridge[b].proc # n) => Fresh(n)

\* The calls a bridge waits for are told to its process, in its work, or answered, and then
\* nothing comes after; what is told meanwhile is of their prompt.
Carried(told, works, said, calls) ==
  /\ \A i \in DOMAIN told : <<told[i].of, told[i].call>> \in calls
  /\ works \subseteq calls
  /\ Len(told) <= 1
  /\ told # <<>> => works = {}
  /\ \A i \in DOMAIN said :
       /\ said[i].t = "answer" => /\ <<said[i].of, said[i].call>> \in calls
                                  /\ i = Len(said) /\ works = {} /\ told = <<>>
       /\ said[i].t = "update" => \E c \in PromptCalls : <<said[i].of, c>> \in calls

Flight(b) ==
  LET n == bridge[b].proc IN Carried(stdin[n], process[n].works, stdout[n], bridge[b].rpc)

Heard(b) == Open(b) /\ ~bridge[b].deaf
InFlight == ~late => \A b \in Starts : Heard(b) => Flight(b)

ChannelInv ==
  /\ SeatTypes /\ WireTypes /\ PastTypes
  /\ Serial /\ OneAgent /\ Numbered /\ Unbridged /\ InFlight
  /\ AnsweredByWork /\ GrantedByUser /\ UpdatesAttributed

-----------------------------------------------------------------------------
(* Functions, sequences and numbers.                                         *)

LEMMA Put ==
  ASSUME NEW S, NEW T, NEW f \in [S -> T], NEW i, NEW x \in T
  PROVE  /\ [f EXCEPT ![i] = x] \in [S -> T]
         /\ \A j \in S : [f EXCEPT ![i] = x][j] = IF j = i THEN x ELSE f[j]
OBVIOUS

LEMMA Appended ==
  ASSUME NEW T, NEW s \in Seq(T), NEW x \in T
  PROVE  /\ Append(s, x) \in Seq(T) /\ Len(Append(s, x)) = Len(s) + 1 /\ Len(s) \in Nat
         /\ DOMAIN Append(s, x) = DOMAIN s \cup {Len(s) + 1} /\ DOMAIN s = 1 .. Len(s)
         /\ Append(s, x)[Len(s) + 1] = x
         /\ \A i \in DOMAIN s : Append(s, x)[i] = s[i] /\ i # Len(s) + 1
         /\ s # <<>> => Head(Append(s, x)) = Head(s)
         /\ Append(s, x) # <<>> /\ (s = <<>> <=> Len(s) = 0)
<1>1. /\ Append(s, x) \in Seq(T) /\ Len(Append(s, x)) = Len(s) + 1 /\ Len(s) \in Nat
      /\ DOMAIN Append(s, x) = DOMAIN s \cup {Len(s) + 1} /\ DOMAIN s = 1 .. Len(s)
      /\ Append(s, x)[Len(s) + 1] = x
      /\ \A i \in DOMAIN s : Append(s, x)[i] = s[i] /\ i # Len(s) + 1
  OBVIOUS
<1>2. Append(s, x) # <<>> /\ (s = <<>> <=> Len(s) = 0)
  BY <1>1, EmptySeq
<1>3. s # <<>> => Head(Append(s, x)) = Head(s)
  BY HeadTailAppend
<1>4. QED
  BY <1>1, <1>2, <1>3

LEMMA Dropped ==
  ASSUME NEW T, NEW s \in Seq(T), s # <<>>
  PROVE  /\ Head(s) \in T /\ Tail(s) \in Seq(T) /\ Len(s) \in Nat \ {0}
         /\ Head(s) = s[1] /\ 1 \in DOMAIN s
         /\ Len(Tail(s)) = Len(s) - 1
         /\ \A i \in DOMAIN Tail(s) : i + 1 \in DOMAIN s /\ Tail(s)[i] = s[i + 1]
         /\ Len(s) = 1 => Tail(s) = <<>>
         /\ Len(s) <= 1 => Tail(s) = <<>>
<1>1. Len(s) \in Nat \ {0} /\ DOMAIN s = 1 .. Len(s)
  BY EmptySeq
<1>2. Tail(s) \in Seq(T) /\ Len(Tail(s)) = Len(s) - 1
  BY <1>1
<1>3. Head(s) = s[1] /\ 1 \in DOMAIN s /\ Head(s) \in T
  <2>1. 1 \in DOMAIN s
    BY <1>1
  <2>2. Head(s) = s[1]
    OBVIOUS
  <2>3. QED
    BY <2>1, <2>2, HeadTailProperties
<1>4. \A i \in DOMAIN Tail(s) : i + 1 \in DOMAIN s /\ Tail(s)[i] = s[i + 1]
  <2>1. DOMAIN Tail(s) = 1 .. Len(Tail(s))
    BY <1>2
  <2>2. QED
    BY <1>1, <1>2, <2>1, HeadTailProperties
<1>5. Len(s) = 1 => Tail(s) = <<>>
  <2>1. Tail(s) # <<>> => Len(Tail(s)) # 0
    BY <1>2, EmptySeq
  <2>2. Len(s) = 1 => Len(Tail(s)) = 0
    BY <1>2
  <2>3. QED
    BY <2>1, <2>2
<1>6. Len(s) <= 1 => Tail(s) = <<>>
  BY <1>1, <1>5
<1>7. QED
  BY <1>1, <1>2, <1>3, <1>4, <1>5, <1>6

LEMMA StartsAre ==
  /\ MaxStarts \in Nat /\ MaxPrompts \in Nat /\ MaxAsks \in Nat
  /\ Starts \subseteq Nat /\ 0 \notin Starts /\ Prompts \subseteq Nat /\ 0 \notin Prompts
  /\ \A n \in Starts : n <= MaxStarts
  /\ \A n \in Nat : 0 < n /\ n <= MaxStarts => n \in Starts
BY BoundsAreNat DEF Starts, Prompts

\* The next start, by the number of bridges there are.
LEMMA NextIs ==
  ASSUME NEW k \in 0 .. MaxStarts, \A b \in Starts : bridge[b].proc # 0 <=> b <= k
  PROVE  Next1 = k + 1
<1>1. {b \in Starts : bridge[b].proc # 0} = 1 .. k
  BY StartsAre DEF Starts
<1>2. Cardinality(1 .. k) = k
  BY StartsAre, FS_Interval
<1>3. QED
  BY <1>1, <1>2 DEF Next1

LEMMA NextStays ==
  ASSUME \A b \in Starts : bridge'[b].proc = bridge[b].proc
  PROVE  Next1' = Next1
<1>1. {b \in Starts : bridge'[b].proc # 0} = {b \in Starts : bridge[b].proc # 0}
  OBVIOUS
<1>2. QED
  BY <1>1 DEF Next1

-----------------------------------------------------------------------------
(* What a step does to the bridges.                                          *)

\* Bridges wait for what they waited for.
SameBridges ==
  /\ bridge' \in [Starts -> BridgeRows]
  /\ \A b \in Starts : /\ bridge'[b].proc = bridge[b].proc /\ bridge'[b].closed = bridge[b].closed
                       /\ bridge'[b].deaf = bridge[b].deaf /\ bridge'[b].rpc = bridge[b].rpc

\* Bridge b has one call to wait for, or none; the others are as they were.
Waiting(b, calls) ==
  /\ bridge' \in [Starts -> BridgeRows]
  /\ \A c \in Starts :
       /\ bridge'[c].proc = bridge[c].proc /\ bridge'[c].closed = bridge[c].closed
       /\ bridge'[c].deaf = bridge[c].deaf /\ bridge'[c].handles = bridge[c].handles
       /\ bridge'[c].rpc = IF c = b THEN calls ELSE bridge[c].rpc

LEMMA NumberedStays ==
  ASSUME Numbered, \A b \in Starts : bridge'[b].proc = bridge[b].proc, inst' \in {inst, 0}
  PROVE  Numbered'
<1>1. PICK k \in 0 .. MaxStarts :
        /\ \A b \in Starts : (bridge[b].proc # 0 <=> b <= k) /\ bridge[b].proc <= b
        /\ inst <= k + 1
  BY DEF Numbered
<1>2. inst' <= k + 1
  BY <1>1
<1>3. QED
  BY <1>1, <1>2 DEF Numbered

\* What was empty stays empty at processes without a bridge.
LEMMA UnbridgedStays ==
  ASSUME Unbridged, \A b \in Starts : bridge'[b].proc = bridge[b].proc,
         \A n \in Starts : Fresh(n) /\ (\A b \in Starts : bridge[b].proc # n) =>
           stdin'[n] = <<>> /\ stdout'[n] = <<>> /\ process'[n].works = {}
  PROVE  Unbridged'
BY DEF Unbridged, Fresh

\* A bridge waits for one call at most, of the prompt at work.
LEMMA OneCall ==
  ASSUME ChannelInv, NEW b \in Starts, NEW x \in bridge[b].rpc
  PROVE  /\ bridge[b].rpc = {x} /\ x \in Prompts \X Calls /\ b = runtime.agent
         /\ AtWork(x[1]) /\ prompt[x[1]].at = x[2] /\ opQueue # <<>> /\ Head(opQueue) = x[1]
<1>1. ASSUME NEW y \in bridge[b].rpc
      PROVE  /\ y \in Prompts \X Calls /\ b = runtime.agent /\ prompt[y[1]].at = y[2]
             /\ AtWork(y[1])
  <2>1. bridge[b].rpc \subseteq Prompts \X Calls
    BY DEF ChannelInv, WireTypes, BridgeRows
  <2>2. y \in Prompts \X Calls /\ b = runtime.agent /\ prompt[y[1]].at = y[2]
    BY <1>1, <2>1 DEF ChannelInv, OneAgent
  <2>3. y[2] \notin Waits
    BY <2>2 DEF Waits, Calls
  <2>4. QED
    BY <2>2, <2>3 DEF ChannelInv, Serial
<1>2. \A y \in bridge[b].rpc : y[1] = x[1] /\ y[2] = x[2]
  BY <1>1 DEF AtWork
<1>3. \A y \in bridge[b].rpc : y = x
  BY <1>1, <1>2
<1>4. QED
  BY <1>1, <1>3 DEF AtWork

LEMMA NoCall ==
  ASSUME ChannelInv, NEW p \in Prompts, AtWork(p), prompt[p].at \notin Calls, NEW b \in Starts
  PROVE  bridge[b].rpc = {}
BY OneCall DEF AtWork

-----------------------------------------------------------------------------
(* What a step does to the operation at work.                                *)

\* Prompt p goes to another place.
PromptGoes(p, at) ==
  /\ prompt' \in [Prompts -> PromptRows]
  /\ prompt'[p].at = at
  /\ \A q \in Prompts \ {p} : prompt'[q] = prompt[q]

\* The agent of the run is asked for a call, of prompt p.
Sends(b, p, call) ==
  /\ PromptGoes(p, call) /\ prompt'[p].result = prompt[p].result
  /\ opQueue' = opQueue
  /\ runtime' \in RuntimeRows /\ runtime'.agent = runtime.agent
  /\ call # "initialize" => runtime'.active = p
  /\ Waiting(b, {<<p, call>>})
  /\ stdin' \in [Starts -> Seq(Requests)]
  /\ \A n \in Starts :
       \/ stdin'[n] = stdin[n]
       \/ /\ n = bridge[b].proc
          /\ \E m \in Requests : m.of = p /\ m.call = call /\ stdin'[n] = Append(stdin[n], m)

\* Prompt p is answered, and the next operation is at work.
Finishes(p, result) ==
  /\ PromptGoes(p, "answered") /\ prompt'[p].result = result
  /\ opQueue' = Tail(opQueue)
  /\ runtime' \in RuntimeRows /\ runtime'.agent = runtime.agent

LEMMA SendEffect ==
  ASSUME ChannelInv, NEW b \in Starts, NEW p \in Prompts, NEW call \in Calls, NEW sess \in Nat,
         NEW settled, bridge[b].rpc \subseteq settled, SendRpc(b, p, call, sess, settled),
         runtime' \in RuntimeRows, runtime'.agent = runtime.agent,
         call # "initialize" => runtime'.active = p
  PROVE  Sends(b, p, call)
<1> DEFINE n == bridge[b].proc
           msg == [call |-> call, of |-> p, sess |-> sess]
           row == [prompt[p] EXCEPT !.at = call, !.sess = sess]
           line == [bridge[b] EXCEPT !.rpc = {<<p, call>>}]
<1>0. /\ prompt \in [Prompts -> PromptRows] /\ bridge \in [Starts -> BridgeRows]
      /\ stdin \in [Starts -> Seq(Requests)]
  BY DEF ChannelInv, SeatTypes, WireTypes
<1>1. row \in PromptRows /\ row.at = call /\ row.result = prompt[p].result
  <2>1. prompt[p] \in PromptRows
    BY <1>0
  <2>2. QED
    BY <2>1 DEF PromptRows
<1>2. prompt' = [prompt EXCEPT ![p] = row]
  BY DEF SendRpc
<1> HIDE DEF row
<1>3. PromptGoes(p, call) /\ prompt'[p].result = prompt[p].result
  BY <1>0, <1>1, <1>2, Put DEF PromptGoes
<1>4. /\ line \in BridgeRows /\ line.proc = bridge[b].proc /\ line.closed = bridge[b].closed
      /\ line.deaf = bridge[b].deaf /\ line.handles = bridge[b].handles
      /\ line.rpc = {<<p, call>>}
  <2>1. bridge[b] \in BridgeRows
    BY <1>0
  <2>2. {<<p, call>>} \in SUBSET (Prompts \X Calls)
    OBVIOUS
  <2>3. QED
    BY <2>1, <2>2 DEF BridgeRows
<1>5. bridge' = [bridge EXCEPT ![b] = line]
  <2>1. bridge' = [bridge EXCEPT ![b].rpc = (bridge[b].rpc \ settled) \cup {<<p, call>>}]
    BY DEF SendRpc
  <2>2. (bridge[b].rpc \ settled) \cup {<<p, call>>} = {<<p, call>>}
    OBVIOUS
  <2>3. QED
    BY <2>1, <2>2
<1> HIDE DEF line
<1>6. Waiting(b, {<<p, call>>})
  BY <1>0, <1>4, <1>5, Put DEF Waiting
<1>7. msg \in Requests /\ msg.of = p /\ msg.call = call
  BY DEF Requests
<1>8. stdin' = stdin \/ stdin' = [stdin EXCEPT ![n] = Append(stdin[n], msg)]
  BY DEF SendRpc
<1> HIDE DEF msg
<1>9. /\ stdin' \in [Starts -> Seq(Requests)]
      /\ \A k \in Starts : stdin'[k] = stdin[k] \/ (k = n /\ stdin'[k] = Append(stdin[k], msg))
  <2>1. CASE stdin' = stdin
    BY <1>0, <2>1
  <2>2. CASE n \in Starts /\ stdin' = [stdin EXCEPT ![n] = Append(stdin[n], msg)]
    <3>1. Append(stdin[n], msg) \in Seq(Requests)
      BY <1>0, <1>7, <2>2, Appended
    <3>2. QED
      BY <1>0, <2>2, <3>1, Put
  <2>3. CASE n \notin Starts /\ stdin' = [stdin EXCEPT ![n] = Append(stdin[n], msg)]
    BY <1>0, <2>3
  <2>4. QED
    BY <1>8, <2>1, <2>2, <2>3
<1>10. QED
  BY <1>3, <1>6, <1>7, <1>9 DEF Sends, SendRpc

LEMMA FindEffect ==
  ASSUME ChannelInv, NEW b \in Starts, NEW p \in Prompts, NEW settled,
         bridge[b].rpc \subseteq settled, FindSession(b, p, settled)
  PROVE  \E call \in Calls \ {"initialize"} : Sends(b, p, call)
<1> DEFINE hint == prompt[p].sess
<1>0. prompt[p] \in PromptRows /\ runtime \in RuntimeRows
  BY DEF ChannelInv, SeatTypes
<1>1. hint \in Nat /\ runtime.seen \subseteq Nat
  BY <1>0 DEF PromptRows, RuntimeRows
<1>2. ASSUME NEW seen \in SUBSET Nat,
             runtime' = [runtime EXCEPT !.initialized = TRUE, !.active = p, !.seen = seen]
      PROVE  runtime' \in RuntimeRows /\ runtime'.agent = runtime.agent /\ runtime'.active = p
  BY <1>0, <1>2 DEF RuntimeRows
<1>3. PICK call \in {"new", "prompt", "load"}, sess \in Nat, seen \in SUBSET Nat :
        /\ SendRpc(b, p, call, sess, settled)
        /\ runtime' = [runtime EXCEPT !.initialized = TRUE, !.active = p, !.seen = seen]
  <2> DEFINE Opened(seen) ==
               runtime' = [runtime EXCEPT !.initialized = TRUE, !.active = p, !.seen = seen]
  <2>1. CASE Opened(runtime.seen) /\ SendRpc(b, p, "new", 0, settled)
    BY <1>1, <2>1
  <2>2. CASE Opened(runtime.seen) /\ SendRpc(b, p, "prompt", hint, settled)
    BY <1>1, <2>2
  <2>3. CASE /\ Opened(runtime.seen \cup {hint})
             /\ \E call \in {"load", "prompt"} : SendRpc(b, p, call, hint, settled)
    BY <1>1, <2>3
  <2>4. QED
    BY <2>1, <2>2, <2>3 DEF FindSession
<1>4. call \in Calls \ {"initialize"}
  BY DEF Calls
<1>5. Sends(b, p, call)
  BY <1>2, <1>3, <1>4, SendEffect
<1>6. QED
  BY <1>4, <1>5

LEMMA AnswerEffect ==
  ASSUME ChannelInv, NEW p \in Prompts, NEW result \in {"ok", "failed"}, Answer(p, result)
  PROVE  Finishes(p, result)
<1> DEFINE row == [prompt[p] EXCEPT !.at = "answered", !.sess = 0, !.result = result]
<1>0. prompt \in [Prompts -> PromptRows] /\ prompt[p] \in PromptRows /\ runtime \in RuntimeRows
  BY DEF ChannelInv, SeatTypes
<1>1. row \in PromptRows /\ row.at = "answered" /\ row.result = result
  BY <1>0 DEF PromptRows, Waits
<1>2. prompt' = [prompt EXCEPT ![p] = row]
  BY DEF Answer
<1> HIDE DEF row
<1>3. PromptGoes(p, "answered") /\ prompt'[p].result = result
  BY <1>0, <1>1, <1>2, Put DEF PromptGoes
<1>4. runtime' \in RuntimeRows /\ runtime'.agent = runtime.agent
  BY <1>0 DEF Answer, RuntimeRows, NoPrompt
<1>5. QED
  BY <1>3, <1>4 DEF Answer, Finishes

\* A call that has settled is followed by another, or by the end of its operation.
LEMMA GoesEffect ==
  ASSUME ChannelInv, NEW b \in Starts, NEW p \in Prompts, NEW call \in Calls,
         <<p, call>> \in bridge[b].rpc, NEW outcome, NEW sess \in Nat, Goes(b, p, call, outcome, sess)
  PROVE  \/ \E next \in Calls : Sends(b, p, next)
         \/ \E result \in {"ok", "failed"} :
              /\ Finishes(p, result) /\ Waiting(b, {}) /\ UNCHANGED stdin
              /\ result = "ok" => call \in PromptCalls /\ outcome = "ok"
<1> DEFINE settled == {<<p, call>>}
<1>0. /\ bridge[b].rpc \subseteq settled /\ runtime \in RuntimeRows
      /\ prompt[p].sess \in Nat
      /\ call # "initialize" => runtime.active = p
  <2>1. prompt[p] \in PromptRows /\ runtime \in RuntimeRows
    BY DEF ChannelInv, SeatTypes
  <2>2. call # "initialize" => runtime.active = p
    BY DEF ChannelInv, OneAgent
  <2>3. QED
    BY <2>1, <2>2, OneCall DEF PromptRows
<1>s. ASSUME runtime' = [runtime EXCEPT !.seen = runtime.seen \cup {sess}]
      PROVE  runtime' \in RuntimeRows /\ runtime'.agent = runtime.agent
             /\ runtime'.active = runtime.active
  BY <1>0, <1>s DEF RuntimeRows
<1>o. ASSUME NEW result \in {"ok", "failed"}, Answer(p, result),
             bridge' = [bridge EXCEPT ![b].rpc = bridge[b].rpc \ settled]
      PROVE  Finishes(p, result) /\ Waiting(b, {})
  <2> DEFINE line == [bridge[b] EXCEPT !.rpc = {}]
  <2>1. bridge[b] \in BridgeRows /\ bridge \in [Starts -> BridgeRows]
    BY DEF ChannelInv, WireTypes
  <2>2. /\ line \in BridgeRows /\ line.proc = bridge[b].proc /\ line.closed = bridge[b].closed
        /\ line.deaf = bridge[b].deaf /\ line.handles = bridge[b].handles /\ line.rpc = {}
    BY <2>1 DEF BridgeRows
  <2>3. bridge[b].rpc \ settled = {}
    BY <1>0
  <2>4. bridge' = [bridge EXCEPT ![b] = line]
    BY <1>o, <2>3
  <2> HIDE DEF line
  <2>5. Waiting(b, {})
    BY <2>1, <2>2, <2>4, Put DEF Waiting
  <2>6. QED
    BY <1>o, <2>5, AnswerEffect
<1>1. CASE call = "initialize" /\ outcome = "ok"
  BY <1>0, <1>1, FindEffect DEF Goes
<1>2. CASE call = "new" /\ outcome = "ok"
  <2>1. /\ runtime' = [runtime EXCEPT !.seen = runtime.seen \cup {sess}]
        /\ SendRpc(b, p, "prompt", sess, settled)
    BY <1>2 DEF Goes
  <2>2. Sends(b, p, "prompt")
    BY <1>0, <1>2, <1>s, <2>1, SendEffect DEF Calls
  <2>3. QED
    BY <2>2 DEF Calls
<1>3. CASE call = "load"
  <2>1. runtime' = runtime /\ SendRpc(b, p, "prompt", prompt[p].sess, settled)
    BY <1>3 DEF Goes
  <2>2. Sends(b, p, "prompt")
    BY <1>0, <1>3, <2>1, SendEffect DEF Calls
  <2>3. QED
    BY <2>2 DEF Calls
<1>4. CASE call = "prompt" /\ Recreates(outcome)
  <2>1. runtime' = runtime /\ SendRpc(b, p, "newAgain", prompt[p].sess, settled)
    BY <1>4 DEF Goes, Recreates
  <2>2. Sends(b, p, "newAgain")
    BY <1>0, <1>4, <2>1, SendEffect DEF Calls
  <2>3. QED
    BY <2>2 DEF Calls
<1>5. CASE call = "newAgain" /\ outcome = "ok"
  <2>1. /\ runtime' = [runtime EXCEPT !.seen = runtime.seen \cup {sess}]
        /\ SendRpc(b, p, "promptAgain", sess, settled)
    BY <1>5 DEF Goes
  <2>2. Sends(b, p, "promptAgain")
    BY <1>0, <1>5, <1>s, <2>1, SendEffect DEF Calls
  <2>3. QED
    BY <2>2 DEF Calls
<1>6. CASE call \in PromptCalls /\ outcome = "ok"
  <2>1. /\ Answer(p, "ok") /\ UNCHANGED stdin
        /\ bridge' = [bridge EXCEPT ![b].rpc = bridge[b].rpc \ settled]
    BY <1>6 DEF Goes, PromptCalls, Recreates
  <2>2. QED
    BY <1>6, <1>o, <2>1
<1>7. CASE /\ call # "load" /\ ~(call = "prompt" /\ Recreates(outcome))
           /\ ~(call \in {"initialize", "new", "newAgain"} \cup PromptCalls /\ outcome = "ok")
  <2>1. /\ Answer(p, "failed") /\ UNCHANGED stdin
        /\ bridge' = [bridge EXCEPT ![b].rpc = bridge[b].rpc \ settled]
    BY <1>7 DEF Goes, PromptCalls, Recreates
  <2>2. QED
    BY <1>o, <2>1
<1>8. QED
  BY <1>1, <1>2, <1>3, <1>4, <1>5, <1>6, <1>7 DEF PromptCalls

-----------------------------------------------------------------------------
(* The steps of the operation at work.                                       *)

\* What else such a step does: it may have taken an answer, or given one up.
SeatStep(b) ==
  /\ UNCHANGED <<scene, process, inst, permission, sessions, done, selected, granted, misheard>>
  /\ stored' \in Nat /\ late' \in BOOLEAN /\ (late => late')
  /\ stdout' \in [Starts -> Seq(Said(done))]
  /\ \A n \in Starts : stdout[n] = <<>> => stdout'[n] = <<>>
  /\ ~late' /\ Heard(b) =>
       LET n == bridge[b].proc IN
         /\ stdin[n] = <<>> /\ process[n].works = {}
         /\ \A i \in DOMAIN stdout'[n] : stdout'[n][i].t = "ask"

LEMMA SendsKeeps ==
  ASSUME ChannelInv, NEW p \in Prompts, AtWork(p), NEW b \in Starts, b = runtime.agent,
         NEW call \in Calls, Sends(b, p, call), SeatStep(b)
  PROVE  ChannelInv'
<1>0. opQueue # <<>> /\ Head(opQueue) = p
  BY DEF AtWork
<1>p. \A q \in Prompts : prompt'[q] = IF q = p THEN prompt'[p] ELSE prompt[q]
  BY DEF Sends, PromptGoes
<1>c. call \notin Waits /\ call \notin {"spawn", "init", "closing"}
  BY DEF Calls, Waits
<1>b. \A c \in Starts : /\ bridge'[c].proc = bridge[c].proc /\ bridge'[c].closed = bridge[c].closed
                        /\ bridge'[c].deaf = bridge[c].deaf /\ bridge'[c].handles = bridge[c].handles
                        /\ bridge'[c].rpc = IF c = b THEN {<<p, call>>} ELSE bridge[c].rpc
  BY DEF Sends, Waiting
<1>1. SeatTypes' /\ WireTypes' /\ PastTypes'
  BY DEF ChannelInv, SeatTypes, WireTypes, PastTypes, Sends, PromptGoes, Waiting, SeatStep
<1>2. Serial'
  <2> SUFFICES ASSUME NEW q \in Prompts
               PROVE  /\ prompt'[q].at \notin Waits => AtWork(q)'
                      /\ prompt'[q].at = "spawn" => runtime'.agent = 0 /\ Next1' \in Starts
                      /\ prompt'[q].at = "closing" => runtime'.agent = 0
                      /\ prompt'[q].at \in {"init"} \cup Calls => runtime'.agent # 0
                      /\ prompt'[q].at \in Calls =>
                           <<q, prompt'[q].at>> \in bridge'[runtime'.agent].rpc
    BY DEF Serial
  <2>1. AtWork(q)' <=> AtWork(q)
    BY DEF AtWork, Sends
  <2>2. Next1' = Next1 /\ runtime'.agent = runtime.agent
    BY <1>b, NextStays DEF Sends
  <2>3. QED
    <3>1. CASE q = p
      BY <1>c, <1>b, <2>1, <2>2, <3>1, StartsAre DEF Sends, PromptGoes
    <3>2. CASE q # p
      <4>1. prompt'[q] = prompt[q] /\ ~AtWork(q)
        BY <1>p, <3>2 DEF AtWork
      <4>2. prompt'[q].at \in Waits
        BY <4>1 DEF ChannelInv, Serial
      <4>3. QED
        BY <4>2 DEF Waits, Calls
    <3>3. QED
      BY <3>1, <3>2
<1>3. OneAgent'
  <2>1. \A c \in Starts : Open(c)' => c = runtime'.agent
    BY <1>b DEF ChannelInv, OneAgent, Open, Sends
  <2>2. ASSUME NEW c \in Starts, NEW x \in bridge'[c].rpc
        PROVE  /\ c = runtime'.agent /\ prompt'[x[1]].at = x[2]
               /\ x[2] # "initialize" => runtime'.active = x[1]
    <3>1. c = b
      BY <1>b, <2>2 DEF ChannelInv, OneAgent
    <3>2. x = <<p, call>>
      BY <1>b, <2>2, <3>1
    <3>3. QED
      BY <3>1, <3>2 DEF Sends, PromptGoes
  <2>3. UNCHANGED permission /\ runtime'.agent = runtime.agent
        /\ bridge'[b].handles = bridge[b].handles
    BY <1>b DEF Sends, SeatStep
  <2>4. QED
    BY <2>1, <2>2, <2>3 DEF ChannelInv, OneAgent
<1>4. Numbered'
  BY <1>b, NumberedStays DEF ChannelInv, SeatStep
<1>5. Unbridged'
  <2>1. ASSUME NEW n \in Starts, Fresh(n), \A c \in Starts : bridge[c].proc # n
        PROVE  stdin'[n] = <<>> /\ stdout'[n] = <<>> /\ process'[n].works = {}
    BY <2>1 DEF Fresh, Sends, SeatStep
  <2>2. QED
    BY <1>b, <2>1, UnbridgedStays DEF ChannelInv
<1>6. InFlight'
  <2> SUFFICES ASSUME ~late', NEW c \in Starts, Heard(c)'
               PROVE  Flight(c)'
    BY DEF InFlight
  <2>1. c = b /\ Heard(b) /\ bridge'[b].rpc = {<<p, call>>} /\ bridge'[b].proc = bridge[b].proc
    BY <1>b DEF Heard, Open, ChannelInv, OneAgent
  <2> DEFINE n == bridge[b].proc
  <2>2. n \in Starts
    BY <2>1 DEF Heard, Open, ChannelInv, WireTypes, BridgeRows
  <2>3. /\ stdin[n] = <<>> /\ process'[n].works = {} /\ stdin[n] \in Seq(Requests)
        /\ \A i \in DOMAIN stdout'[n] : stdout'[n][i].t = "ask"
    BY <2>1, <2>2 DEF SeatStep, ChannelInv, WireTypes
  <2>4. stdin'[n] = stdin[n]
        \/ \E m \in Requests : m.of = p /\ m.call = call /\ stdin'[n] = Append(stdin[n], m)
    BY <2>2 DEF Sends
  <2>5. /\ Len(stdin'[n]) <= 1
        /\ \A i \in DOMAIN stdin'[n] : stdin'[n][i].of = p /\ stdin'[n][i].call = call
    <3>1. CASE stdin'[n] = stdin[n]
      BY <2>3, <3>1
    <3>2. ASSUME NEW m \in Requests, m.of = p, m.call = call, stdin'[n] = Append(stdin[n], m)
          PROVE  /\ Len(stdin'[n]) <= 1
                 /\ \A i \in DOMAIN stdin'[n] : stdin'[n][i].of = p /\ stdin'[n][i].call = call
      BY <2>3, <3>2, Appended
    <3>3. QED
      BY <2>4, <3>1, <3>2
  <2> HIDE DEF n
  <2>6. QED
    BY <2>1, <2>3, <2>5 DEF Flight, Carried, n
<1>7. AnsweredByWork'
  BY <1>p DEF ChannelInv, AnsweredByWork, Sends, SeatStep
<1>8. GrantedByUser' /\ UpdatesAttributed'
  BY DEF ChannelInv, GrantedByUser, UpdatesAttributed, SeatStep, PastTypes
<1>9. QED
  BY <1>1, <1>2, <1>3, <1>4, <1>5, <1>6, <1>7, <1>8 DEF ChannelInv

\* The bridges wait for nothing.
NoneWaits ==
  /\ bridge' \in [Starts -> BridgeRows]
  /\ \A c \in Starts :
       /\ bridge'[c].proc = bridge[c].proc /\ bridge'[c].closed = bridge[c].closed
       /\ bridge'[c].deaf = bridge[c].deaf /\ bridge'[c].handles = bridge[c].handles
       /\ bridge'[c].rpc = {}

LEMMA FinishKeeps ==
  ASSUME ChannelInv, NEW p \in Prompts, AtWork(p), NEW result, Finishes(p, result),
         result = "ok" => p \in done, NoneWaits, UNCHANGED stdin,
         \A b \in Starts : b = runtime.agent => SeatStep(b),
         runtime.agent = 0 => UNCHANGED <<scene, process, inst, stdout, permission, past>>
  PROVE  ChannelInv'
<1>0. opQueue \in Seq(Prompts) /\ opQueue # <<>> /\ Head(opQueue) = p
  BY DEF AtWork, ChannelInv, SeatTypes
<1>p. \A q \in Prompts : prompt'[q] = IF q = p THEN prompt'[p] ELSE prompt[q]
  BY DEF Finishes, PromptGoes
<1>b. \A c \in Starts : /\ bridge'[c].proc = bridge[c].proc /\ bridge'[c].closed = bridge[c].closed
                        /\ bridge'[c].deaf = bridge[c].deaf /\ bridge'[c].handles = bridge[c].handles
                        /\ bridge'[c].rpc = {}
  BY DEF NoneWaits
<1>r. /\ UNCHANGED <<scene, process, inst, permission, sessions, done, selected, granted, misheard>>
      /\ stored' \in Nat /\ late' \in BOOLEAN /\ (late => late')
      /\ stdout' \in [Starts -> Seq(Said(done))]
      /\ \A n \in Starts : stdout[n] = <<>> => stdout'[n] = <<>>
  <2>1. runtime.agent \in Starts \cup {0}
    BY DEF ChannelInv, SeatTypes, RuntimeRows
  <2>2. CASE runtime.agent = 0
    BY <2>2 DEF past, ChannelInv, PastTypes, WireTypes
  <2>3. CASE runtime.agent \in Starts
    BY <2>3 DEF SeatStep
  <2>4. QED
    BY <2>1, <2>2, <2>3
<1>1. SeatTypes' /\ WireTypes' /\ PastTypes'
  <2>1. opQueue' \in Seq(Prompts)
    BY <1>0, Dropped DEF Finishes
  <2>2. QED
    BY <1>r, <2>1
       DEF ChannelInv, SeatTypes, WireTypes, PastTypes, Finishes, PromptGoes, NoneWaits
<1>2. Serial'
  <2>1. \A q \in Prompts : prompt'[q].at \in Waits
    BY <1>0, <1>p DEF ChannelInv, Serial, AtWork, Finishes, PromptGoes, Waits
  <2>2. QED
    BY <2>1 DEF Serial, Waits, Calls
<1>3. OneAgent'
  <2>1. \A c \in Starts : Open(c)' => c = runtime'.agent
    BY <1>b DEF ChannelInv, OneAgent, Open, Finishes
  <2>2. runtime'.agent = runtime.agent /\ runtime.agent \in Starts \cup {0}
    BY DEF Finishes, ChannelInv, SeatTypes, RuntimeRows
  <2>3. QED
    BY <1>b, <1>r, <2>1, <2>2 DEF ChannelInv, OneAgent
<1>4. Numbered'
  BY <1>b, <1>r, NumberedStays DEF ChannelInv
<1>5. Unbridged'
  BY <1>b, <1>r, UnbridgedStays DEF ChannelInv, Fresh
<1>6. InFlight'
  <2> SUFFICES ASSUME ~late', NEW c \in Starts, Heard(c)'
               PROVE  Flight(c)'
    BY DEF InFlight
  <2>1. c = runtime.agent /\ Heard(c) /\ bridge'[c].proc = bridge[c].proc
    BY <1>b DEF Heard, Open, ChannelInv, OneAgent
  <2> DEFINE n == bridge[c].proc
  <2>2. /\ stdin'[n] = <<>> /\ process'[n].works = {}
        /\ \A i \in DOMAIN stdout'[n] : stdout'[n][i].t = "ask"
    BY <2>1 DEF SeatStep
  <2> HIDE DEF n
  <2>3. Carried(stdin'[n], process'[n].works, stdout'[n], bridge'[c].rpc)
    BY <2>2 DEF Carried
  <2>4. QED
    BY <2>1, <2>3 DEF Flight, n
<1>7. AnsweredByWork'
  BY <1>p, <1>r DEF ChannelInv, AnsweredByWork, Finishes
<1>8. GrantedByUser' /\ UpdatesAttributed'
  BY <1>r DEF ChannelInv, GrantedByUser, UpdatesAttributed, PastTypes
<1>9. QED
  BY <1>1, <1>2, <1>3, <1>4, <1>5, <1>6, <1>7, <1>8 DEF ChannelInv

-----------------------------------------------------------------------------
(* What is read, and what is not there.                                      *)

LEMMA SaidIs ==
  ASSUME NEW D, D \subseteq Prompts, NEW m \in Said(D)
  PROVE  /\ m.t \in {"answer", "update", "ask"}
         /\ m.t = "answer" => /\ m.of \in Prompts /\ m.call \in Calls /\ m.ok \in BOOLEAN
                              /\ m.sess \in Nat /\ (m.ok /\ m.call \in PromptCalls => m.of \in D)
         /\ m.t = "update" => m.of \in Prompts
         /\ m.t = "ask" => m.id \in Nat \ {0}
BY DEF Said, Calls, PromptCalls

\* A bridge that waits for nothing: nothing is on its way but what the agent asks.
LEMMA Quiet ==
  ASSUME ChannelInv, NEW b \in Starts, Heard(b), ~late, bridge[b].rpc = {}
  PROVE  LET n == bridge[b].proc IN
         /\ n \in Starts /\ stdin[n] = <<>> /\ process[n].works = {}
         /\ \A i \in DOMAIN stdout[n] : stdout[n][i].t = "ask"
<1> DEFINE n == bridge[b].proc
<1>1. n \in Starts
  BY DEF Heard, Open, ChannelInv, WireTypes, BridgeRows
<1>2. Flight(b)
  BY DEF ChannelInv, InFlight
<1>3. process[n].works = {} /\ DOMAIN stdin[n] = {}
  BY <1>2 DEF Flight, Carried
<1>4. stdin[n] = <<>>
  <2>1. stdin[n] \in Seq(Requests)
    BY <1>1 DEF ChannelInv, WireTypes
  <2>2. stdin[n] # <<>> => 1 \in DOMAIN stdin[n]
    BY <2>1, Dropped
  <2>3. QED
    BY <1>3, <2>2
<1>5. ASSUME NEW i \in DOMAIN stdout[n] PROVE stdout[n][i].t = "ask"
  <2>1. stdout[n][i] \in Said(done) /\ done \subseteq Prompts
    BY <1>1, <1>5 DEF ChannelInv, WireTypes, PastTypes
  <2>2. stdout[n][i].t \notin {"answer", "update"}
    BY <1>2, <1>5 DEF Flight, Carried
  <2>3. QED
    BY <2>1, <2>2, SaidIs
<1>6. QED
  BY <1>1, <1>3, <1>4, <1>5

LEMMA QuietStep ==
  ASSUME ChannelInv, NEW b \in Starts, bridge[b].rpc = {},
         UNCHANGED <<scene, process, inst, stdout, permission, past>>
  PROVE  SeatStep(b)
<1>1. /\ UNCHANGED <<scene, process, inst, permission, sessions, done, selected, granted, misheard>>
      /\ stored' \in Nat /\ late' \in BOOLEAN /\ (late => late') /\ late' = late /\ stdout' = stdout
      /\ stdout' \in [Starts -> Seq(Said(done))]
  BY DEF past, ChannelInv, PastTypes, WireTypes
<1>2. QED
  BY <1>1, Quiet DEF SeatStep

LEMMA OpenAgainKeeps ==
  ASSUME ChannelInv, NEW p \in Prompts, OpenAgain(p)
  PROVE  ChannelInv'
<1> DEFINE b == runtime.agent
<1>1. /\ AtWork(p) /\ prompt[p].at = "queued" /\ b # 0
      /\ UNCHANGED <<scene, process, inst, stdout, permission, past>>
      /\ IF runtime.initialized
         THEN FindSession(b, p, {})
         ELSE SendRpc(b, p, "initialize", prompt[p].sess, {}) /\ UNCHANGED runtime
  BY DEF OpenAgain
<1>2. b \in Starts /\ runtime \in RuntimeRows /\ prompt[p].sess \in Nat
  <2>1. runtime \in RuntimeRows /\ prompt[p] \in PromptRows
    BY DEF ChannelInv, SeatTypes
  <2>2. QED
    BY <1>1, <2>1 DEF RuntimeRows, PromptRows
<1>3. bridge[b].rpc = {}
  BY <1>1, <1>2, NoCall DEF Calls
<1>4. SeatStep(b)
  BY <1>1, <1>2, <1>3, QuietStep
<1>5. \E call \in Calls : Sends(b, p, call)
  <2>1. CASE runtime.initialized
    BY <1>1, <1>2, <1>3, <2>1, FindEffect
  <2>2. CASE ~runtime.initialized
    <3>1. SendRpc(b, p, "initialize", prompt[p].sess, {}) /\ runtime' = runtime
      BY <1>1, <2>2
    <3>2. Sends(b, p, "initialize")
      BY <1>2, <1>3, <3>1, SendEffect DEF Calls
    <3>3. QED
      BY <3>2 DEF Calls
  <2>3. QED
    BY <2>1, <2>2
<1>6. QED
  BY <1>1, <1>2, <1>4, <1>5, SendsKeeps

LEMMA InitDoneKeeps ==
  ASSUME ChannelInv, NEW p \in Prompts, InitDone(p)
  PROVE  ChannelInv'
<1> DEFINE b == runtime.agent
<1>1. /\ AtWork(p) /\ prompt[p].at = "init"
      /\ runtime' = [runtime EXCEPT !.suppress = FALSE]
      /\ SendRpc(b, p, "initialize", prompt[p].sess, {})
      /\ UNCHANGED <<scene, process, inst, stdout, permission, past>>
  BY DEF InitDone
<1>2. b \in Starts /\ prompt[p].sess \in Nat /\ runtime' \in RuntimeRows
      /\ runtime'.agent = runtime.agent
  <2>1. runtime \in RuntimeRows /\ prompt[p] \in PromptRows /\ b # 0
    BY <1>1 DEF ChannelInv, SeatTypes, Serial
  <2>2. QED
    BY <1>1, <2>1 DEF RuntimeRows, PromptRows
<1>3. bridge[b].rpc = {}
  BY <1>1, <1>2, NoCall DEF Calls
<1>4. SeatStep(b)
  BY <1>1, <1>2, <1>3, QuietStep
<1>5. Sends(b, p, "initialize")
  BY <1>1, <1>2, <1>3, SendEffect DEF Calls
<1>6. QED
  BY <1>1, <1>2, <1>4, <1>5, SendsKeeps DEF Calls

LEMMA UnopenedKeeps ==
  ASSUME ChannelInv, NEW p \in Prompts, Unopened(p)
  PROVE  ChannelInv'
<1>1. /\ AtWork(p) /\ prompt[p].at = "queued" /\ runtime.agent = 0
      /\ Answer(p, "failed") /\ UNCHANGED <<scene, wires, permission, past>>
  BY DEF Unopened
<1>2. Finishes(p, "failed")
  BY <1>1, AnswerEffect
<1>3. \A c \in Starts : bridge[c].rpc = {}
  BY <1>1, NoCall DEF Calls
<1>4. bridge' = bridge /\ UNCHANGED <<process, inst, stdin, stdout>>
  BY <1>1 DEF wires
<1>5. NoneWaits
  BY <1>3, <1>4 DEF NoneWaits, ChannelInv, WireTypes
<1>6. UNCHANGED <<scene, process, inst, stdout, permission, past>>
  BY <1>1, <1>4
<1>7. \A b \in Starts : b # runtime.agent
  BY <1>1, StartsAre
<1>8. QED
  BY <1>1, <1>2, <1>4, <1>5, <1>6, <1>7, FinishKeeps

LEMMA WriteFailsKeeps ==
  ASSUME ChannelInv, NEW p \in Prompts, WriteFails(p)
  PROVE  ChannelInv'
<1>1. /\ AtWork(p) /\ prompt[p].at = "closing"
      /\ Answer(p, "failed") /\ UNCHANGED <<scene, wires, permission, past>>
  BY DEF WriteFails
<1>2. Finishes(p, "failed")
  BY <1>1, AnswerEffect
<1>3. \A c \in Starts : bridge[c].rpc = {}
  BY <1>1, NoCall DEF Calls
<1>4. bridge' = bridge /\ UNCHANGED <<process, inst, stdin, stdout>>
  BY <1>1 DEF wires
<1>5. NoneWaits
  BY <1>3, <1>4 DEF NoneWaits, ChannelInv, WireTypes
<1>6. UNCHANGED <<scene, process, inst, stdout, permission, past>>
  BY <1>1, <1>4
<1>7. \A b \in Starts : b # runtime.agent
  BY <1>1, StartsAre DEF ChannelInv, Serial
<1>8. QED
  BY <1>1, <1>2, <1>4, <1>5, <1>6, <1>7, FinishKeeps

\* Without the calls of the agent's bridge, nothing waits.
LEMMA WaitsNone ==
  ASSUME ChannelInv, NEW b \in Starts, b = runtime.agent, Waiting(b, {})
  PROVE  NoneWaits
<1>1. \A c \in Starts \ {b} : bridge[c].rpc = {}
  BY DEF ChannelInv, OneAgent
<1>2. QED
  BY <1>1 DEF Waiting, NoneWaits

LEMMA TimesOutKeeps ==
  ASSUME ChannelInv, NEW p \in Prompts, TimesOut(p)
  PROVE  ChannelInv'
<1> DEFINE b == runtime.agent
           call == prompt[p].at
<1>1. /\ AtWork(p) /\ call \in Calls /\ <<p, call>> \in bridge[b].rpc
      /\ Goes(b, p, call, "timeout", 0) /\ late' = TRUE
      /\ UNCHANGED <<scene, process, inst, stdout, permission, stored, sessions, done, selected,
                     granted, misheard>>
  BY DEF TimesOut
<1>2. b \in Starts
  <2>1. runtime \in RuntimeRows /\ b # 0
    BY <1>1 DEF ChannelInv, SeatTypes, Serial
  <2>2. QED
    BY <2>1 DEF RuntimeRows
<1>3. SeatStep(b)
  <2>1. stored \in Nat /\ stdout \in [Starts -> Seq(Said(done))]
    BY DEF ChannelInv, PastTypes, WireTypes
  <2>2. QED
    BY <1>1, <2>1 DEF SeatStep
<1>4. CASE \E next \in Calls : Sends(b, p, next)
  BY <1>1, <1>2, <1>3, <1>4, SendsKeeps
<1>5. ASSUME NEW result \in {"ok", "failed"}, Finishes(p, result), Waiting(b, {}), UNCHANGED stdin,
             result # "ok"
      PROVE  ChannelInv'
  <2>1. NoneWaits
    BY <1>2, <1>5, WaitsNone
  <2>2. b # 0
    BY <1>2, StartsAre
  <2>3. QED
    BY <1>1, <1>3, <1>5, <2>1, <2>2, FinishKeeps
<1>6. QED
  BY <1>1, <1>2, <1>4, <1>5, GoesEffect

-----------------------------------------------------------------------------
(* The steps of the agent, of its process and of the users.                  *)

\* The operations stay where they are, and the bridges wait for what they waited for.
TalkStep ==
  /\ UNCHANGED <<scene, prompt, opQueue, stored, late>>
  /\ runtime' \in RuntimeRows /\ runtime'.agent = runtime.agent /\ runtime'.active = runtime.active
  /\ SameBridges
  /\ process' \in [Starts -> ProcessRows] /\ inst' \in {inst, 0}
  /\ stdin' \in [Starts -> Seq(Requests)] /\ stdout' \in [Starts -> Seq(Said(done'))]
  /\ sessions' \in Nat /\ done \subseteq done' /\ done' \subseteq Prompts /\ misheard' \in BOOLEAN

\* What is on its way stays in one place, and processes without a bridge stay untold.
Flows ==
  /\ \A b \in Starts : ~late /\ Heard(b) => Flight(b)'
  /\ \A n \in Starts : Fresh(n) /\ (\A b \in Starts : bridge[b].proc # n) => Fresh(n)'

UsersWait ==
  \A id \in DOMAIN permission' :
    /\ id # 0 /\ permission'[id] = runtime.agent
    /\ runtime.agent # 0 /\ bridge'[runtime.agent].handles = id

LEMMA TalkKeeps ==
  ASSUME ChannelInv, TalkStep, Flows, UsersWait, GrantedByUser', UpdatesAttributed'
  PROVE  ChannelInv'
<1>b. \A b \in Starts : /\ bridge'[b].proc = bridge[b].proc /\ bridge'[b].closed = bridge[b].closed
                        /\ bridge'[b].deaf = bridge[b].deaf /\ bridge'[b].rpc = bridge[b].rpc
  BY DEF TalkStep, SameBridges
<1>r. /\ prompt' = prompt /\ opQueue' = opQueue /\ runtime'.agent = runtime.agent
      /\ runtime'.active = runtime.active /\ late' = late
  BY DEF TalkStep
<1>1. SeatTypes' /\ WireTypes' /\ PastTypes'
  <2>1. inst' \in Starts \cup {0}
    BY DEF TalkStep, ChannelInv, WireTypes
  <2>2. QED
    BY <2>1 DEF ChannelInv, SeatTypes, WireTypes, PastTypes, TalkStep, SameBridges
<1>2. Serial'
  <2>1. Next1' = Next1
    BY <1>b, NextStays
  <2>2. \A q \in Prompts : AtWork(q)' <=> AtWork(q)
    BY <1>r DEF AtWork
  <2>3. runtime.agent \in Starts \cup {0}
    BY DEF ChannelInv, SeatTypes, RuntimeRows
  <2>4. ASSUME NEW q \in Prompts, prompt'[q].at \in Calls
        PROVE  <<q, prompt'[q].at>> \in bridge'[runtime'.agent].rpc
    <3>1. runtime.agent # 0 /\ <<q, prompt[q].at>> \in bridge[runtime.agent].rpc
      BY <1>r, <2>4 DEF ChannelInv, Serial
    <3>2. QED
      BY <1>r, <1>b, <2>3, <3>1
  <2>5. QED
    BY <1>r, <2>1, <2>2, <2>4 DEF ChannelInv, Serial
<1>3. OneAgent'
  <2>1. \A c \in Starts : Open(c)' => c = runtime'.agent
    BY <1>r, <1>b DEF ChannelInv, OneAgent, Open
  <2>2. \A c \in Starts : \A x \in bridge'[c].rpc :
          /\ c = runtime'.agent /\ prompt'[x[1]].at = x[2]
          /\ x[2] # "initialize" => runtime'.active = x[1]
    BY <1>r, <1>b DEF ChannelInv, OneAgent
  <2>3. QED
    BY <1>r, <2>1, <2>2 DEF OneAgent, UsersWait
<1>4. Numbered'
  BY <1>b, NumberedStays DEF ChannelInv, TalkStep
<1>5. Unbridged'
  BY <1>b, UnbridgedStays DEF ChannelInv, Flows, Fresh
<1>6. InFlight'
  <2>1. \A b \in Starts : Heard(b)' => Heard(b)
    BY <1>b DEF Heard, Open
  <2>2. QED
    BY <1>r, <2>1 DEF InFlight, Flows
<1>7. AnsweredByWork'
  BY DEF ChannelInv, AnsweredByWork, TalkStep
<1>8. QED
  BY <1>1, <1>2, <1>3, <1>4, <1>5, <1>6, <1>7 DEF ChannelInv

\* The users have nothing to say while the bridge handles none of their requests.
LEMMA NobodyAsked ==
  ASSUME ChannelInv, NEW b \in Starts, Open(b), bridge[b].handles \notin DOMAIN permission
  PROVE  b = runtime.agent /\ DOMAIN permission = {}
BY DEF ChannelInv, OneAgent

\* A bridge row goes to another.
LEMMA BridgePut ==
  ASSUME ChannelInv, NEW n \in Starts, NEW row \in BridgeRows, bridge' = [bridge EXCEPT ![n] = row]
  PROVE  bridge' \in [Starts -> BridgeRows]
         /\ \A k \in Starts : bridge'[k] = IF k = n THEN row ELSE bridge[k]
BY Put DEF ChannelInv, WireTypes

LEMMA Handles ==
  ASSUME ChannelInv, NEW b \in Starts, NEW h \in Nat, bridge' = [bridge EXCEPT ![b].handles = h]
  PROVE  SameBridges /\ \A c \in Starts : bridge'[c].handles = IF c = b THEN h ELSE bridge[c].handles
<1> DEFINE line == [bridge[b] EXCEPT !.handles = h]
<1>1. bridge \in [Starts -> BridgeRows] /\ bridge[b] \in BridgeRows
  BY DEF ChannelInv, WireTypes
<1>2. /\ line \in BridgeRows /\ line.proc = bridge[b].proc /\ line.closed = bridge[b].closed
      /\ line.deaf = bridge[b].deaf /\ line.handles = h /\ line.rpc = bridge[b].rpc
  BY <1>1 DEF BridgeRows
<1>3. bridge' = [bridge EXCEPT ![b] = line]
  OBVIOUS
<1> HIDE DEF line
<1>4. bridge' \in [Starts -> BridgeRows] /\ \A c \in Starts : bridge'[c] = IF c = b THEN line ELSE bridge[c]
  BY <1>2, <1>3, BridgePut
<1>5. SameBridges
  BY <1>2, <1>4 DEF SameBridges
<1>6. QED
  BY <1>2, <1>4, <1>5

LEMMA StillSame ==
  ASSUME ChannelInv, bridge' = bridge
  PROVE  SameBridges /\ \A c \in Starts : bridge'[c].handles = bridge[c].handles
BY DEF ChannelInv, WireTypes, SameBridges

\* A process row goes to another.
LEMMA ProcessPut ==
  ASSUME ChannelInv, NEW n \in Starts, NEW row \in ProcessRows, process' = [process EXCEPT ![n] = row]
  PROVE  process' \in [Starts -> ProcessRows]
         /\ \A k \in Starts : process'[k] = IF k = n THEN row ELSE process[k]
BY Put DEF ChannelInv, WireTypes

\* The command of a process starts or ends.
LEMMA CommandSet ==
  ASSUME ChannelInv, NEW n \in Starts, NEW on \in BOOLEAN,
         process' = [process EXCEPT ![n].command = on]
  PROVE  process' \in [Starts -> ProcessRows]
         /\ \A k \in Starts : process'[k].works = process[k].works
<1> DEFINE row == [process[n] EXCEPT !.command = on]
<1>1. process[n] \in ProcessRows
  BY DEF ChannelInv, WireTypes
<1>2. row \in ProcessRows /\ row.works = process[n].works
  BY <1>1 DEF ProcessRows
<1>3. process' = [process EXCEPT ![n] = row]
  OBVIOUS
<1> HIDE DEF row
<1>4. QED
  BY <1>2, <1>3, ProcessPut

\* With the wires as they were, everything is where it was.
LEMMA StillFlows ==
  ASSUME ChannelInv, SameBridges, UNCHANGED <<stdin, stdout>>,
         \A k \in Starts : process'[k].works = process[k].works
  PROVE  Flows
<1>1. ASSUME NEW b \in Starts, ~late, Heard(b) PROVE Flight(b)'
  <2>1. Flight(b) /\ bridge[b].proc \in Starts
    BY <1>1 DEF ChannelInv, InFlight, Heard, Open, WireTypes, BridgeRows
  <2>2. QED
    BY <2>1 DEF Flight, SameBridges
<1>2. QED
  BY <1>1 DEF Flows, Fresh

\* The next message is taken from the stdout of an agent.
LEMMA Taken ==
  ASSUME ChannelInv, NEW b \in Starts, Hears(b), Take(b)
  PROVE  LET n == bridge[b].proc
             m == Head(stdout[n])
         IN /\ n \in Starts /\ b = runtime.agent /\ Heard(b) /\ bridge[b].handles = 0
            /\ m \in Said(done) /\ m = stdout[n][1] /\ 1 \in DOMAIN stdout[n]
            /\ stdout' \in [Starts -> Seq(Said(done))]
            /\ \A k \in Starts : stdout[k] = <<>> => stdout'[k] = <<>>
            /\ \A i \in DOMAIN stdout'[n] :
                 i + 1 \in DOMAIN stdout[n] /\ stdout'[n][i] = stdout[n][i + 1]
            /\ Len(stdout[n]) \in Nat /\ Len(stdout'[n]) = Len(stdout[n]) - 1
            /\ Len(stdout[n]) = 1 => stdout'[n] = <<>>
<1> DEFINE n == bridge[b].proc
           m == Head(stdout[n])
<1>1. /\ Open(b) /\ ~bridge[b].deaf /\ bridge[b].handles = 0 /\ stdout[n] # <<>>
      /\ stdout' = [stdout EXCEPT ![n] = Tail(stdout[n])]
  BY DEF Hears, Take
<1>2. n \in Starts /\ b = runtime.agent
  BY <1>1 DEF Open, ChannelInv, WireTypes, BridgeRows, OneAgent
<1>3. stdout \in [Starts -> Seq(Said(done))] /\ stdout[n] \in Seq(Said(done))
  BY <1>2 DEF ChannelInv, WireTypes
<1>4. /\ Head(stdout[n]) \in Said(done) /\ Tail(stdout[n]) \in Seq(Said(done))
      /\ Len(stdout[n]) \in Nat \ {0}
      /\ Head(stdout[n]) = stdout[n][1] /\ 1 \in DOMAIN stdout[n]
      /\ Len(Tail(stdout[n])) = Len(stdout[n]) - 1
      /\ \A i \in DOMAIN Tail(stdout[n]) :
           i + 1 \in DOMAIN stdout[n] /\ Tail(stdout[n])[i] = stdout[n][i + 1]
      /\ Len(stdout[n]) = 1 => Tail(stdout[n]) = <<>>
  BY <1>1, <1>3, Dropped
<1>5. /\ stdout' \in [Starts -> Seq(Said(done))] /\ stdout'[n] = Tail(stdout[n])
      /\ \A k \in Starts \ {n} : stdout'[k] = stdout[k]
  BY <1>1, <1>2, <1>3, <1>4
<1>6. \A k \in Starts : stdout[k] = <<>> => stdout'[k] = <<>>
  BY <1>1, <1>5
<1>7. Heard(b)
  BY <1>1 DEF Heard
<1> HIDE DEF n
<1>8. QED
  BY <1>1, <1>2, <1>4, <1>5, <1>6, <1>7 DEF n

LEMMA TakeFlows ==
  ASSUME ChannelInv, NEW b \in Starts, Hears(b), Take(b), SameBridges, UNCHANGED stdin,
         \A k \in Starts : process'[k].works = process[k].works
  PROVE  Flows
<1> DEFINE n == bridge[b].proc
<1>1. /\ n \in Starts /\ b = runtime.agent
      /\ \A k \in Starts : stdout[k] = <<>> => stdout'[k] = <<>>
      /\ \A i \in DOMAIN stdout'[n] :
           i + 1 \in DOMAIN stdout[n] /\ stdout'[n][i] = stdout[n][i + 1]
      /\ Len(stdout[n]) \in Nat /\ Len(stdout'[n]) = Len(stdout[n]) - 1
      /\ stdout' \in [Starts -> Seq(Said(done))]
  BY Taken
<1>2. ASSUME NEW c \in Starts, ~late, Heard(c) PROVE Flight(c)'
  <2>1. c = b
    BY <1>1, <1>2 DEF ChannelInv, OneAgent, Heard
  <2>2. Flight(b)
    BY <1>2, <2>1 DEF ChannelInv, InFlight
  <2>3. DOMAIN stdout'[n] \subseteq Nat
    BY <1>1
  <2>4. ASSUME NEW i \in DOMAIN stdout'[n]
        PROVE  /\ stdout'[n][i].t = "answer" =>
                    /\ <<stdout'[n][i].of, stdout'[n][i].call>> \in bridge[b].rpc
                    /\ i = Len(stdout'[n]) /\ process[n].works = {} /\ stdin[n] = <<>>
               /\ stdout'[n][i].t = "update" =>
                    \E k \in PromptCalls : <<stdout'[n][i].of, k>> \in bridge[b].rpc
    <3>1. i + 1 \in DOMAIN stdout[n] /\ stdout'[n][i] = stdout[n][i + 1]
      BY <1>1, <2>4
    <3>2. i \in Nat /\ (i + 1 = Len(stdout[n]) => i = Len(stdout'[n]))
      <4>1. i \in Nat
        BY <2>3, <2>4
      <4>2. QED
        BY <1>1, <4>1
    <3>3. /\ stdout[n][i + 1].t = "answer" =>
               /\ <<stdout[n][i + 1].of, stdout[n][i + 1].call>> \in bridge[b].rpc
               /\ i + 1 = Len(stdout[n]) /\ process[n].works = {} /\ stdin[n] = <<>>
          /\ stdout[n][i + 1].t = "update" =>
               \E k \in PromptCalls : <<stdout[n][i + 1].of, k>> \in bridge[b].rpc
      BY <2>2, <3>1 DEF Flight, Carried
    <3>4. QED
      BY <3>1, <3>2, <3>3
  <2>5. bridge'[b].proc = n /\ bridge'[b].rpc = bridge[b].rpc
    BY DEF SameBridges
  <2>6. Carried(stdin[n], process[n].works, stdout'[n], bridge[b].rpc)
    BY <2>2, <2>4 DEF Flight, Carried
  <2>7. QED
    BY <1>1, <2>1, <2>5, <2>6 DEF Flight
<1>3. QED
  BY <1>1, <1>2 DEF Flows, Fresh

LEMMA ReadAnswerKeeps ==
  ASSUME ChannelInv, NEW b \in Starts, ReadAnswer(b)
  PROVE  ChannelInv'
<1> DEFINE n == bridge[b].proc
           m == Head(stdout[n])
           outcome == IF m.ok THEN "ok" ELSE IF m.call = "prompt" THEN "lost" ELSE "failed"
<1>1. /\ Hears(b) /\ Take(b) /\ m.t = "answer"
      /\ UNCHANGED <<scene, process, inst, permission, sessions, done, selected, granted, misheard, late>>
  BY DEF ReadAnswer
<1>2. /\ n \in Starts /\ b = runtime.agent /\ Heard(b)
      /\ m \in Said(done) /\ m = stdout[n][1] /\ 1 \in DOMAIN stdout[n]
      /\ stdout' \in [Starts -> Seq(Said(done))]
      /\ \A k \in Starts : stdout[k] = <<>> => stdout'[k] = <<>>
      /\ Len(stdout[n]) = 1 => stdout'[n] = <<>>
  BY <1>1, Taken
<1>3. /\ m.of \in Prompts /\ m.call \in Calls /\ m.sess \in Nat /\ m.ok \in BOOLEAN
      /\ m.ok /\ m.call \in PromptCalls => m.of \in done
  BY <1>1, <1>2, SaidIs DEF ChannelInv, PastTypes
<1>4. CASE <<m.of, m.call>> \in bridge[b].rpc
  <2>1. /\ Goes(b, m.of, m.call, outcome, m.sess)
        /\ stored' = IF m.ok /\ m.sess # 0 THEN m.sess ELSE stored
    BY <1>4 DEF ReadAnswer
  <2>2. AtWork(m.of)
    <3>1. AtWork(<<m.of, m.call>>[1])
      BY <1>4, OneCall
    <3>2. QED
      BY <3>1
  <2>3. SeatStep(b)
    <3>1. stored' \in Nat
      BY <1>3, <2>1 DEF ChannelInv, PastTypes
    <3>2. late' = late /\ late \in BOOLEAN
      BY <1>1 DEF ChannelInv, PastTypes
    <3>3. ASSUME ~late'
          PROVE  /\ stdin[n] = <<>> /\ process[n].works = {}
                 /\ \A i \in DOMAIN stdout'[n] : stdout'[n][i].t = "ask"
      <4>1. Carried(stdin[n], process[n].works, stdout[n], bridge[b].rpc)
        BY <1>2, <3>2, <3>3 DEF ChannelInv, InFlight, Flight
      <4>2. 1 = Len(stdout[n]) /\ process[n].works = {} /\ stdin[n] = <<>>
        BY <1>1, <1>2, <4>1 DEF Carried
      <4>3. DOMAIN stdout'[n] = {}
        BY <1>2, <4>2
      <4>4. QED
        BY <4>2, <4>3
    <3>4. QED
      BY <1>1, <1>2, <3>1, <3>2, <3>3 DEF SeatStep
  <2> HIDE DEF m, outcome, n
  <2>4. CASE \E next \in Calls : Sends(b, m.of, next)
    BY <1>2, <1>3, <2>2, <2>3, <2>4, SendsKeeps
  <2>5. ASSUME NEW result \in {"ok", "failed"}, Finishes(m.of, result), Waiting(b, {}), UNCHANGED stdin,
               result = "ok" => m.call \in PromptCalls /\ outcome = "ok"
        PROVE  ChannelInv'
    <3>1. NoneWaits
      BY <1>2, <2>5, WaitsNone
    <3>2. b # 0
      BY StartsAre
    <3>3. result = "ok" => m.of \in done
      BY <1>3, <2>5 DEF outcome
    <3>4. QED
      BY <1>2, <1>3, <2>2, <2>3, <2>5, <3>1, <3>2, <3>3, FinishKeeps
  <2>6. QED
    BY <1>3, <1>4, <2>1, <2>4, <2>5, GoesEffect
<1>5. CASE <<m.of, m.call>> \notin bridge[b].rpc
  <2>1. UNCHANGED <<seat, bridge, stdin, stored>>
    BY <1>5 DEF ReadAnswer
  <2>2. SameBridges /\ \A c \in Starts : bridge'[c].handles = bridge[c].handles
    BY <2>1, StillSame
  <2>3. Flows
    BY <1>1, <2>1, <2>2, TakeFlows
  <2>4. TalkStep
    BY <1>1, <1>2, <2>1, <2>2
       DEF TalkStep, seat, ChannelInv, SeatTypes, WireTypes, PastTypes
  <2>5. UsersWait
    BY <1>1, <2>1 DEF UsersWait, ChannelInv, OneAgent
  <2>6. GrantedByUser' /\ UpdatesAttributed'
    BY <1>1 DEF ChannelInv, GrantedByUser, UpdatesAttributed
  <2>7. QED
    BY <2>3, <2>4, <2>5, <2>6, TalkKeeps
<1>6. QED
  BY <1>4, <1>5

\* An update that is heard is of the prompt whose call the bridge waits for.
LEMMA ReadUpdateKeeps ==
  ASSUME ChannelInv, NEW b \in Starts, ReadUpdate(b)
  PROVE  ChannelInv'
<1> DEFINE n == bridge[b].proc
           m == Head(stdout[n])
<1>1. /\ Hears(b) /\ Take(b) /\ m.t = "update" /\ misheard' = (misheard \/ m.of # runtime.active)
      /\ UNCHANGED <<scene, seat, bridge, process, inst, stdin, permission, stored, sessions, done,
                     selected, granted, late>>
  BY DEF ReadUpdate
<1>2. /\ n \in Starts /\ Heard(b) /\ m = stdout[n][1] /\ 1 \in DOMAIN stdout[n]
      /\ stdout' \in [Starts -> Seq(Said(done))]
  BY <1>1, Taken
<1>3. ~late => m.of = runtime.active
  <2>1. ASSUME ~late PROVE m.of = runtime.active
    <3>1. Carried(stdin[n], process[n].works, stdout[n], bridge[b].rpc)
      BY <1>2, <2>1 DEF ChannelInv, InFlight, Flight
    <3>2. PICK c \in PromptCalls : <<m.of, c>> \in bridge[b].rpc
      BY <1>1, <1>2, <3>1 DEF Carried
    <3>3. c # "initialize"
      BY DEF PromptCalls
    <3>4. <<m.of, c>>[2] # "initialize" => runtime.active = <<m.of, c>>[1]
      BY <3>2 DEF ChannelInv, OneAgent
    <3>5. QED
      BY <3>3, <3>4
  <2>2. QED
    BY <2>1
<1>4. SameBridges
  BY <1>1, StillSame
<1>5. Flows
  BY <1>1, <1>4, TakeFlows
<1>6. TalkStep
  <2>1. misheard' \in BOOLEAN
    BY <1>1
  <2>2. QED
    BY <1>1, <1>2, <1>4, <2>1
       DEF TalkStep, seat, ChannelInv, SeatTypes, WireTypes, PastTypes
<1>7. UsersWait
  BY <1>1 DEF UsersWait, ChannelInv, OneAgent, seat
<1>8. GrantedByUser' /\ UpdatesAttributed'
  <2>1. UpdatesAttributed'
    BY <1>1, <1>3 DEF ChannelInv, UpdatesAttributed
  <2>2. QED
    BY <1>1, <2>1 DEF ChannelInv, GrantedByUser
<1>9. QED
  BY <1>5, <1>6, <1>7, <1>8, TalkKeeps

\* A request of the agent is taken, and none is before the users.
LEMMA ReadAskKeeps ==
  ASSUME ChannelInv, NEW b \in Starts, Hears(b), Take(b), SameBridges, UsersWait,
         process' \in [Starts -> ProcessRows],
         \A k \in Starts : process'[k].works = process[k].works,
         UNCHANGED <<scene, seat, inst, stdin, stored, sessions, done, misheard, late>>,
         GrantedByUser'
  PROVE  ChannelInv'
<1>1. stdout' \in [Starts -> Seq(Said(done))]
  BY Taken
<1>2. Flows
  BY TakeFlows
<1>3. TalkStep
  BY <1>1 DEF TalkStep, seat, ChannelInv, SeatTypes, WireTypes, PastTypes
<1>4. UpdatesAttributed'
  BY DEF ChannelInv, UpdatesAttributed
<1>5. QED
  BY <1>2, <1>3, <1>4, TalkKeeps

LEMMA ReadPermissionKeeps ==
  ASSUME ChannelInv, NEW b \in Starts, ReadPermission(b)
  PROVE  ChannelInv'
<1> DEFINE n == bridge[b].proc
           m == Head(stdout[n])
<1>1. /\ Hears(b) /\ Take(b) /\ m.t = "ask" /\ m.ask = "permission"
      /\ IF scene.provider # "host_process" \/ m.id \in DOMAIN permission
         THEN granted' = granted \cup {m.id} /\ UNCHANGED <<bridge, permission>>
         ELSE /\ permission' = [i \in DOMAIN permission \cup {m.id} |->
                                  IF i = m.id THEN b ELSE permission[i]]
              /\ bridge' = [bridge EXCEPT ![b].handles = m.id]
              /\ UNCHANGED granted
      /\ UNCHANGED <<scene, seat, process, inst, stdin, stored, sessions, done, selected, misheard, late>>
  BY DEF ReadPermission
<1>2. n \in Starts /\ b = runtime.agent /\ bridge[b].handles = 0 /\ m \in Said(done)
  BY <1>1, Taken
<1>3. m.id \in Nat \ {0}
  BY <1>1, <1>2, SaidIs DEF ChannelInv, PastTypes
<1>4. DOMAIN permission = {}
  BY <1>1, <1>2, NobodyAsked DEF Hears, ChannelInv, OneAgent
<1>5. process' \in [Starts -> ProcessRows] /\ \A k \in Starts : process'[k].works = process[k].works
  BY <1>1 DEF ChannelInv, WireTypes
<1> HIDE DEF m
<1>6. CASE scene.provider # "host_process"
  <2>1. bridge' = bridge /\ permission' = permission
    BY <1>1, <1>6
  <2>2. SameBridges
    BY <2>1, StillSame
  <2>3. UsersWait
    BY <1>4, <2>1 DEF UsersWait
  <2>4. GrantedByUser'
    BY <1>1, <1>6 DEF GrantedByUser
  <2>5. QED
    BY <1>1, <1>5, <2>2, <2>3, <2>4, ReadAskKeeps
<1>7. CASE scene.provider = "host_process"
  <2>1. /\ permission' = [i \in {m.id} |-> IF i = m.id THEN b ELSE permission[i]]
        /\ bridge' = [bridge EXCEPT ![b].handles = m.id] /\ granted' = granted
    <3>1. DOMAIN permission \cup {m.id} = {m.id} /\ m.id \notin DOMAIN permission
      BY <1>4
    <3>2. QED
      BY <1>1, <1>7, <3>1
  <2>2. SameBridges /\ bridge'[b].handles = m.id
    <3>1. m.id \in Nat /\ bridge' = [bridge EXCEPT ![b].handles = m.id]
      BY <1>3, <2>1
    <3>2. SameBridges /\ \A c \in Starts :
                            bridge'[c].handles = IF c = b THEN m.id ELSE bridge[c].handles
      BY <3>1, Handles
    <3>3. QED
      BY <3>2
  <2>3. UsersWait
    BY <1>2, <1>3, <2>1, <2>2, StartsAre DEF UsersWait
  <2>4. GrantedByUser'
    BY <1>1, <2>1 DEF ChannelInv, GrantedByUser
  <2>5. QED
    BY <1>1, <1>5, <2>2, <2>3, <2>4, ReadAskKeeps
<1>8. QED
  BY <1>6, <1>7

LEMMA ReadFileKeeps ==
  ASSUME ChannelInv, NEW b \in Starts, ReadFile(b) \/ ReadTerminal(b)
  PROVE  ChannelInv'
<1> DEFINE n == bridge[b].proc
           m == Head(stdout[n])
<1>1. /\ Hears(b) /\ Take(b) /\ m.t = "ask"
      /\ bridge' = bridge \/ bridge' = [bridge EXCEPT ![b].handles = m.id]
      /\ process' = process \/ \E on \in BOOLEAN : process' = [process EXCEPT ![n].command = on]
      /\ UNCHANGED <<scene, seat, inst, stdin, permission, past>>
  BY DEF ReadFile, ReadTerminal
<1>2. n \in Starts /\ b = runtime.agent /\ bridge[b].handles = 0 /\ m \in Said(done)
  BY <1>1, Taken
<1>3. m.id \in Nat \ {0}
  BY <1>1, <1>2, SaidIs DEF ChannelInv, PastTypes
<1>4. DOMAIN permission = {}
  BY <1>1, <1>2, NobodyAsked DEF Hears, ChannelInv, OneAgent
<1> HIDE DEF m
<1>5. SameBridges
  BY <1>1, <1>3, StillSame, Handles
<1>6. UsersWait
  BY <1>1, <1>4 DEF UsersWait
<1>7. process' \in [Starts -> ProcessRows] /\ \A k \in Starts : process'[k].works = process[k].works
  <2>1. CASE process' = process
    BY <2>1 DEF ChannelInv, WireTypes
  <2>2. ASSUME NEW on \in BOOLEAN, process' = [process EXCEPT ![n].command = on]
        PROVE  process' \in [Starts -> ProcessRows]
               /\ \A k \in Starts : process'[k].works = process[k].works
    BY <1>2, <2>2, CommandSet
  <2>3. QED
    BY <1>1, <2>1, <2>2
<1>8. GrantedByUser'
  BY <1>1 DEF ChannelInv, GrantedByUser, past
<1>9. QED
  BY <1>1, <1>5, <1>6, <1>7, <1>8, ReadAskKeeps DEF past

\* What is left in the wires does not move: a bridge is done with a request, a command ends,
\* or an exit is noticed of a process whose bridge is not open.
LEMMA StillKeeps ==
  ASSUME ChannelInv, SameBridges, UsersWait, GrantedByUser', inst' \in {inst, 0},
         process' \in [Starts -> ProcessRows],
         \A k \in Starts : process'[k].works = process[k].works,
         runtime' \in RuntimeRows, runtime'.agent = runtime.agent, runtime'.active = runtime.active,
         UNCHANGED <<scene, prompt, opQueue, stdin, stdout, stored, sessions, done, misheard, late>>
  PROVE  ChannelInv'
<1>1. Flows
  BY StillFlows
<1>2. TalkStep
  BY DEF TalkStep, ChannelInv, WireTypes, PastTypes
<1>3. UpdatesAttributed'
  BY DEF ChannelInv, UpdatesAttributed
<1>4. QED
  BY <1>1, <1>2, <1>3, TalkKeeps

LEMMA WaitedKeeps ==
  ASSUME ChannelInv, NEW b \in Starts, Waited(b)
  PROVE  ChannelInv'
<1>1. /\ Open(b) /\ bridge[b].handles \notin DOMAIN permission
      /\ bridge' = [bridge EXCEPT ![b].handles = 0]
      /\ UNCHANGED <<scene, seat, process, inst, stdin, stdout, permission, past>>
  BY DEF Waited
<1>2. SameBridges
  BY <1>1, Handles
<1>3. UsersWait
  BY <1>1, NobodyAsked DEF UsersWait
<1>4. QED
  BY <1>1, <1>2, <1>3, StillKeeps
     DEF seat, past, ChannelInv, SeatTypes, WireTypes, GrantedByUser

LEMMA DecideKeeps ==
  ASSUME ChannelInv, NEW id, NEW grants \in BOOLEAN, Decide(id, grants)
  PROVE  ChannelInv'
<1>1. /\ id \in DOMAIN permission
      /\ bridge' = [bridge EXCEPT ![permission[id]].handles = 0]
      /\ permission' = [i \in DOMAIN permission \ {id} |-> permission[i]]
      /\ selected' = IF grants THEN selected \cup {id} ELSE selected
      /\ granted' = IF grants THEN granted \cup {id} ELSE granted
      /\ UNCHANGED <<scene, seat, process, inst, stdin, stdout, stored, sessions, done, misheard, late>>
  BY DEF Decide
<1>2. permission[id] \in Starts
  BY <1>1 DEF ChannelInv, OneAgent, SeatTypes, RuntimeRows
<1>3. SameBridges
  BY <1>1, <1>2, Handles
<1>4. DOMAIN permission' = {}
  <2>1. \A i \in DOMAIN permission : i = id
    BY <1>1 DEF ChannelInv, OneAgent
  <2>2. QED
    BY <1>1, <2>1
<1>5. UsersWait
  BY <1>4 DEF UsersWait
<1>6. GrantedByUser'
  BY <1>1 DEF ChannelInv, GrantedByUser
<1>7. QED
  BY <1>1, <1>3, <1>5, <1>6, StillKeeps DEF seat, ChannelInv, SeatTypes, WireTypes

LEMMA CommandExitsKeeps ==
  ASSUME ChannelInv, NEW n \in Starts, CommandExits(n)
  PROVE  ChannelInv'
<1>1. /\ process' = [process EXCEPT ![n].command = FALSE]
      /\ UNCHANGED <<scene, seat, bridge, inst, stdin, stdout, permission, past>>
  BY DEF CommandExits
<1>2. /\ process' \in [Starts -> ProcessRows]
      /\ \A k \in Starts : process'[k].works = process[k].works
  BY <1>1, CommandSet
<1>3. SameBridges
  BY <1>1, StillSame
<1>4. UsersWait
  BY <1>1 DEF UsersWait, ChannelInv, OneAgent
<1>5. QED
  BY <1>1, <1>2, <1>3, <1>4, StillKeeps
     DEF seat, past, ChannelInv, SeatTypes, WireTypes, GrantedByUser

LEMMA AgentTakesKeeps ==
  ASSUME ChannelInv, NEW n \in Starts, AgentTakes(n)
  PROVE  ChannelInv'
<1>1. UNCHANGED <<scene, seat, bridge, process, inst, stdin, stdout, permission, past>>
  BY DEF AgentTakes
<1>2. SameBridges
  BY <1>1, StillSame
<1>3. UsersWait
  BY <1>1 DEF UsersWait, ChannelInv, OneAgent
<1>4. QED
  BY <1>1, <1>2, <1>3, StillKeeps
     DEF seat, past, ChannelInv, SeatTypes, WireTypes, GrantedByUser

LEMMA ExitUntoldKeeps ==
  ASSUME ChannelInv, NEW n \in Starts, NEW stays \in BOOLEAN, inst' \in {inst, 0},
         runtime' = [runtime EXCEPT !.suppress = stays],
         process' = [process EXCEPT ![n].exitSeen = TRUE],
         UNCHANGED <<scene, prompt, opQueue, bridge, stdin, stdout, permission, past>>
  PROVE  ChannelInv'
<1>1. /\ process' \in [Starts -> ProcessRows]
      /\ \A k \in Starts : process'[k].works = process[k].works
  <2> DEFINE row == [process[n] EXCEPT !.exitSeen = TRUE]
  <2>1. process[n] \in ProcessRows
    BY DEF ChannelInv, WireTypes
  <2>2. row \in ProcessRows /\ row.works = process[n].works
    BY <2>1 DEF ProcessRows
  <2>3. process' = [process EXCEPT ![n] = row]
    OBVIOUS
  <2> HIDE DEF row
  <2>4. QED
    BY <2>2, <2>3, ProcessPut
<1>2. runtime' \in RuntimeRows /\ runtime'.agent = runtime.agent /\ runtime'.active = runtime.active
  <2>1. runtime \in RuntimeRows
    BY DEF ChannelInv, SeatTypes
  <2>2. QED
    BY <2>1 DEF RuntimeRows
<1>3. SameBridges
  BY StillSame
<1>4. UsersWait
  BY DEF UsersWait, ChannelInv, OneAgent
<1>5. QED
  BY <1>1, <1>2, <1>3, <1>4, StillKeeps DEF past, ChannelInv, GrantedByUser

LEMMA DiesKeeps ==
  ASSUME ChannelInv, NEW n \in Starts, Dies(n)
  PROVE  ChannelInv'
<1> DEFINE row == [process[n] EXCEPT !.alive = FALSE, !.works = {}, !.knows = {}, !.command = FALSE]
<1>1. /\ process' = [process EXCEPT ![n] = row]
      /\ stdin' = [stdin EXCEPT ![n] = <<>>]
      /\ UNCHANGED <<scene, seat, bridge, inst, stdout, permission, past>>
  BY DEF Dies
<1>2. row \in ProcessRows /\ row.works = {}
  <2>1. process[n] \in ProcessRows
    BY DEF ChannelInv, WireTypes
  <2>2. QED
    BY <2>1 DEF ProcessRows
<1> HIDE DEF row
<1>3. /\ process' \in [Starts -> ProcessRows]
      /\ \A k \in Starts : process'[k].works = IF k = n THEN {} ELSE process[k].works
  BY <1>1, <1>2, ProcessPut
<1>4. /\ stdin' \in [Starts -> Seq(Requests)]
      /\ \A k \in Starts : stdin'[k] = IF k = n THEN <<>> ELSE stdin[k]
  <2>1. stdin \in [Starts -> Seq(Requests)] /\ <<>> \in Seq(Requests)
    BY DEF ChannelInv, WireTypes
  <2>2. QED
    BY <1>1, <2>1
<1>5. SameBridges
  BY <1>1, StillSame
<1>6. UsersWait
  BY <1>1 DEF UsersWait, ChannelInv, OneAgent
<1>7. Flows
  <2>1. ASSUME NEW b \in Starts, ~late, Heard(b) PROVE Flight(b)'
    <3> DEFINE k == bridge[b].proc
    <3>1. Carried(stdin[k], process[k].works, stdout[k], bridge[b].rpc) /\ k \in Starts
      BY <2>1 DEF ChannelInv, InFlight, Flight, Heard, Open, WireTypes, BridgeRows
    <3> HIDE DEF k
    <3>s. bridge'[b].proc = k /\ bridge'[b].rpc = bridge[b].rpc /\ stdout' = stdout
      BY <1>1 DEF k
    <3>2. CASE k # n
      <4>1. stdin'[k] = stdin[k] /\ process'[k].works = process[k].works
        BY <1>3, <1>4, <3>1, <3>2
      <4>2. QED
        BY <3>1, <3>s, <4>1 DEF Flight
    <3>3. CASE k = n
      <4>1. Carried(<<>>, {}, stdout[k], bridge[b].rpc)
        BY <3>1 DEF Carried
      <4>2. stdin'[k] = <<>> /\ process'[k].works = {}
        BY <1>3, <1>4, <3>3
      <4>3. QED
        BY <4>1, <3>s, <4>2 DEF Flight
    <3>4. QED
      BY <3>2, <3>3
  <2>2. QED
    BY <1>1, <1>3, <1>4, <2>1 DEF Flows, Fresh
<1>8. TalkStep
  BY <1>1, <1>3, <1>4, <1>5
     DEF TalkStep, seat, past, ChannelInv, SeatTypes, WireTypes, PastTypes
<1>9. QED
  BY <1>1, <1>6, <1>7, <1>8, TalkKeeps DEF past, ChannelInv, GrantedByUser, UpdatesAttributed

-----------------------------------------------------------------------------
(* What the agent does.                                                      *)

\* What an agent says goes to the bridge that hears it, if one does.
LEMMA SaysEffect ==
  ASSUME ChannelInv, NEW n \in Starts, NEW D, done \subseteq D, NEW msg \in Said(D), Says(n, msg)
  PROVE  /\ stdout' \in [Starts -> Seq(Said(D))]
         /\ \A k \in Starts :
              stdout'[k] = stdout[k] \/ (k = n /\ stdout'[k] = Append(stdout[k], msg))
         /\ (\A b \in Starts : bridge[b].proc # n) => stdout'[n] = stdout[n]
<1>1. stdout \in [Starts -> Seq(Said(D))]
  <2>1. Said(done) \subseteq Said(D)
    BY DEF Said
  <2>2. Seq(Said(done)) \subseteq Seq(Said(D))
    BY <2>1
  <2>3. QED
    BY <2>2 DEF ChannelInv, WireTypes
<1>2. Append(stdout[n], msg) \in Seq(Said(D))
  BY <1>1, Appended
<1>3. QED
  BY <1>1, <1>2 DEF Says

\* What a step of an agent leaves alone.
AgentStep(n) ==
  /\ UNCHANGED <<scene, seat, bridge, inst, permission, stored, selected, granted, misheard, late>>
  /\ process' \in [Starts -> ProcessRows]
  /\ \A k \in Starts \ {n} : process'[k] = process[k] /\ stdin'[k] = stdin[k]
  /\ stdin' \in [Starts -> Seq(Requests)]
  /\ sessions' \in Nat /\ done \subseteq done' /\ done' \subseteq Prompts

\* An agent that was told something, or is at work, says what it may say.
LEMMA AgentKeeps ==
  ASSUME ChannelInv, NEW n \in Starts, AgentStep(n),
         stdin[n] # <<>> \/ process[n].works # {},
         NEW msg \in Said(done'),
         stdout' = stdout \/ Says(n, msg),
         \A b \in Starts : ~late /\ Heard(b) /\ bridge[b].proc = n =>
           LET calls == bridge[b].rpc IN
             /\ Len(stdin'[n]) <= 1 /\ process'[n].works \subseteq calls
             /\ stdin'[n] # <<>> => process'[n].works = {}
             /\ \A i \in DOMAIN stdin'[n] : <<stdin'[n][i].of, stdin'[n][i].call>> \in calls
             /\ msg.t = "answer" => /\ stdin'[n] = <<>> /\ process'[n].works = {}
                                    /\ <<msg.of, msg.call>> \in calls
             /\ msg.t = "update" => \E c \in PromptCalls : <<msg.of, c>> \in calls
  PROVE  ChannelInv'
<1>1. /\ stdout' \in [Starts -> Seq(Said(done'))]
      /\ \A k \in Starts :
           stdout'[k] = stdout[k] \/ (k = n /\ stdout'[k] = Append(stdout[k], msg))
  <2>1. CASE stdout' = stdout
    <3>1. Said(done) \subseteq Said(done')
      BY DEF Said, AgentStep
    <3>2. Seq(Said(done)) \subseteq Seq(Said(done'))
      BY <3>1
    <3>3. QED
      BY <2>1, <3>2 DEF ChannelInv, WireTypes
  <2>2. CASE Says(n, msg)
    BY <2>2, SaysEffect DEF AgentStep
  <2>3. QED
    BY <2>1, <2>2
<1>2. SameBridges
  BY StillSame DEF AgentStep
<1>3. UsersWait
  BY DEF UsersWait, ChannelInv, OneAgent, AgentStep, seat
<1>4. ASSUME NEW b \in Starts, ~late, Heard(b) PROVE Flight(b)'
  <2> DEFINE k == bridge[b].proc
  <2>1. Carried(stdin[k], process[k].works, stdout[k], bridge[b].rpc) /\ k \in Starts
    BY <1>4 DEF ChannelInv, InFlight, Flight, Heard, Open, WireTypes, BridgeRows
  <2>d. bridge[b].proc = k
    OBVIOUS
  <2> HIDE DEF k
  <2>2. bridge'[b].proc = k /\ bridge'[b].rpc = bridge[b].rpc
    BY <2>d DEF AgentStep
  <2>3. CASE k # n
    <3>1. stdin'[k] = stdin[k] /\ process'[k].works = process[k].works /\ stdout'[k] = stdout[k]
      BY <1>1, <2>1, <2>3 DEF AgentStep
    <3>2. QED
      BY <2>1, <2>2, <3>1 DEF Flight
  <2>4. CASE k = n
    <3>1. stdout[k] \in Seq(Said(done')) /\ done' \subseteq Prompts
      <4>1. Said(done) \subseteq Said(done')
        BY DEF Said, AgentStep
      <4>2. Seq(Said(done)) \subseteq Seq(Said(done'))
        BY <4>1
      <4>3. stdout[k] \in Seq(Said(done))
        BY <2>1 DEF ChannelInv, WireTypes
      <4>4. QED
        BY <4>2, <4>3 DEF AgentStep
    <3>2. /\ Len(stdin'[k]) <= 1 /\ process'[k].works \subseteq bridge[b].rpc
          /\ stdin'[k] # <<>> => process'[k].works = {}
          /\ \A i \in DOMAIN stdin'[k] : <<stdin'[k][i].of, stdin'[k][i].call>> \in bridge[b].rpc
          /\ msg.t = "answer" => /\ stdin'[k] = <<>> /\ process'[k].works = {}
                                 /\ <<msg.of, msg.call>> \in bridge[b].rpc
          /\ msg.t = "update" => \E c \in PromptCalls : <<msg.of, c>> \in bridge[b].rpc
      BY <1>4, <2>4, <2>d
    <3>3. /\ Carried(stdin'[k], process'[k].works, Append(stdout[k], msg), bridge[b].rpc)
          /\ Carried(stdin'[k], process'[k].works, stdout[k], bridge[b].rpc)
      <4>1. \A i \in DOMAIN stdout[k] : stdout[k][i].t # "answer"
        BY <2>1, <2>4 DEF Carried
      <4>2. Carried(stdin'[k], process'[k].works, stdout[k], bridge[b].rpc)
        BY <2>1, <3>2, <4>1 DEF Carried
      <4>3. /\ DOMAIN Append(stdout[k], msg) = DOMAIN stdout[k] \cup {Len(stdout[k]) + 1}
            /\ Len(Append(stdout[k], msg)) = Len(stdout[k]) + 1
            /\ Append(stdout[k], msg)[Len(stdout[k]) + 1] = msg
            /\ \A i \in DOMAIN stdout[k] : Append(stdout[k], msg)[i] = stdout[k][i]
        BY <3>1, Appended
      <4>4. Carried(stdin'[k], process'[k].works, Append(stdout[k], msg), bridge[b].rpc)
        BY <3>2, <4>1, <4>2, <4>3 DEF Carried
      <4>5. QED
        BY <4>2, <4>4
    <3>4. stdout'[k] = stdout[k] \/ stdout'[k] = Append(stdout[k], msg)
      BY <1>1, <2>1
    <3>5. QED
      BY <2>2, <3>3, <3>4 DEF Flight
  <2>5. QED
    BY <2>3, <2>4
<1>5. ASSUME NEW k \in Starts, Fresh(k) PROVE k # n
  BY <1>5 DEF Fresh
<1>6. Flows
  BY <1>1, <1>4, <1>5 DEF Flows, Fresh, AgentStep
<1>7. TalkStep
  BY <1>1, <1>2 DEF TalkStep, AgentStep, seat, ChannelInv, SeatTypes, WireTypes, PastTypes
<1>8. GrantedByUser' /\ UpdatesAttributed'
  BY DEF AgentStep, ChannelInv, GrantedByUser, UpdatesAttributed
<1>9. QED
  BY <1>3, <1>6, <1>7, <1>8, TalkKeeps

LEMMA AgentAsksKeeps ==
  ASSUME ChannelInv, NEW n \in Starts, AgentAsks(n)
  PROVE  ChannelInv'
<1>1. PICK ask \in scene.asks :
        /\ process' = [process EXCEPT ![n].asked = process[n].asked + 1,
                                      ![n].command = process[n].command \/ ask = "wait"]
        /\ Says(n, [t |-> "ask", id |-> process[n].asked + 1, ask |-> ask])
  BY DEF AgentAsks
<1>2. /\ process[n].works # {}
      /\ UNCHANGED <<scene, seat, bridge, inst, stdin, permission, past>>
  BY DEF AgentAsks
<1> DEFINE on == process[n].command \/ ask = "wait"
           asked == process[n].asked + 1
           row == [process[n] EXCEPT !.asked = asked, !.command = on]
           msg == [t |-> "ask", id |-> process[n].asked + 1, ask |-> ask]
<1>3. process[n] \in ProcessRows /\ process[n].asked \in Nat
  BY DEF ChannelInv, WireTypes, ProcessRows
<1>n. on \in BOOLEAN /\ asked \in Nat
  BY <1>3
<1>5. process' = [process EXCEPT ![n] = row]
  BY <1>1
<1> HIDE DEF on, asked
<1>4. row \in ProcessRows /\ row.works = process[n].works
  BY <1>3, <1>n DEF ProcessRows
<1> HIDE DEF row
<1>6. /\ process' \in [Starts -> ProcessRows] /\ process'[n].works = process[n].works
      /\ \A k \in Starts \ {n} : process'[k] = process[k]
  BY <1>4, <1>5, ProcessPut
<1>7. AgentStep(n)
  BY <1>2, <1>6 DEF AgentStep, past, ChannelInv, WireTypes, PastTypes
<1>8. msg \in Said(done') /\ msg.t = "ask"
  <2>1. ask \in Asks
    BY ScenesAreKnown DEF ChannelInv, PastTypes, Asks
  <2>2. process[n].asked + 1 \in Nat \ {0}
    BY <1>3
  <2>3. QED
    BY <2>1, <2>2 DEF Said
<1>9. ASSUME NEW b \in Starts, ~late, Heard(b), bridge[b].proc = n
      PROVE  /\ Len(stdin'[n]) <= 1 /\ process'[n].works \subseteq bridge[b].rpc
             /\ stdin'[n] # <<>> => process'[n].works = {}
             /\ \A i \in DOMAIN stdin'[n] : <<stdin'[n][i].of, stdin'[n][i].call>> \in bridge[b].rpc
  <2>1. Carried(stdin[n], process[n].works, stdout[n], bridge[b].rpc)
    BY <1>9 DEF ChannelInv, InFlight, Flight
  <2>2. QED
    BY <1>2, <1>6, <2>1 DEF Carried
<1>10. Says(n, msg)
  BY <1>1
<1> HIDE DEF msg
<1>11. \A b \in Starts : ~late /\ Heard(b) /\ bridge[b].proc = n =>
        LET calls == bridge[b].rpc IN
          /\ Len(stdin'[n]) <= 1 /\ process'[n].works \subseteq calls
          /\ stdin'[n] # <<>> => process'[n].works = {}
          /\ \A i \in DOMAIN stdin'[n] : <<stdin'[n][i].of, stdin'[n][i].call>> \in calls
          /\ msg.t = "answer" => /\ stdin'[n] = <<>> /\ process'[n].works = {}
                                 /\ <<msg.of, msg.call>> \in calls
          /\ msg.t = "update" => \E c \in PromptCalls : <<msg.of, c>> \in calls
  BY <1>8, <1>9
<1>12. QED
  BY <1>2, <1>7, <1>8, <1>10, <1>11, AgentKeeps

LEMMA AgentUpdatesKeeps ==
  ASSUME ChannelInv, NEW n \in Starts, AgentUpdates(n)
  PROVE  ChannelInv'
<1>1. PICK w \in process[n].works : Says(n, [t |-> "update", of |-> w[1]])
  BY DEF AgentUpdates
<1> DEFINE msg == [t |-> "update", of |-> w[1]]
<1>2. UNCHANGED <<scene, seat, bridge, process, inst, stdin, permission, past>>
  BY DEF AgentUpdates
<1>3. w \in Prompts \X PromptCalls
  BY DEF ChannelInv, WireTypes, ProcessRows
<1>4. AgentStep(n)
  BY <1>2 DEF AgentStep, past, ChannelInv, WireTypes, PastTypes
<1>5. msg \in Said(done') /\ msg.t = "update" /\ msg.of = w[1]
  BY <1>3 DEF Said
<1>6. ASSUME NEW b \in Starts, ~late, Heard(b), bridge[b].proc = n
      PROVE  /\ Len(stdin'[n]) <= 1 /\ process'[n].works \subseteq bridge[b].rpc
             /\ stdin'[n] # <<>> => process'[n].works = {}
             /\ \A i \in DOMAIN stdin'[n] : <<stdin'[n][i].of, stdin'[n][i].call>> \in bridge[b].rpc
             /\ msg.t # "answer" /\ \E c \in PromptCalls : <<msg.of, c>> \in bridge[b].rpc
  <2>1. Carried(stdin[n], process[n].works, stdout[n], bridge[b].rpc)
    BY <1>6 DEF ChannelInv, InFlight, Flight
  <2>2. w \in bridge[b].rpc /\ w = <<w[1], w[2]>> /\ w[2] \in PromptCalls
    BY <1>3, <2>1 DEF Carried
  <2>3. \E c \in PromptCalls : <<w[1], c>> \in bridge[b].rpc
    BY <2>2
  <2>4. QED
    BY <1>2, <1>5, <2>1, <2>3 DEF Carried
<1>7. Says(n, msg)
  BY <1>1
<1> HIDE DEF msg
<1>8. \A b \in Starts : ~late /\ Heard(b) /\ bridge[b].proc = n =>
        LET calls == bridge[b].rpc IN
          /\ Len(stdin'[n]) <= 1 /\ process'[n].works \subseteq calls
          /\ stdin'[n] # <<>> => process'[n].works = {}
          /\ \A i \in DOMAIN stdin'[n] : <<stdin'[n][i].of, stdin'[n][i].call>> \in calls
          /\ msg.t = "answer" => /\ stdin'[n] = <<>> /\ process'[n].works = {}
                                 /\ <<msg.of, msg.call>> \in calls
          /\ msg.t = "update" => \E c \in PromptCalls : <<msg.of, c>> \in calls
  BY <1>6
<1>9. process[n].works # {}
  BY <1>3
<1>10. QED
  BY <1>4, <1>5, <1>7, <1>8, <1>9, AgentKeeps

LEMMA AgentFinishesKeeps ==
  ASSUME ChannelInv, NEW n \in Starts, AgentFinishes(n)
  PROVE  ChannelInv'
<1>1. PICK w \in process[n].works :
        /\ process' = [process EXCEPT ![n].works = process[n].works \ {w}]
        /\ Says(n, [t |-> "answer", call |-> w[2], of |-> w[1], ok |-> TRUE, sess |-> 0])
        /\ done' = done \cup {w[1]}
  BY DEF AgentFinishes
<1> DEFINE msg == [t |-> "answer", call |-> w[2], of |-> w[1], ok |-> TRUE, sess |-> 0]
           row == [process[n] EXCEPT !.works = process[n].works \ {w}]
<1>2. UNCHANGED <<scene, seat, bridge, inst, stdin, permission, stored, sessions, selected,
                  granted, misheard, late>>
  BY DEF AgentFinishes
<1>3. process[n] \in ProcessRows /\ w \in Prompts \X PromptCalls
  BY DEF ChannelInv, WireTypes, ProcessRows
<1>4. row \in ProcessRows /\ row.works = process[n].works \ {w}
  BY <1>3 DEF ProcessRows
<1>5. process' = [process EXCEPT ![n] = row]
  BY <1>1
<1> HIDE DEF row
<1>6. /\ process' \in [Starts -> ProcessRows] /\ process'[n].works = process[n].works \ {w}
      /\ \A k \in Starts \ {n} : process'[k] = process[k]
  BY <1>4, <1>5, ProcessPut
<1>7. AgentStep(n)
  BY <1>1, <1>2, <1>3, <1>6 DEF AgentStep, ChannelInv, WireTypes, PastTypes
<1>8. msg \in Said(done') /\ msg.t = "answer" /\ msg.of = w[1] /\ msg.call = w[2]
  <2>1. w[1] \in done' /\ w[2] \in PromptCalls
    BY <1>1, <1>3
  <2>2. QED
    BY <2>1 DEF Said
<1>9. ASSUME NEW b \in Starts, ~late, Heard(b), bridge[b].proc = n
      PROVE  stdin'[n] = <<>> /\ process'[n].works = {} /\ <<w[1], w[2]>> \in bridge[b].rpc
  <2>1. Carried(stdin[n], process[n].works, stdout[n], bridge[b].rpc)
    BY <1>9 DEF ChannelInv, InFlight, Flight
  <2>2. stdin[n] = <<>> /\ process[n].works \subseteq bridge[b].rpc /\ w \in bridge[b].rpc
    BY <2>1 DEF Carried
  <2>3. bridge[b].rpc = {w}
    BY <2>2, OneCall
  <2>4. QED
    BY <1>2, <1>3, <1>6, <2>2, <2>3
<1>10. Says(n, msg)
  BY <1>1
<1> HIDE DEF msg
<1>11. process[n].works # {}
  OBVIOUS
<1>12. ASSUME NEW b \in Starts, ~late, Heard(b), bridge[b].proc = n
       PROVE  /\ Len(stdin'[n]) <= 1 /\ process'[n].works \subseteq bridge[b].rpc
              /\ stdin'[n] # <<>> => process'[n].works = {}
              /\ \A i \in DOMAIN stdin'[n] : <<stdin'[n][i].of, stdin'[n][i].call>> \in bridge[b].rpc
  <2>1. stdin'[n] = <<>> /\ process'[n].works = {}
    BY <1>9, <1>12
  <2>2. QED
    BY <2>1
<1>13. QED
  BY <1>7, <1>8, <1>9, <1>10, <1>11, <1>12, AgentKeeps

\* The agent answers the call it reads.
LEMMA AnswersKeeps ==
  ASSUME ChannelInv, NEW n \in Starts, AgentStep(n), stdin[n] # <<>>,
         stdin' = [stdin EXCEPT ![n] = Tail(stdin[n])], done' = done,
         process'[n].works = process[n].works,
         NEW ok \in BOOLEAN, NEW sess \in Nat, ok => Head(stdin[n]).call \notin PromptCalls,
         Says(n, [t |-> "answer", call |-> Head(stdin[n]).call, of |-> Head(stdin[n]).of,
                  ok |-> ok, sess |-> sess])
  PROVE  ChannelInv'
<1> DEFINE m == Head(stdin[n])
           msg == [t |-> "answer", call |-> m.call, of |-> m.of, ok |-> ok, sess |-> sess]
<1>1. /\ m \in Requests /\ m = stdin[n][1] /\ 1 \in DOMAIN stdin[n]
      /\ Len(stdin[n]) <= 1 => stdin'[n] = <<>>
  <2>1. stdin[n] \in Seq(Requests) /\ stdin \in [Starts -> Seq(Requests)]
    BY DEF ChannelInv, WireTypes
  <2>2. QED
    BY <2>1, Dropped
<1>2. m.of \in Prompts /\ m.call \in Calls
  BY <1>1 DEF Requests
<1>3. msg \in Said(done') /\ msg.t = "answer" /\ msg.of = m.of /\ msg.call = m.call
  BY <1>2 DEF Said
<1>4. ASSUME NEW b \in Starts, ~late, Heard(b), bridge[b].proc = n
      PROVE  /\ Len(stdin'[n]) <= 1 /\ process'[n].works \subseteq bridge[b].rpc
             /\ stdin'[n] # <<>> => process'[n].works = {}
             /\ \A i \in DOMAIN stdin'[n] : <<stdin'[n][i].of, stdin'[n][i].call>> \in bridge[b].rpc
             /\ msg.t = "answer" => /\ stdin'[n] = <<>> /\ process'[n].works = {}
                                    /\ <<msg.of, msg.call>> \in bridge[b].rpc
             /\ msg.t # "update"
  <2>1. Carried(stdin[n], process[n].works, stdout[n], bridge[b].rpc)
    BY <1>4 DEF ChannelInv, InFlight, Flight
  <2>2. Len(stdin[n]) <= 1 /\ process[n].works = {}
    BY <2>1 DEF Carried
  <2>3. <<m.of, m.call>> \in bridge[b].rpc
    BY <1>1, <2>1 DEF Carried
  <2>4. stdin'[n] = <<>> /\ process'[n].works = {}
    BY <1>1, <2>2
  <2>5. <<msg.of, msg.call>> \in bridge[b].rpc /\ msg.t # "update"
    BY <1>3, <2>3
  <2> HIDE DEF msg, m
  <2>6. QED
    BY <2>4, <2>5
<1>5. Says(n, msg)
  OBVIOUS
<1> HIDE DEF msg, m
<1>6. QED
  BY <1>3, <1>4, <1>5, AgentKeeps

LEMMA AgentReadsKeeps ==
  ASSUME ChannelInv, NEW n \in Starts, AgentReads(n)
  PROVE  ChannelInv'
<1> DEFINE m == Head(stdin[n])
           Answers(ok, sess) == Says(n, [t |-> "answer", call |-> m.call, of |-> m.of,
                                         ok |-> ok, sess |-> sess])
           Knows(s) == process' = [process EXCEPT ![n].knows = process[n].knows \cup {s}]
<1>1. /\ stdin[n] # <<>> /\ stdin' = [stdin EXCEPT ![n] = Tail(stdin[n])]
      /\ UNCHANGED <<scene, seat, bridge, inst, permission, stored, done, selected, granted,
                     misheard, late>>
  BY DEF AgentReads
<1>2. /\ m \in Requests /\ m = stdin[n][1] /\ 1 \in DOMAIN stdin[n]
      /\ Len(stdin[n]) <= 1 => stdin'[n] = <<>>
      /\ stdin' \in [Starts -> Seq(Requests)] /\ \A k \in Starts \ {n} : stdin'[k] = stdin[k]
  <2>1. stdin[n] \in Seq(Requests) /\ stdin \in [Starts -> Seq(Requests)]
    BY DEF ChannelInv, WireTypes
  <2>2. Tail(stdin[n]) \in Seq(Requests)
    BY <1>1, <2>1, Dropped
  <2>3. QED
    BY <1>1, <2>1, <2>2, Dropped
<1>3. m.of \in Prompts /\ m.call \in Calls /\ m.sess \in Nat
  BY <1>2 DEF Requests
<1>4. process \in [Starts -> ProcessRows] /\ process[n] \in ProcessRows /\ sessions \in Nat
      /\ done \subseteq Prompts
  BY DEF ChannelInv, WireTypes, PastTypes
<1>5. ASSUME sessions' \in Nat, process' \in [Starts -> ProcessRows],
             \A k \in Starts \ {n} : process'[k] = process[k]
      PROVE  AgentStep(n)
  BY <1>1, <1>2, <1>4, <1>5 DEF AgentStep
<1>6. ASSUME NEW s \in Nat, Knows(s)
      PROVE  /\ process' \in [Starts -> ProcessRows] /\ process'[n].works = process[n].works
             /\ \A k \in Starts \ {n} : process'[k] = process[k]
  <2> DEFINE row == [process[n] EXCEPT !.knows = process[n].knows \cup {s}]
  <2>1. row \in ProcessRows /\ row.works = process[n].works
    BY <1>4 DEF ProcessRows
  <2>2. process' = [process EXCEPT ![n] = row]
    BY <1>6
  <2> HIDE DEF row
  <2>3. QED
    BY <2>1, <2>2, ProcessPut
<1>7. ASSUME NEW ok \in BOOLEAN, NEW sess \in Nat, Answers(ok, sess),
             ok => m.call \notin PromptCalls, sessions' \in Nat,
             process' = process \/ \E s \in Nat : Knows(s)
      PROVE  ChannelInv'
  <2>1. /\ process' \in [Starts -> ProcessRows] /\ process'[n].works = process[n].works
        /\ \A k \in Starts \ {n} : process'[k] = process[k]
    BY <1>4, <1>6, <1>7
  <2>2. AgentStep(n)
    BY <1>5, <1>7, <2>1
  <2>3. QED
    BY <1>1, <1>7, <2>1, <2>2, AnswersKeeps
<1>8. CASE /\ m.call \in PromptCalls
           /\ process' = [process EXCEPT ![n].works = process[n].works \cup {<<m.of, m.call>>}]
           /\ UNCHANGED <<stdout, sessions>>
  <2> DEFINE row == [process[n] EXCEPT !.works = process[n].works \cup {<<m.of, m.call>>}]
             msg == [t |-> "ask", id |-> 1, ask |-> "file"]
  <2>1. row \in ProcessRows /\ row.works = process[n].works \cup {<<m.of, m.call>>}
    BY <1>3, <1>4, <1>8 DEF ProcessRows
  <2>2. process' = [process EXCEPT ![n] = row]
    BY <1>8
  <2> HIDE DEF row
  <2>3. /\ process' \in [Starts -> ProcessRows]
        /\ process'[n].works = process[n].works \cup {<<m.of, m.call>>}
        /\ \A k \in Starts \ {n} : process'[k] = process[k]
    BY <2>1, <2>2, ProcessPut
  <2>4. AgentStep(n)
    BY <1>4, <1>5, <1>8, <2>3
  <2>5. msg \in Said(done') /\ msg.t = "ask"
    BY DEF Said, Asks
  <2> HIDE DEF msg
  <2>6. ASSUME NEW b \in Starts, ~late, Heard(b), bridge[b].proc = n
        PROVE  /\ Len(stdin'[n]) <= 1 /\ process'[n].works \subseteq bridge[b].rpc
               /\ stdin'[n] # <<>> => process'[n].works = {}
               /\ \A i \in DOMAIN stdin'[n] : <<stdin'[n][i].of, stdin'[n][i].call>> \in bridge[b].rpc
    <3>1. Carried(stdin[n], process[n].works, stdout[n], bridge[b].rpc)
      BY <2>6 DEF ChannelInv, InFlight, Flight
    <3>2. Len(stdin[n]) <= 1 /\ process[n].works = {}
      BY <1>1, <3>1 DEF Carried
    <3>3. <<m.of, m.call>> \in bridge[b].rpc
      BY <1>2, <3>1 DEF Carried
    <3>4. stdin'[n] = <<>> /\ process'[n].works = {<<m.of, m.call>>}
      BY <1>2, <2>3, <3>2
    <3>5. QED
      BY <3>3, <3>4
  <2>7. QED
    BY <1>1, <1>8, <2>4, <2>5, <2>6, AgentKeeps
<1>9. QED
  <2>1. m.call = "initialize" /\ Answers(TRUE, 0) /\ UNCHANGED <<process, sessions>> => ChannelInv'
    BY <1>4, <1>7 DEF PromptCalls
  <2>2. /\ m.call \in {"new", "newAgain"} /\ sessions' = sessions + 1
        /\ Knows(sessions + 1) /\ Answers(TRUE, sessions + 1)
        => ChannelInv'
    <3>1. sessions + 1 \in Nat
      BY <1>4
    <3>2. QED
      BY <1>7, <3>1 DEF PromptCalls
  <2>3. m.call = "load" /\ Knows(m.sess) /\ Answers(TRUE, 0) /\ sessions' = sessions => ChannelInv'
    BY <1>3, <1>4, <1>7 DEF PromptCalls
  <2>4. Answers(FALSE, 0) /\ UNCHANGED <<process, sessions>> => ChannelInv'
    BY <1>4, <1>7
  <2>5. \/ m.call = "initialize" /\ Answers(TRUE, 0) /\ UNCHANGED <<process, sessions>>
        \/ /\ m.call \in {"new", "newAgain"} /\ sessions' = sessions + 1
           /\ Knows(sessions + 1) /\ Answers(TRUE, sessions + 1)
        \/ m.call = "load" /\ Knows(m.sess) /\ Answers(TRUE, 0) /\ sessions' = sessions
        \/ Answers(FALSE, 0) /\ UNCHANGED <<process, sessions>>
        \/ /\ m.call \in PromptCalls
           /\ process' = [process EXCEPT ![n].works = process[n].works \cup {<<m.of, m.call>>}]
           /\ UNCHANGED <<stdout, sessions>>
    BY DEF AgentReads, PromptCalls
  <2>6. QED
    BY <1>8, <2>1, <2>2, <2>3, <2>4, <2>5

-----------------------------------------------------------------------------
(* An operation arrives, and agents are closed.                              *)

LEMMA ArriveKeeps ==
  ASSUME ChannelInv, NEW p \in Prompts, Arrive(p)
  PROVE  ChannelInv'
<1> DEFINE row == [prompt[p] EXCEPT !.at = "queued", !.sess = stored]
<1>1. /\ prompt[p].at = "unsent" /\ prompt' = [prompt EXCEPT ![p] = row]
      /\ opQueue' = Append(opQueue, p)
      /\ UNCHANGED <<scene, runtime, wires, permission, past>>
  BY DEF Arrive
<1>2. /\ prompt \in [Prompts -> PromptRows] /\ prompt[p] \in PromptRows /\ opQueue \in Seq(Prompts)
      /\ stored \in Nat
  BY DEF ChannelInv, SeatTypes, PastTypes
<1>3. row \in PromptRows /\ row.at = "queued" /\ row.result = prompt[p].result
  BY <1>2 DEF PromptRows, Waits
<1> HIDE DEF row
<1>4. /\ prompt' \in [Prompts -> PromptRows]
      /\ \A q \in Prompts : prompt'[q] = IF q = p THEN row ELSE prompt[q]
  BY <1>1, <1>2, <1>3, Put
<1>5. /\ opQueue' \in Seq(Prompts) /\ opQueue' # <<>>
      /\ opQueue # <<>> => Head(opQueue') = Head(opQueue)
  BY <1>1, <1>2, Appended
<1>6. UNCHANGED <<bridge, process, inst, stdin, stdout, stored, sessions, done, selected, granted,
                  misheard, late>>
  BY <1>1 DEF wires, past
<1>7. SeatTypes' /\ WireTypes' /\ PastTypes'
  BY <1>1, <1>4, <1>5, <1>6 DEF ChannelInv, SeatTypes, WireTypes, PastTypes
<1>8. Serial'
  <2>1. Next1' = Next1
    BY <1>6, NextStays
  <2>2. \A q \in Prompts : AtWork(q) => AtWork(q)'
    BY <1>5 DEF AtWork
  <2>3. prompt'[p].at \in Waits /\ prompt'[p].at \notin {"spawn", "init", "closing"} \cup Calls
    BY <1>3, <1>4 DEF Waits, Calls
  <2>4. QED
    BY <1>1, <1>4, <1>6, <2>1, <2>2, <2>3 DEF ChannelInv, Serial
<1>9. OneAgent'
  <2>1. \A b \in Starts : \A x \in bridge[b].rpc : x[1] \in Prompts /\ x[1] # p
    <3>1. ASSUME NEW b \in Starts, NEW x \in bridge[b].rpc PROVE x[1] \in Prompts /\ x[1] # p
      <4>1. x \in Prompts \X Calls /\ prompt[x[1]].at = x[2]
        BY <3>1, OneCall
      <4>2. x[2] # "unsent"
        BY <4>1 DEF Calls
      <4>3. QED
        BY <1>1, <4>1, <4>2
    <3>2. QED
      BY <3>1
  <2>2. QED
    BY <1>1, <1>4, <1>6, <2>1 DEF ChannelInv, OneAgent, Open
<1>10. Numbered' /\ Unbridged' /\ InFlight'
  BY <1>6 DEF ChannelInv, Numbered, Unbridged, Fresh, InFlight, Heard, Open, Flight
<1>11. AnsweredByWork' /\ GrantedByUser' /\ UpdatesAttributed'
  BY <1>1, <1>3, <1>4, <1>6 DEF ChannelInv, AnsweredByWork, GrantedByUser, UpdatesAttributed
<1>12. QED
  BY <1>7, <1>8, <1>9, <1>10, <1>11 DEF ChannelInv

LEMMA CloseKeeps ==
  ASSUME ChannelInv, runtime.agent # 0, NEW exited \in BOOLEAN, CloseAgent(runtime.agent, exited),
         inst' \in {inst, 0}, UNCHANGED <<scene, stdin, past>>
  PROVE  ChannelInv'
<1> DEFINE b == runtime.agent
           k == bridge[b].proc
           fails == opQueue # <<>> /\ (prompt[Head(opQueue)].at = "init" \/ bridge[b].rpc # {})
<1>1. /\ bridge' = [bridge EXCEPT ![b].closed = TRUE, ![b].handles = 0, ![b].rpc = {}]
      /\ process' = [process EXCEPT ![k].killed = TRUE, ![k].exitSeen = @ \/ exited]
      /\ permission' = <<>>
      /\ stdout' = [stdout EXCEPT ![k] = <<>>]
      /\ prompt' = IF ~fails THEN prompt
                   ELSE IF "call" \in jam THEN [prompt EXCEPT ![Head(opQueue)].at = "closing"]
                   ELSE [prompt EXCEPT ![Head(opQueue)].at = "answered",
                                       ![Head(opQueue)].sess = 0,
                                       ![Head(opQueue)].result = "failed"]
      /\ opQueue' = IF fails /\ "call" \notin jam THEN Tail(opQueue) ELSE opQueue
      /\ runtime' = [runtime EXCEPT !.agent = 0, !.initialized = FALSE, !.active = NoPrompt,
                                    !.seen = {}]
  BY DEF CloseAgent
<1>2. /\ b \in Starts /\ runtime \in RuntimeRows /\ bridge \in [Starts -> BridgeRows]
      /\ process \in [Starts -> ProcessRows] /\ stdout \in [Starts -> Seq(Said(done))]
      /\ prompt \in [Prompts -> PromptRows] /\ opQueue \in Seq(Prompts) /\ k \in Starts \cup {0}
  BY DEF ChannelInv, SeatTypes, WireTypes, RuntimeRows, BridgeRows
<1>3. UNCHANGED <<stored, sessions, done, selected, granted, misheard, late>>
  BY DEF past
<1> HIDE DEF fails
<1>4. /\ bridge' \in [Starts -> BridgeRows]
      /\ \A c \in Starts : /\ bridge'[c].proc = bridge[c].proc /\ bridge'[c].rpc = {}
                           /\ ~Open(c)'
  <2> DEFINE line == [bridge[b] EXCEPT !.closed = TRUE, !.handles = 0, !.rpc = {}]
  <2>1. bridge[b] \in BridgeRows
    BY <1>2
  <2>2. line \in BridgeRows /\ line.proc = bridge[b].proc /\ line.rpc = {} /\ line.closed
    BY <2>1 DEF BridgeRows
  <2>3. bridge' = [bridge EXCEPT ![b] = line]
    BY <1>1
  <2> HIDE DEF line
  <2>4. /\ bridge' \in [Starts -> BridgeRows]
        /\ \A c \in Starts : bridge'[c] = IF c = b THEN line ELSE bridge[c]
    BY <1>2, <2>2, <2>3, Put
  <2>5. \A c \in Starts \ {b} : ~Open(c) /\ bridge[c].rpc = {}
    BY DEF ChannelInv, OneAgent
  <2>6. QED
    BY <2>2, <2>4, <2>5 DEF Open
<1>5. /\ process' \in [Starts -> ProcessRows]
      /\ \A n \in Starts : process'[n].works = process[n].works
  <2>1. CASE k = 0
    <3>1. process' = process
      BY <1>1, <1>2, <2>1, StartsAre
    <3>2. QED
      BY <1>2, <3>1
  <2>2. CASE k \in Starts
    <3> DEFINE row == [process[k] EXCEPT !.killed = TRUE, !.exitSeen = process[k].exitSeen \/ exited]
    <3>1. process[k] \in ProcessRows
      BY <1>2, <2>2
    <3>2. process[k].exitSeen \/ exited \in BOOLEAN
      OBVIOUS
    <3>3. row \in ProcessRows /\ row.works = process[k].works
      BY <3>1 DEF ProcessRows
    <3>4. process' = [process EXCEPT ![k] = row]
      BY <1>1, <1>2, <2>2
    <3> HIDE DEF row
    <3>5. QED
      BY <2>2, <3>3, <3>4, ProcessPut
  <2>3. QED
    BY <1>2, <2>1, <2>2
<1>6. /\ stdout' \in [Starts -> Seq(Said(done))]
      /\ \A n \in Starts : stdout'[n] = <<>> \/ stdout'[n] = stdout[n]
  <2>1. <<>> \in Seq(Said(done))
    OBVIOUS
  <2>2. QED
    BY <1>1, <1>2, <2>1
<1>7. runtime' \in RuntimeRows /\ runtime'.agent = 0
  BY <1>1, <1>2 DEF RuntimeRows, NoPrompt
<1>8. /\ prompt' \in [Prompts -> PromptRows] /\ opQueue' \in Seq(Prompts)
      /\ \A q \in Prompts :
           /\ prompt'[q].at \in Waits \cup {"closing"}
           /\ prompt'[q].at = "closing" =>
                opQueue' = opQueue /\ opQueue # <<>> /\ Head(opQueue) = q
           /\ prompt'[q].result \in {"failed", prompt[q].result}
  <2>0. \A q \in Prompts : prompt[q].at \in Waits \/ (fails /\ q = Head(opQueue))
    <3>1. ASSUME NEW q \in Prompts, prompt[q].at \notin Waits
          PROVE  fails /\ q = Head(opQueue)
      <4>1. opQueue # <<>> /\ Head(opQueue) = q /\ prompt[q].at \notin {"spawn", "closing"}
        BY <1>2, <3>1, StartsAre DEF ChannelInv, Serial, AtWork
      <4>2. prompt[q].at \in Calls => bridge[b].rpc # {}
        BY DEF ChannelInv, Serial
      <4>3. prompt[q].at \in {"init"} \cup Calls
        <5>1. prompt[q] \in PromptRows
          BY <1>2
        <5>2. QED
          BY <3>1, <4>1, <5>1 DEF PromptRows
      <4>4. QED
        BY <4>1, <4>2, <4>3 DEF fails
    <3>2. QED
      BY <3>1
  <2>n. "closing" \notin Waits
    BY DEF Waits
  <2>1. CASE ~fails
    BY <1>1, <1>2, <2>0, <2>1, <2>n
  <2>2. CASE fails /\ "call" \notin jam
    <3> DEFINE p == Head(opQueue)
               row == [prompt[p] EXCEPT !.at = "answered", !.sess = 0, !.result = "failed"]
    <3>1. opQueue # <<>>
      BY <2>2 DEF fails
    <3>2. p \in Prompts /\ Tail(opQueue) \in Seq(Prompts)
      BY <1>2, <3>1, Dropped
    <3>3. row \in PromptRows /\ row.at \in Waits /\ row.result = "failed"
      <4>1. prompt[p] \in PromptRows
        BY <1>2, <3>2
      <4>2. QED
        BY <4>1 DEF PromptRows, Waits
    <3>4. prompt' = [prompt EXCEPT ![p] = row] /\ opQueue' = Tail(opQueue)
      BY <1>1, <2>2
    <3> HIDE DEF row
    <3>5. /\ prompt' \in [Prompts -> PromptRows]
          /\ \A q \in Prompts : prompt'[q] = IF q = p THEN row ELSE prompt[q]
      BY <1>2, <3>2, <3>3, <3>4, Put
    <3>6. QED
      BY <2>0, <2>n, <3>2, <3>3, <3>4, <3>5
  <2>3. CASE fails /\ "call" \in jam
    <3> DEFINE p == Head(opQueue)
               row == [prompt[p] EXCEPT !.at = "closing"]
    <3>1. opQueue # <<>>
      BY <2>3 DEF fails
    <3>2. p \in Prompts
      BY <1>2, <3>1, Dropped
    <3>3. row \in PromptRows /\ row.at = "closing" /\ row.result = prompt[p].result
      <4>1. prompt[p] \in PromptRows
        BY <1>2, <3>2
      <4>2. QED
        BY <4>1 DEF PromptRows
    <3>4. prompt' = [prompt EXCEPT ![p] = row] /\ opQueue' = opQueue
      BY <1>1, <2>3
    <3> HIDE DEF row
    <3>5. /\ prompt' \in [Prompts -> PromptRows]
          /\ \A q \in Prompts : prompt'[q] = IF q = p THEN row ELSE prompt[q]
      BY <1>2, <3>2, <3>3, <3>4, Put
    <3>6. QED
      BY <1>2, <2>0, <2>n, <3>1, <3>2, <3>3, <3>4, <3>5
  <2>4. QED
    BY <2>1, <2>2, <2>3
<1>9. SeatTypes' /\ WireTypes' /\ PastTypes'
  <2>1. inst' \in Starts \cup {0}
    BY DEF ChannelInv, WireTypes
  <2>2. QED
    BY <1>3, <1>4, <1>5, <1>6, <1>7, <1>8, <2>1 DEF ChannelInv, SeatTypes, WireTypes, PastTypes
<1>10. Serial'
  <2>1. \A q \in Prompts : prompt'[q].at \notin Waits => prompt'[q].at = "closing" /\ AtWork(q)'
    BY <1>8 DEF AtWork
  <2>2. \A q \in Prompts : prompt'[q].at \notin {"spawn", "init"} \cup Calls
    BY <1>8 DEF Waits, Calls
  <2>3. QED
    BY <1>7, <2>1, <2>2 DEF Serial
<1>11. OneAgent'
  <2>0. permission' = <<>>
    BY <1>1
  <2>1. DOMAIN permission' = {}
    BY <2>0
  <2>2. QED
    BY <1>4, <2>1 DEF OneAgent
<1>12. Numbered' /\ Unbridged'
  BY <1>4, <1>5, <1>6, NumberedStays, UnbridgedStays DEF ChannelInv, Fresh
<1>13. InFlight'
  BY <1>4 DEF InFlight, Heard
<1>14. AnsweredByWork' /\ GrantedByUser' /\ UpdatesAttributed'
  BY <1>3, <1>8 DEF ChannelInv, AnsweredByWork, GrantedByUser, UpdatesAttributed
<1>15. QED
  BY <1>9, <1>10, <1>11, <1>12, <1>13, <1>14 DEF ChannelInv

LEMMA ExitNoticedKeeps ==
  ASSUME ChannelInv, NEW n \in Starts, ExitNoticed(n)
  PROVE  ChannelInv'
<1> DEFINE b == runtime.agent
           told == b # 0 /\ bridge[b].proc = n
<1>1. inst' \in {inst, 0} /\ UNCHANGED <<scene, stdin, past>>
  BY DEF ExitNoticed
<1>2. CASE told /\ ~runtime.suppress
  <2>1. CloseAgent(b, TRUE)
    BY <1>2 DEF ExitNoticed
  <2>2. QED
    BY <1>1, <1>2, <2>1, CloseKeeps
<1>3. CASE ~(told /\ ~runtime.suppress)
  <2>1. /\ runtime' = [runtime EXCEPT !.suppress = runtime.suppress /\ ~told]
        /\ process' = [process EXCEPT ![n].exitSeen = TRUE]
        /\ UNCHANGED <<prompt, opQueue, bridge, stdout, permission>>
    BY <1>3 DEF ExitNoticed
  <2>2. (runtime.suppress /\ ~told) \in BOOLEAN
    OBVIOUS
  <2>3. QED
    BY <1>1, <2>1, <2>2, ExitUntoldKeeps
<1>4. QED
  BY <1>2, <1>3

-----------------------------------------------------------------------------
(* An agent is started.                                                      *)

\* Without an agent no bridge is open, nothing is awaited and no user is asked.
LEMMA NoAgent ==
  ASSUME ChannelInv, runtime.agent = 0
  PROVE  /\ \A b \in Starts : ~Open(b) /\ bridge[b].rpc = {}
         /\ DOMAIN permission = {}
BY StartsAre DEF ChannelInv, OneAgent

\* The next start has no bridge, and its process has been told nothing.
LEMMA NextIsFresh ==
  ASSUME ChannelInv, Next1 \in Starts
  PROVE  /\ Fresh(Next1) /\ inst <= Next1
         /\ \A b \in Starts : (bridge[b].proc # 0 <=> b < Next1) /\ bridge[b].proc <= b
<1>1. PICK k \in 0 .. MaxStarts :
        /\ \A b \in Starts : (bridge[b].proc # 0 <=> b <= k) /\ bridge[b].proc <= b
        /\ inst <= k + 1
  BY DEF ChannelInv, Numbered
<1>2. Next1 = k + 1 /\ k \in Nat
  <2>1. Next1 = k + 1
    BY <1>1, NextIs
  <2>2. QED
    BY <2>1, StartsAre
<1>3. \A b \in Starts : b \in Nat /\ bridge[b].proc \in Nat
  <2>1. ASSUME NEW b \in Starts PROVE b \in Nat /\ bridge[b].proc \in Nat
    <3>1. bridge[b] \in BridgeRows
      BY DEF ChannelInv, WireTypes
    <3>2. bridge[b].proc \in Starts \cup {0}
      BY <3>1 DEF BridgeRows
    <3>3. b \in Nat
      BY StartsAre
    <3>4. bridge[b].proc \in Nat
      <4>1. \A n \in Starts \cup {0} : n \in Nat
        BY StartsAre
      <4>2. QED
        BY <3>2, <4>1
    <3>5. QED
      BY <3>3, <3>4
  <2>2. QED
    BY <2>1
<1>4. \A b \in Starts : bridge[b].proc # Next1
  <2>1. ASSUME NEW b \in Starts PROVE bridge[b].proc # Next1
    BY <1>1, <1>2, <1>3
  <2>2. QED
    BY <2>1
<1>5. Fresh(Next1)
  BY <1>4 DEF ChannelInv, Unbridged
<1>6. QED
  BY <1>1, <1>2, <1>3, <1>5

LEMMA StartedPut ==
  ASSUME ChannelInv, NEW n \in Starts,
         process' = [process EXCEPT ![n].started = TRUE, ![n].alive = TRUE]
  PROVE  process' \in [Starts -> ProcessRows]
         /\ \A k \in Starts : process'[k].works = process[k].works
<1> DEFINE row == [process[n] EXCEPT !.started = TRUE, !.alive = TRUE]
<1>1. process[n] \in ProcessRows
  BY DEF ChannelInv, WireTypes
<1>2. row \in ProcessRows /\ row.works = process[n].works
  BY <1>1 DEF ProcessRows
<1>3. process' = [process EXCEPT ![n] = row]
  OBVIOUS
<1> HIDE DEF row
<1>4. QED
  BY <1>2, <1>3, ProcessPut

LEMMA SpawnKeeps ==
  ASSUME ChannelInv, NEW p \in Prompts, Spawn(p)
  PROVE  ChannelInv'
<1>1. /\ AtWork(p) /\ prompt[p].at = "queued" /\ runtime.agent = 0 /\ Next1 \in Starts
      /\ process' = [process EXCEPT ![Next1].started = TRUE, ![Next1].alive = TRUE]
      /\ inst' = Next1
      /\ prompt' = [prompt EXCEPT ![p].at = "spawn"]
      /\ UNCHANGED <<scene, opQueue, runtime, bridge, stdin, stdout, permission, past>>
  BY DEF Spawn
<1>2. UNCHANGED <<stored, sessions, done, selected, granted, misheard, late>>
  BY <1>1 DEF past
<1> DEFINE row == [prompt[p] EXCEPT !.at = "spawn"]
<1>3. row \in PromptRows /\ row.at = "spawn" /\ row.result = prompt[p].result
      /\ prompt' = [prompt EXCEPT ![p] = row] /\ prompt \in [Prompts -> PromptRows]
  <2>1. prompt[p] \in PromptRows /\ prompt \in [Prompts -> PromptRows]
    BY DEF ChannelInv, SeatTypes
  <2>2. QED
    BY <1>1, <2>1 DEF PromptRows
<1> HIDE DEF row
<1>4. /\ prompt' \in [Prompts -> PromptRows]
      /\ \A q \in Prompts : prompt'[q] = IF q = p THEN row ELSE prompt[q]
  BY <1>3, Put
<1>5. /\ process' \in [Starts -> ProcessRows]
      /\ \A n \in Starts : process'[n].works = process[n].works
  BY <1>1, StartedPut
<1>6. \A b \in Starts : ~Open(b) /\ bridge[b].rpc = {}
  BY <1>1, NoAgent
<1>7. Next1' = Next1
  BY <1>1, NextStays
<1>8. SeatTypes' /\ WireTypes' /\ PastTypes'
  BY <1>1, <1>2, <1>4, <1>5 DEF ChannelInv, SeatTypes, WireTypes, PastTypes
<1>9. Serial'
  <2>1. \A q \in Prompts : AtWork(q)' <=> AtWork(q)
    BY <1>1 DEF AtWork
  <2>2. \A q \in Prompts \ {p} : prompt'[q].at \in Waits
    BY <1>1, <1>4 DEF ChannelInv, Serial, AtWork
  <2>3. QED
    BY <1>1, <1>3, <1>4, <1>7, <2>1, <2>2 DEF Serial, Waits, Calls
<1>10. OneAgent'
  BY <1>1, <1>6, NoAgent DEF OneAgent, Open
<1>11. Numbered'
  <2>1. PICK k \in 0 .. MaxStarts :
          /\ \A b \in Starts : (bridge[b].proc # 0 <=> b <= k) /\ bridge[b].proc <= b
          /\ inst <= k + 1
    BY DEF ChannelInv, Numbered
  <2>2. inst' = k + 1
    BY <1>1, <2>1, NextIs
  <2>3. inst' <= k + 1
    BY <2>2, StartsAre
  <2>4. QED
    BY <1>1, <2>1, <2>3 DEF Numbered
<1>12. Unbridged'
  BY <1>1, <1>5, UnbridgedStays DEF ChannelInv, Fresh
<1>13. InFlight'
  BY <1>1, <1>6 DEF InFlight, Heard, Open
<1>14. AnsweredByWork' /\ GrantedByUser' /\ UpdatesAttributed'
  BY <1>1, <1>2, <1>3, <1>4 DEF ChannelInv, AnsweredByWork, GrantedByUser, UpdatesAttributed
<1>15. QED
  BY <1>8, <1>9, <1>10, <1>11, <1>12, <1>13, <1>14 DEF ChannelInv

\* The bridge of process n is made, and awaits calls of prompt p.
Makes(p, n, at, calls) ==
  LET b == Next1 IN
    /\ PromptGoes(p, at) /\ prompt'[p].result = prompt[p].result
    /\ runtime' \in RuntimeRows /\ runtime'.agent = b
    /\ bridge' \in [Starts -> BridgeRows]
    /\ bridge'[b].proc = n /\ bridge'[b].rpc = calls /\ (n = b \/ bridge'[b].deaf)
    /\ \A c \in Starts \ {b} : bridge'[c] = bridge[c]
    /\ process' \in [Starts -> ProcessRows]
    /\ \A m \in Starts : process'[m].works = process[m].works
    /\ stdin' \in [Starts -> Seq(Requests)]
    /\ \A m \in Starts :
         \/ stdin'[m] = stdin[m]
         \/ m = n /\ \E r \in Requests : /\ <<r.of, r.call>> \in calls
                                         /\ stdin'[m] = Append(stdin[m], r)
    /\ UNCHANGED <<scene, opQueue, inst, stdout, permission, past>>

LEMMA MakesKeeps ==
  ASSUME ChannelInv, NEW p \in Prompts, AtWork(p), runtime.agent = 0, Next1 \in Starts,
         NEW n \in Starts, n <= Next1, NEW at, NEW calls, Makes(p, n, at, calls),
         (at = "init" /\ calls = {}) \/ (at = "initialize" /\ calls = {<<p, "initialize">>})
  PROVE  ChannelInv'
<1> DEFINE b == Next1
<1>1. /\ PromptGoes(p, at) /\ prompt'[p].result = prompt[p].result
      /\ runtime' \in RuntimeRows /\ runtime'.agent = b
      /\ bridge' \in [Starts -> BridgeRows]
      /\ bridge'[b].proc = n /\ bridge'[b].rpc = calls /\ (n = b \/ bridge'[b].deaf)
      /\ \A c \in Starts \ {b} : bridge'[c] = bridge[c]
      /\ process' \in [Starts -> ProcessRows]
      /\ \A m \in Starts : process'[m].works = process[m].works
      /\ stdin' \in [Starts -> Seq(Requests)]
      /\ \A m \in Starts :
           \/ stdin'[m] = stdin[m]
           \/ m = n /\ \E r \in Requests : /\ <<r.of, r.call>> \in calls
                                           /\ stdin'[m] = Append(stdin[m], r)
      /\ UNCHANGED <<scene, opQueue, inst, stdout, permission, past>>
  BY DEF Makes
<1>2. UNCHANGED <<stored, sessions, done, selected, granted, misheard, late>>
  BY <1>1 DEF past
<1>3. b \in Starts /\ b # 0 /\ b \in Nat
  BY StartsAre
<1> HIDE DEF b
<1>4. \A q \in Prompts : prompt'[q] = IF q = p THEN prompt'[p] ELSE prompt[q]
  BY <1>1 DEF PromptGoes
<1>5. /\ \A c \in Starts \ {b} : bridge'[c] = bridge[c] /\ ~Open(c) /\ bridge[c].rpc = {}
      /\ DOMAIN permission = {}
  BY <1>1, NoAgent
<1>6. SeatTypes' /\ WireTypes' /\ PastTypes'
  BY <1>1, <1>2 DEF ChannelInv, SeatTypes, WireTypes, PastTypes, PromptGoes
<1>7. Serial'
  <2>1. \A q \in Prompts : AtWork(q)' <=> AtWork(q)
    BY <1>1 DEF AtWork
  <2>2. \A q \in Prompts \ {p} : prompt'[q].at \in Waits
    BY <1>1, <1>4 DEF ChannelInv, Serial, AtWork
  <2>3. prompt'[p].at = at /\ at # "spawn" /\ at \in {"init", "initialize"}
    BY <1>1 DEF PromptGoes
  <2>4. at \in Calls => <<p, at>> \in bridge'[b].rpc
    BY <1>1 DEF Calls
  <2>5. QED
    BY <1>1, <1>3, <2>1, <2>2, <2>3, <2>4 DEF Serial, Waits, Calls
<1>8. OneAgent'
  <2>1. \A c \in Starts : Open(c)' => c = runtime'.agent
    BY <1>1, <1>5 DEF Open
  <2>2. ASSUME NEW c \in Starts, NEW x \in bridge'[c].rpc
        PROVE  /\ c = runtime'.agent /\ prompt'[x[1]].at = x[2]
               /\ x[2] # "initialize" => runtime'.active = x[1]
    <3>1. c = b
      BY <1>5, <2>2
    <3>2. x = <<p, "initialize">> /\ at = "initialize"
      BY <1>1, <2>2, <3>1
    <3>3. QED
      BY <1>1, <3>1, <3>2 DEF PromptGoes
  <2>3. QED
    BY <1>1, <1>5, <2>1, <2>2 DEF OneAgent
<1>9. Numbered'
  <2>1. PICK k \in 0 .. MaxStarts :
          /\ \A c \in Starts : (bridge[c].proc # 0 <=> c <= k) /\ bridge[c].proc <= c
          /\ inst <= k + 1
    BY DEF ChannelInv, Numbered
  <2>2. b = k + 1 /\ k \in Nat
    <3>1. Next1 = k + 1
      BY <2>1, NextIs
    <3>2. QED
      BY <3>1, StartsAre DEF b
  <2>3. k + 1 \in 0 .. MaxStarts
    BY <1>3, <2>2, StartsAre
  <2>4. ASSUME NEW c \in Starts
        PROVE  (bridge'[c].proc # 0 <=> c <= k + 1) /\ bridge'[c].proc <= c
    <3>1. c \in Nat /\ n # 0
      BY StartsAre
    <3>2. CASE c = b
      BY <1>1, <2>2, <3>1, <3>2 DEF b
    <3>3. CASE c # b
      BY <1>5, <2>1, <2>2, <3>1, <3>3
    <3>4. QED
      BY <3>2, <3>3
  <2>5. inst' <= (k + 1) + 1
    <3>1. inst' = inst /\ inst \in Nat
      <4>1. inst \in Starts \cup {0}
        BY DEF ChannelInv, WireTypes
      <4>2. QED
        BY <1>1, <4>1, StartsAre
    <3>2. QED
      BY <2>1, <2>2, <3>1
  <2>6. QED
    BY <2>3, <2>4, <2>5 DEF Numbered
<1>10. Unbridged'
  <2>1. ASSUME NEW m \in Starts, \A c \in Starts : bridge'[c].proc # m
        PROVE  Fresh(m)'
    <3>1. m # n
      BY <1>1, <1>3, <2>1
    <3>2. bridge[b].proc # m
      <4>1. bridge[b].proc = 0
        BY <1>3, NextIsFresh DEF b
      <4>2. QED
        BY <4>1, StartsAre
    <3>3. \A c \in Starts : bridge[c].proc # m
      BY <1>5, <2>1, <3>2
    <3>4. Fresh(m)
      BY <3>3 DEF ChannelInv, Unbridged
    <3>5. QED
      BY <1>1, <3>1, <3>4 DEF Fresh
  <2>2. QED
    BY <2>1 DEF Unbridged
<1>11. InFlight'
  <2> SUFFICES ASSUME ~late', NEW c \in Starts, Heard(c)'
               PROVE  Flight(c)'
    BY DEF InFlight
  <2>1. c = b /\ n = b
    BY <1>1, <1>5 DEF Heard, Open
  <2>2. stdin[n] = <<>> /\ stdout[n] = <<>> /\ process[n].works = {}
    BY <2>1, NextIsFresh DEF b, Fresh
  <2>3. /\ Len(stdin'[n]) <= 1
        /\ \A i \in DOMAIN stdin'[n] : <<stdin'[n][i].of, stdin'[n][i].call>> \in calls
    <3>1. CASE stdin'[n] = stdin[n]
      BY <2>2, <3>1
    <3>2. ASSUME NEW r \in Requests, <<r.of, r.call>> \in calls, stdin'[n] = Append(stdin[n], r)
          PROVE  /\ Len(stdin'[n]) <= 1
                 /\ \A i \in DOMAIN stdin'[n] : <<stdin'[n][i].of, stdin'[n][i].call>> \in calls
      <4>1. stdin[n] \in Seq(Requests)
        BY DEF ChannelInv, WireTypes
      <4>2. QED
        BY <2>2, <3>2, <4>1, Appended
    <3>3. QED
      BY <1>1, <3>1, <3>2
  <2>4. stdout'[n] = <<>> /\ process'[n].works = {}
    BY <1>1, <2>2
  <2>5. Carried(stdin'[n], process'[n].works, stdout'[n], calls)
    BY <2>3, <2>4 DEF Carried
  <2>6. QED
    BY <1>1, <2>1, <2>5 DEF Flight
<1>12. AnsweredByWork' /\ GrantedByUser' /\ UpdatesAttributed'
  BY <1>1, <1>2, <1>4 DEF ChannelInv, AnsweredByWork, GrantedByUser, UpdatesAttributed
<1>13. QED
  BY <1>6, <1>7, <1>8, <1>9, <1>10, <1>11, <1>12 DEF ChannelInv

\* The bridge is made, and the agent is told to initialize.
LEMMA BridgedKeeps ==
  ASSUME ChannelInv, NEW p \in Prompts, AtWork(p), runtime.agent = 0, Next1 \in Starts,
         NEW n \in Starts, n <= Next1, NEW hears \in BOOLEAN, hears => n = Next1,
         Bridged(p, n, hears)
  PROVE  ChannelInv'
<1> DEFINE b == Next1
           calls == {<<p, "initialize">>}
           msg == [call |-> "initialize", of |-> p, sess |-> prompt[p].sess]
           row == [prompt[p] EXCEPT !.at = "initialize"]
           line == [NoBridge EXCEPT !.proc = n, !.deaf = ~hears, !.rpc = calls]
<1>1. /\ bridge' = [bridge EXCEPT ![b] = line]
      /\ runtime' = [runtime EXCEPT !.agent = b]
      /\ prompt' = [prompt EXCEPT ![p] = row]
      /\ stdin' = IF process[n].alive THEN [stdin EXCEPT ![n] = Append(stdin[n], msg)] ELSE stdin
      /\ UNCHANGED <<scene, opQueue, process, inst, stdout, permission, past>>
  BY DEF Bridged
<1>2. /\ prompt \in [Prompts -> PromptRows] /\ runtime \in RuntimeRows
      /\ bridge \in [Starts -> BridgeRows] /\ process \in [Starts -> ProcessRows]
      /\ stdin \in [Starts -> Seq(Requests)]
  BY DEF ChannelInv, SeatTypes, WireTypes
<1>3. prompt[p] \in PromptRows /\ prompt[p].sess \in Nat
  BY <1>2 DEF PromptRows
<1>4. row \in PromptRows /\ row.at = "initialize" /\ row.result = prompt[p].result
  BY <1>3 DEF PromptRows, Calls
<1>5. line \in BridgeRows /\ line.proc = n /\ line.rpc = calls /\ line.deaf = ~hears
  <2>1. calls \in SUBSET (Prompts \X Calls)
    BY DEF Calls
  <2>2. QED
    BY <2>1 DEF NoBridge, BridgeRows
<1>6. msg \in Requests /\ <<msg.of, msg.call>> \in calls
  BY <1>3 DEF Requests, Calls
<1>7. runtime' \in RuntimeRows /\ runtime'.agent = b
  BY <1>1, <1>2 DEF RuntimeRows
<1> HIDE DEF row, line, msg, calls
<1>8. PromptGoes(p, "initialize") /\ prompt'[p].result = prompt[p].result
  BY <1>1, <1>2, <1>4, Put DEF PromptGoes
<1>9. /\ bridge' \in [Starts -> BridgeRows]
      /\ \A c \in Starts : bridge'[c] = IF c = b THEN line ELSE bridge[c]
  BY <1>1, <1>2, <1>5, Put
<1>10. /\ stdin' \in [Starts -> Seq(Requests)]
       /\ \A m \in Starts :
            stdin'[m] = stdin[m] \/ (m = n /\ stdin'[m] = Append(stdin[m], msg))
  <2>1. Append(stdin[n], msg) \in Seq(Requests)
    BY <1>2, <1>6, Appended
  <2>2. CASE stdin' = stdin
    BY <1>2, <2>2
  <2>3. CASE stdin' = [stdin EXCEPT ![n] = Append(stdin[n], msg)]
    BY <1>2, <2>1, <2>3, Put
  <2>4. QED
    BY <1>1, <2>2, <2>3
<1>11. Makes(p, n, "initialize", calls)
  BY <1>1, <1>2, <1>5, <1>6, <1>7, <1>8, <1>9, <1>10 DEF Makes
<1>12. QED
  BY <1>11, MakesKeeps DEF calls

LEMMA AttachKeeps ==
  ASSUME ChannelInv, NEW p \in Prompts, Attach(p)
  PROVE  ChannelInv'
<1>1. AtWork(p) /\ prompt[p].at = "spawn" /\ Bridged(p, Next1, TRUE)
  BY DEF Attach
<1>2. runtime.agent = 0 /\ Next1 \in Starts
  BY <1>1 DEF ChannelInv, Serial
<1>3. Next1 <= Next1
  BY <1>2, StartsAre
<1>4. QED
  BY <1>1, <1>2, <1>3, BridgedKeeps

LEMMA ReuseKeeps ==
  ASSUME ChannelInv, NEW p \in Prompts, Reuse(p)
  PROVE  ChannelInv'
<1>1. AtWork(p) /\ runtime.agent = 0 /\ inst # 0 /\ Next1 \in Starts /\ Bridged(p, inst, FALSE)
  BY DEF Reuse
<1>2. inst \in Starts
  BY <1>1 DEF ChannelInv, WireTypes
<1>3. inst <= Next1
  BY <1>1, NextIsFresh
<1>4. QED
  BY <1>1, <1>2, <1>3, BridgedKeeps

LEMMA SpawnContainerKeeps ==
  ASSUME ChannelInv, NEW p \in Prompts, SpawnContainer(p)
  PROVE  ChannelInv'
<1> DEFINE b == Next1
           row == [prompt[p] EXCEPT !.at = "init"]
           line == [NoBridge EXCEPT !.proc = b]
<1>1. /\ AtWork(p) /\ runtime.agent = 0 /\ b \in Starts
      /\ process' = [process EXCEPT ![b].started = TRUE, ![b].alive = TRUE]
      /\ bridge' = [bridge EXCEPT ![b] = line]
      /\ runtime' = [runtime EXCEPT !.agent = b, !.suppress = TRUE]
      /\ prompt' = [prompt EXCEPT ![p] = row]
      /\ UNCHANGED <<scene, opQueue, inst, stdin, stdout, permission, past>>
  BY DEF SpawnContainer
<1>2. /\ prompt \in [Prompts -> PromptRows] /\ prompt[p] \in PromptRows /\ runtime \in RuntimeRows
      /\ bridge \in [Starts -> BridgeRows] /\ stdin \in [Starts -> Seq(Requests)]
  BY DEF ChannelInv, SeatTypes, WireTypes
<1>3. row \in PromptRows /\ row.at = "init" /\ row.result = prompt[p].result
  BY <1>2 DEF PromptRows
<1>4. line \in BridgeRows /\ line.proc = b /\ line.rpc = {}
  BY <1>1 DEF NoBridge, BridgeRows
<1>5. runtime' \in RuntimeRows /\ runtime'.agent = b
  BY <1>1, <1>2 DEF RuntimeRows
<1> HIDE DEF row, line
<1>6. PromptGoes(p, "init") /\ prompt'[p].result = prompt[p].result
  BY <1>1, <1>2, <1>3, Put DEF PromptGoes
<1>7. /\ bridge' \in [Starts -> BridgeRows]
      /\ \A c \in Starts : bridge'[c] = IF c = b THEN line ELSE bridge[c]
  BY <1>1, <1>2, <1>4, Put
<1>8. /\ process' \in [Starts -> ProcessRows]
      /\ \A m \in Starts : process'[m].works = process[m].works
  BY <1>1, StartedPut
<1>9. Makes(p, b, "init", {})
  BY <1>1, <1>2, <1>4, <1>5, <1>6, <1>7, <1>8 DEF Makes
<1>10. b <= b
  BY <1>1, StartsAre
<1>11. QED
  BY <1>1, <1>9, <1>10, MakesKeeps

-----------------------------------------------------------------------------
(* The theorems.                                                             *)

LEMMA ChannelStarts == ChannelInit => ChannelInv
<1> SUFFICES ASSUME ChannelInit
             PROVE  ChannelInv
  OBVIOUS
<1>1. SeatTypes /\ WireTypes /\ PastTypes
  <2>1. <<>> \in Seq(Prompts) /\ <<>> \in Seq(Requests) /\ <<>> \in Seq(Said(done))
    OBVIOUS
  <2>2. NoBridge \in BridgeRows
    BY DEF NoBridge, BridgeRows
  <2>3. NoProcess \in ProcessRows
    BY DEF NoProcess, ProcessRows
  <2>4. prompt \in [Prompts -> PromptRows]
    BY DEF ChannelInit, PromptRows, Waits
  <2>5. runtime \in RuntimeRows
    BY DEF ChannelInit, RuntimeRows, NoPrompt
  <2>6. QED
    BY <2>1, <2>2, <2>3, <2>4, <2>5 DEF ChannelInit, SeatTypes, WireTypes, PastTypes
<1>2. \A b \in Starts : bridge[b].proc = 0 /\ bridge[b].rpc = {} /\ ~Open(b)
  BY DEF ChannelInit, NoBridge, Open
<1>3. Serial
  BY DEF ChannelInit, Serial, Waits, Calls
<1>4. OneAgent
  <2>1. DOMAIN permission = {}
    BY DEF ChannelInit
  <2>2. QED
    BY <1>2, <2>1 DEF OneAgent
<1>5. Numbered
  <2>1. 0 \in 0 .. MaxStarts /\ \A b \in Starts : ~(b <= 0) /\ 0 <= b
    BY StartsAre DEF Starts
  <2>2. inst = 0 /\ inst <= 0 + 1
    BY DEF ChannelInit
  <2>3. QED
    BY <1>2, <2>1, <2>2 DEF Numbered
<1>6. Unbridged
  BY DEF ChannelInit, Unbridged, Fresh, NoProcess
<1>7. InFlight
  BY <1>2 DEF InFlight, Heard
<1>8. AnsweredByWork /\ GrantedByUser /\ UpdatesAttributed
  BY DEF ChannelInit, AnsweredByWork, GrantedByUser, UpdatesAttributed
<1>9. QED
  BY <1>1, <1>3, <1>4, <1>5, <1>6, <1>7, <1>8 DEF ChannelInv

LEMMA ChannelStands ==
  ASSUME ChannelInv, UNCHANGED chanVars
  PROVE  ChannelInv'
<1>1. /\ UNCHANGED <<scene, prompt, opQueue, runtime, bridge, process, inst, stdin, stdout, permission>>
      /\ UNCHANGED <<stored, sessions, done, selected, granted, misheard, late>>
  BY DEF chanVars, seat, wires, past
<1>2. SameBridges
  BY <1>1, StillSame
<1>3. UsersWait
  BY <1>1 DEF UsersWait, ChannelInv, OneAgent
<1>4. QED
  BY <1>1, <1>2, <1>3, StillKeeps DEF ChannelInv, SeatTypes, WireTypes, GrantedByUser

LEMMA ChannelSteps == ChannelInv /\ [ChannelNext]_chanVars => ChannelInv'
<1> SUFFICES ASSUME ChannelInv, [ChannelNext]_chanVars
             PROVE  ChannelInv'
  OBVIOUS
<1>1. ASSUME NEW p \in Prompts,
             Arrive(p) \/ OpenAgain(p) \/ InputsFail(p) \/ InitScriptFails(p) \/ Spawn(p)
               \/ Attach(p) \/ Reuse(p) \/ SpawnContainer(p) \/ InitDone(p) \/ InitFails(p)
               \/ TimesOut(p) \/ WriteFails(p)
      PROVE  ChannelInv'
  <2>1. CASE InitFails(p)
    <3>1. prompt[p].at = "init" /\ CloseAgent(runtime.agent, FALSE) /\ UNCHANGED <<scene, inst, stdin, past>>
      BY <2>1 DEF InitFails
    <3>2. runtime.agent # 0
      BY <3>1 DEF ChannelInv, Serial
    <3>3. QED
      BY <3>1, <3>2, CloseKeeps
  <2>2. CASE InputsFail(p) \/ InitScriptFails(p)
    BY <2>2, UnopenedKeeps DEF InputsFail, InitScriptFails
  <2>3. QED
    BY <1>1, <2>1, <2>2, ArriveKeeps, OpenAgainKeeps, SpawnKeeps, AttachKeeps, ReuseKeeps,
       SpawnContainerKeeps, InitDoneKeeps, TimesOutKeeps, WriteFailsKeeps
<1>2. ASSUME NEW b \in Starts,
             ReadAnswer(b) \/ ReadUpdate(b) \/ ReadPermission(b) \/ ReadFile(b) \/ ReadTerminal(b)
               \/ Waited(b)
      PROVE  ChannelInv'
  BY <1>2, ReadAnswerKeeps, ReadUpdateKeeps, ReadPermissionKeeps, ReadFileKeeps, WaitedKeeps
<1>3. ASSUME NEW id \in 1 .. MaxAsks, NEW grants \in BOOLEAN, Decide(id, grants)
      PROVE  ChannelInv'
  BY <1>3, DecideKeeps
<1>4. CASE AcpClose
  <2>1. runtime.agent # 0 /\ CloseAgent(runtime.agent, FALSE) /\ UNCHANGED <<scene, inst, stdin, past>>
    BY <1>4 DEF AcpClose
  <2>2. QED
    BY <2>1, CloseKeeps
<1>5. ASSUME NEW n \in Starts,
             ExitNoticed(n) \/ Dies(n) \/ AgentReads(n) \/ AgentTakes(n) \/ AgentFinishes(n)
               \/ AgentUpdates(n) \/ AgentAsks(n) \/ CommandExits(n)
      PROVE  ChannelInv'
  BY <1>5, ExitNoticedKeeps, DiesKeeps, AgentReadsKeeps, AgentTakesKeeps, AgentFinishesKeeps, AgentUpdatesKeeps,
     AgentAsksKeeps, CommandExitsKeeps
<1>6. CASE UNCHANGED chanVars
  BY <1>6, ChannelStands
<1>7. QED
  BY <1>1, <1>2, <1>3, <1>4, <1>5, <1>6 DEF ChannelNext

LEMMA ChannelHolds == ChannelSpec => []ChannelInv
<1>1. QED
  BY ChannelStarts, ChannelSteps, PTL DEF ChannelSpec

\* A prompt is reported as done only when an agent has finished that prompt, whatever calls
\* were given up, retried or answered late (AgentBridge.pendingRpc).
THEOREM AnsweredByWorkHolds == ChannelSpec => []AnsweredByWork
<1>1. ChannelInv => AnsweredByWork
  BY DEF ChannelInv
<1>2. QED
  BY <1>1, ChannelHolds, PTL

\* Where users are asked, an agent has no permission that no user granted (closeAgent cancels
\* the requests that wait).
THEOREM GrantedByUserHolds == ChannelSpec => []GrantedByUser
<1>1. ChannelInv => GrantedByUser
  BY DEF ChannelInv
<1>2. QED
  BY <1>1, ChannelHolds, PTL

\* While no answer is given up, an update is passed on as one of the prompt it is about
\* (the activePromptId of the run).
THEOREM UpdatesAttributedHolds == ChannelSpec => []UpdatesAttributed
<1>1. ChannelInv => UpdatesAttributed
  BY DEF ChannelInv
<1>2. QED
  BY <1>1, ChannelHolds, PTL
================================================================================
