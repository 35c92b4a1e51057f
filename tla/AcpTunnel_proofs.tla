--------------------------- MODULE AcpTunnel_proofs ---------------------------
(***************************************************************************)
(* The tunnel keeps its promise (PromptCall), and completes runs only by   *)
(* work that was done, however many calls are made, connections break and  *)
(* processes stop.  The argument follows a result on its way: what the     *)
(* proxy says was done is done, also once it is late, and a call takes     *)
(* only the result that names it.                                          *)
(***************************************************************************)
EXTENDS AcpTunnel, SequenceTheorems, TLAPS

CallKinds == {"none", "start", "chat", "ws", "resume", "control"}
Places    == {"idle", "lost"} \cup Begun \cup After \cup Missed
Boxes     == {"none", "running", "stopped", "missing"}

CallRecords == [kind : CallKinds, at : Places, obj : Nat, hint : Sessions,
                init : BOOLEAN, res : Sessions]
RunRows     == [status : {"running", "completed", "cancelled", "failed"},
                session : Sessions, sandbox : Boxes]

\* What is on its way when the calls of M have been made and those of F are done.
Orders(M) ==
  [t : {"open"}, init : BOOLEAN]
    \cup [t : {"prompt"}, call : M, hint : Sessions]
    \cup [t : {"control"}, call : M]
Operations(M) ==
  [t : {"open"}, init : BOOLEAN]
    \cup [t : {"prompt"}, call : M, sess : Sessions, running : BOOLEAN]
Sayings(M, F) ==
  [t : {"register"}] \cup [t : {"opened"}, ok : BOOLEAN]
    \cup [t : {"result"}, call : M, ok : {FALSE}, sess : Sessions]
    \cup [t : {"result"}, call : F, ok : {TRUE}, sess : Sessions]
    \cup [t : {"created"}, sess : Calls] \cup [t : {"status"}, st : Boxes]
Tasks == [t : {"status"}, st : Boxes] \cup [t : {"ws"}, call : Calls]

Made == {c \in Calls : ~At(c, "idle")}

TypeInv ==
  /\ call \in [Calls -> CallRecords]
  /\ run \in RunRows
  /\ cur \in Nat /\ nobj \in Nat
  /\ tasks \in Seq(Tasks)

\* Nothing on its way is about a call that was not made, or says of work that it is
\* done before it is.
Honest ==
  /\ finished \subseteq Made
  /\ inbox \in Seq(Orders(Made))
  /\ opq \in Seq(Operations(Made))
  /\ up \in [Sockets -> Seq(Sayings(Made, finished))]

\* Those that were answered were answered by their work.
Earned ==
  \A c \in Calls :
    /\ call[c].at \in After => c \in finished
    /\ call[c].at = "finish" => call[c].kind # "control"

TunnelInv == TypeInv /\ Honest /\ Earned /\ CompletedByWork

\* What a step may do to the calls, as their callers see it.
Same(c) == Outcome(call'[c].at) = Outcome(call[c].at)
Turns(c, from, to) == Outcome(call[c].at) = from /\ Outcome(call'[c].at) = to

Follows ==
  \/ /\ finished' = finished
     /\ \/ \A c \in Calls : Same(c)
        \/ \E c \in Calls :
             Turns(c, "none", "pending") /\ \A d \in Calls \ {c} : Same(d)
        \/ \E c \in finished :
             Turns(c, "pending", "ok") /\ \A d \in Calls \ {c} : Same(d)
        \/ \A c \in Calls : Same(c) \/ Turns(c, "pending", "failed")
        \/ \A c \in Calls : IF Outcome(call[c].at) = "pending" THEN Turns(c, "pending", "lost")
                                                              ELSE Same(c)
  \/ \E c \in Made : finished' = finished \cup {c} /\ \A d \in Calls : Same(d)

-----------------------------------------------------------------------------
(* Outcomes, and messages on their way while calls are made and done.        *)

LEMMA Outcomes ==
  \A at \in Places :
    /\ Outcome(at) \in {"none", "lost", "pending", "ok", "failed"}
    /\ Outcome(at) = "none" <=> at = "idle"
    /\ Outcome(at) = "lost" <=> at = "lost"
    /\ Outcome(at) = "pending" <=> at \in Begun
    /\ Outcome(at) = "ok" <=> at \in After
    /\ Outcome(at) = "failed" <=> at \in Missed
BY DEF Outcome, Places, Begun, After, Missed

LEMMA Wider ==
  ASSUME NEW M, NEW F, NEW M2, NEW F2, M \subseteq M2, F \subseteq F2
  PROVE  /\ Seq(Orders(M)) \subseteq Seq(Orders(M2))
         /\ Seq(Operations(M)) \subseteq Seq(Operations(M2))
         /\ Seq(Sayings(M, F)) \subseteq Seq(Sayings(M2, F2))
<1>1. /\ Orders(M) \subseteq Orders(M2)
      /\ Operations(M) \subseteq Operations(M2)
      /\ Sayings(M, F) \subseteq Sayings(M2, F2)
  BY DEF Orders, Operations, Sayings
<1>2. ASSUME NEW S, NEW T, S \subseteq T
      PROVE  Seq(S) \subseteq Seq(T)
  BY <1>2
<1>3. QED
  BY <1>1, <1>2

\* Calls that were made stay made, work that is done stays done.
LEMMA FollowsGrows ==
  ASSUME TunnelInv, TypeInv', Follows
  PROVE  /\ Made \subseteq Made' /\ finished \subseteq finished' /\ finished' \subseteq Made'
         /\ inbox \in Seq(Orders(Made'))
         /\ opq \in Seq(Operations(Made'))
         /\ up \in [Sockets -> Seq(Sayings(Made', finished'))]
<1>1. \A c \in Calls : call[c].at \in Places /\ call'[c].at \in Places
  BY DEF TunnelInv, TypeInv, CallRecords
<1>2. Made \subseteq Made'
  BY <1>1, Outcomes DEF Follows, Same, Turns, Made, At
<1>3. finished \subseteq finished' /\ finished' \subseteq Made'
  BY <1>2 DEF Follows, TunnelInv, Honest
<1>4. QED
  BY <1>2, <1>3, Wider DEF TunnelInv, Honest

\* How the calls of the tunnel are seen is what PromptCall allows.
LEMMA FollowsAbstract ==
  ASSUME TunnelInv, TypeInv', Follows
  PROVE  Abstract!Next \/ UNCHANGED Abstract!vars
<1>1. \A c \in Calls : call[c].at \in Places /\ call'[c].at \in Places
  BY DEF TunnelInv, TypeInv, CallRecords
<1>2. /\ Told = [c \in Calls |-> Outcome(call[c].at)]
      /\ Told' = [c \in Calls |-> Outcome(call'[c].at)]
  BY DEF Told
<1>3. CASE finished' = finished /\ \A c \in Calls : Same(c)
  BY <1>2, <1>3 DEF Same, Abstract!vars
<1>4. ASSUME finished' = finished, NEW c \in Calls, Turns(c, "none", "pending"),
             \A d \in Calls \ {c} : Same(d)
      PROVE  Abstract!Ask(c)
  BY <1>2, <1>4 DEF Same, Turns, Abstract!Ask
<1>5. ASSUME finished' = finished, NEW c \in finished, Turns(c, "pending", "ok"),
             \A d \in Calls \ {c} : Same(d)
      PROVE  c \in Calls /\ Abstract!Answer(c)
  <2>1. c \in Calls
    BY DEF TunnelInv, Honest, Made
  <2>2. QED
    BY <1>2, <1>5, <2>1 DEF Same, Turns, Abstract!Answer
<1>6. ASSUME finished' = finished,
             \A c \in Calls : Same(c) \/ Turns(c, "pending", "failed")
      PROVE  Abstract!Fail({c \in Calls : Turns(c, "pending", "failed")})
  BY <1>2, <1>6 DEF Same, Turns, Abstract!Fail
<1>7. ASSUME finished' = finished,
             \A c \in Calls : IF Outcome(call[c].at) = "pending" THEN Turns(c, "pending", "lost")
                                                                  ELSE Same(c)
      PROVE  Abstract!Lose
  BY <1>2, <1>7 DEF Same, Turns, Abstract!Lose
<1>8. ASSUME NEW c \in Made, finished' = finished \cup {c}, \A d \in Calls : Same(d)
      PROVE  UNCHANGED Abstract!vars \/ (c \in Calls /\ Abstract!Work(c))
  <2>1. c \in Calls /\ Outcome(call[c].at) # "none"
    BY <1>1, Outcomes DEF Made, At
  <2>2. QED
    BY <1>2, <1>8, <2>1 DEF Same, Abstract!Work, Abstract!vars
<1>9. QED
  BY <1>3, <1>4, <1>5, <1>6, <1>7, <1>8 DEF Follows, Abstract!Next

-----------------------------------------------------------------------------
(* Steps of the calls.  Each lemma gives what a kind of step does to the     *)
(* records of the calls; the messages come after.                            *)

Ending == {"finish", "done"}

\* What is left of the invariant when the calls are accounted for.
CallsSound ==
  /\ call' \in [Calls -> CallRecords]
  /\ Follows
  /\ Earned'
  /\ (run'.status = "completed" => run.status = "completed") => CompletedByWork'

LEMMA Carried ==
  ASSUME TunnelInv, TypeInv', CallsSound, run'.status = "completed" => run.status = "completed",
         inbox' \in Seq(Orders(Made')), opq' \in Seq(Operations(Made')),
         up' \in [Sockets -> Seq(Sayings(Made', finished'))]
  PROVE  TunnelInv' /\ Follows
<1>1. finished' \subseteq Made'
  BY FollowsGrows DEF CallsSound
<1>2. QED
  BY <1>1 DEF CallsSound, TunnelInv, Honest

\* A step that sends nothing and that no work is done in.
LEMMA CarriedQuietly ==
  ASSUME TunnelInv, TypeInv', CallsSound, run'.status = "completed" => run.status = "completed",
         inbox' = inbox, opq' = opq, up' = up
  PROVE  TunnelInv' /\ Follows
BY FollowsGrows, Carried DEF CallsSound

LEMMA EndedStay ==
  ASSUME TunnelInv, finished \subseteq finished',
         \A c \in Calls : call[c].at \in Ending =>
           call'[c].at \in Ending /\ call'[c].kind = call[c].kind,
         run'.status = "completed" => run.status = "completed"
  PROVE  CompletedByWork'
<1>1. finished \subseteq Calls
  BY DEF TunnelInv, Honest, Made
<1>2. QED
  BY <1>1 DEF TunnelInv, CompletedByWork, Ending

\* One call moves.
LEMMA OneMoves ==
  ASSUME TunnelInv, NEW c \in Calls, NEW r \in CallRecords,
         call' = [call EXCEPT ![c] = r], finished' = finished,
         \/ /\ Outcome(r.at) = Outcome(call[c].at) /\ r.kind = call[c].kind
            /\ call[c].at \in Ending => r.at \in Ending
            /\ r.at = "finish" => r.kind # "control"
         \/ call[c].at = "idle" /\ r.at \in Begun
         \/ call[c].at \in Begun /\ r.at \in Missed
  PROVE  CallsSound
<1> USE DEF TunnelInv
<1>1. call' \in [Calls -> CallRecords] /\ call \in [Calls -> CallRecords]
  BY DEF TypeInv
<1>2. call'[c] = r /\ \A d \in Calls \ {c} : call'[d] = call[d]
  BY <1>1
<1>3. call[c].at \in Places /\ r.at \in Places
  BY <1>1 DEF CallRecords
<1>4. Follows
  BY <1>2, <1>3, Outcomes DEF Follows, Same, Turns
<1>5. Earned'
  BY <1>2, <1>3, Outcomes DEF Earned, Begun, After, Missed
<1>6. \A d \in Calls : call[d].at \in Ending =>
        call'[d].at \in Ending /\ call'[d].kind = call[d].kind
  BY <1>2 DEF Ending, Begun
<1>7. QED
  BY <1>1, <1>4, <1>5, <1>6, EndedStay DEF CallsSound

\* Some calls move, and none that has ended.
LEMMA SomeMove ==
  ASSUME TunnelInv, call' \in [Calls -> CallRecords], finished' = finished,
         \/ \A c \in Calls : \/ call'[c] = call[c]
                             \/ call[c].at \in Begun /\ call'[c].at \in Begun
         \/ \A c \in Calls : \/ call'[c] = call[c]
                             \/ call[c].at \in Begun /\ call'[c].at \in Missed
  PROVE  CallsSound
<1> USE DEF TunnelInv
<1>1. \A c \in Calls : call[c].at \in Places /\ call'[c].at \in Places
  BY DEF TypeInv, CallRecords
<1>2. Follows
  BY <1>1, Outcomes DEF Follows, Same, Turns
<1>3. Earned'
  BY DEF Earned, Begun, After, Missed
<1>4. \A c \in Calls : call[c].at \in Ending =>
        call'[c].at \in Ending /\ call'[c].kind = call[c].kind
  BY DEF Ending, Begun
<1>5. QED
  BY <1>2, <1>3, <1>4, EndedStay DEF CallsSound

\* No call moves, and no work is done, or that of a call that was made.
LEMMA NoneMoves ==
  ASSUME TunnelInv, call' = call,
         finished' = finished \/ \E c \in Made : finished' = finished \cup {c}
  PROVE  CallsSound
<1> USE DEF TunnelInv
<1>1. Follows
  BY DEF Follows, Same
<1>2. Earned'
  BY DEF Earned
<1>3. QED
  BY <1>1, <1>2, EndedStay DEF CallsSound, TypeInv

\* The process stops.
LEMMA Gone ==
  ASSUME TunnelInv, BackendGone, UNCHANGED <<run, proxy, finished>>
  PROVE  TunnelInv' /\ Follows
<1> USE DEF TunnelInv
<1>1. \A c \in Calls : call[c].at \in Places /\ call[c] \in CallRecords
  BY DEF TypeInv, CallRecords
<1>2. \A c \in Calls :
        /\ call'[c] \in CallRecords /\ call'[c].kind = call[c].kind
        /\ call'[c].at = IF call[c].at \in Begun THEN "lost"
                         ELSE IF call[c].at \in After THEN "done"
                         ELSE IF call[c].at \in Missed THEN "failed" ELSE call[c].at
  BY <1>1 DEF BackendGone, At, CallRecords, Places, Begun, After, Missed
<1>3. call' \in [Calls -> CallRecords]
  BY <1>2 DEF BackendGone
<1>4. Follows
  BY <1>1, <1>2, Outcomes DEF Follows, Same, Turns, proxy, Begun, After, Missed, Places
<1>5. Earned'
  BY <1>1, <1>2 DEF Earned, Begun, After, Missed
<1>6. \A c \in Calls : call[c].at \in Ending =>
        call'[c].at \in Ending /\ call'[c].kind = call[c].kind
  BY <1>2 DEF Ending, Begun, After
<1>7. CallsSound
  BY <1>3, <1>4, <1>5, <1>6, EndedStay DEF CallsSound
<1>8. TypeInv'
  <2>1. tasks' = <<>> /\ cur' = 0 /\ nobj' = 0 /\ run' = run
    BY DEF BackendGone
  <2>2. QED
    BY <1>3, <2>1, EmptySeq DEF TypeInv
<1>9. UNCHANGED <<inbox, opq>> /\ up' = [s \in Sockets |-> <<>>]
  BY DEF BackendGone, proxy, idle
<1>10. inbox' \in Seq(Orders(Made')) /\ opq' \in Seq(Operations(Made'))
  BY <1>4, <1>8, <1>9, FollowsGrows
<1>11. up' \in [Sockets -> Seq(Sayings(Made', finished'))]
  BY <1>9, EmptySeq
<1>12. QED
  BY <1>7, <1>8, <1>10, <1>11, Carried

-----------------------------------------------------------------------------
(* The steps of the backend: one call moves, or those that wait together.    *)

\* A step without work, which may open, queue or note something on the run.
Minor ==
  /\ run' \in RunRows /\ (run'.status = "completed" => run.status = "completed")
  /\ cur' \in Nat /\ nobj' \in Nat /\ tasks' \in Seq(Tasks)
  /\ finished' = finished
Silent == inbox' = inbox /\ opq' = opq /\ up' = up

\* Where one call may go, but for its answer.
Moves(c, r) ==
  \/ /\ Outcome(r.at) = Outcome(call[c].at) /\ r.kind = call[c].kind
     /\ call[c].at \in Ending => r.at \in Ending
     /\ r.at = "finish" => r.kind # "control"
  \/ call[c].at = "idle" /\ r.at \in Begun
  \/ call[c].at \in Begun /\ r.at \in Missed

LEMMA OneCall ==
  ASSUME TunnelInv, Minor, NEW c \in Calls, NEW r \in CallRecords, Moves(c, r),
         call' = [call EXCEPT ![c] = r]
  PROVE  /\ TypeInv' /\ Follows
         /\ (opq' = opq /\ up' = up /\ inbox' \in Seq(Orders(Made'))) => TunnelInv'
         /\ Silent => TunnelInv'
<1>1. CallsSound
  BY OneMoves DEF Minor, Moves
<1>2. TypeInv'
  BY DEF TunnelInv, TypeInv, Minor
<1>3. QED
  BY <1>1, <1>2, Carried, CarriedQuietly, FollowsGrows DEF Minor, Silent, CallsSound

LEMMA SomeCalls ==
  ASSUME TunnelInv, Minor, call' \in [Calls -> CallRecords],
         \/ \A c \in Calls : \/ call'[c] = call[c]
                             \/ call[c].at \in Begun /\ call'[c].at \in Begun
         \/ \A c \in Calls : \/ call'[c] = call[c]
                             \/ call[c].at \in Begun /\ call'[c].at \in Missed
  PROVE  /\ TypeInv' /\ Follows
         /\ (opq' = opq /\ inbox' = inbox /\ up' \in [Sockets -> Seq(Sayings(Made', finished'))])
              => TunnelInv'
         /\ Silent => TunnelInv'
<1>1. CallsSound
  BY SomeMove DEF Minor
<1>2. TypeInv'
  BY DEF TunnelInv, TypeInv, Minor
<1>3. QED
  BY <1>1, <1>2, Carried, CarriedQuietly, FollowsGrows DEF Minor, Silent, CallsSound

LEMMA GotoRecord ==
  ASSUME TunnelInv, NEW c \in Calls, NEW a \in Places, Goto(c, a)
  PROVE  \E r \in CallRecords :
           r.at = a /\ r.kind = call[c].kind /\ call' = [call EXCEPT ![c] = r]
<1> DEFINE r == [call[c] EXCEPT !.at = a]
<1>1. call \in [Calls -> CallRecords]
  BY DEF TunnelInv, TypeInv
<1>2. r \in CallRecords /\ r.at = a /\ r.kind = call[c].kind
  BY <1>1 DEF CallRecords
<1>3. call' = [call EXCEPT ![c] = r]
  BY <1>1 DEF Goto
<1>4. QED
  BY <1>2, <1>3

LEMMA MakeCallRecord ==
  ASSUME TunnelInv, NEW c, NEW k \in CallKinds, NEW init \in BOOLEAN
  PROVE  /\ MakeCall(c, k, init) \in CallRecords
         /\ MakeCall(c, k, init).at = "ensure" /\ MakeCall(c, k, init).kind = k
BY DEF TunnelInv, TypeInv, RunRows, MakeCall, NoCall, CallRecords, Places, Begun, Sessions,
       NoSession

LEMMA FailAllMoves ==
  ASSUME TunnelInv, NEW S, FailAll(S), \A c \in S : c \in Calls => call[c].at \in Begun
  PROVE  /\ call' \in [Calls -> CallRecords]
         /\ \A c \in Calls : \/ call'[c] = call[c]
                             \/ call[c].at \in Begun /\ call'[c].at \in Missed
<1>1. call \in [Calls -> CallRecords]
  BY DEF TunnelInv, TypeInv
<1>2. \A c \in Calls : [call[c] EXCEPT !.at = FailedAt(c)] \in CallRecords
  BY <1>1 DEF FailedAt, CallRecords, Places, Missed
<1>3. QED
  BY <1>1, <1>2 DEF FailAll, FailedAt, Missed, CallRecords

-----------------------------------------------------------------------------
LEMMA BeginKeeps ==
  ASSUME TunnelInv, NEW c \in Calls, Begin(c)
  PROVE  TunnelInv' /\ Follows
<1>1. /\ Minor /\ Silent
      /\ \E r \in CallRecords : Moves(c, r) /\ call' = [call EXCEPT ![c] = r]
  <2>1. CASE StartCall(c)
    <3>1. \A init \in BOOLEAN : MakeCall(c, "start", init) \in CallRecords
                                 /\ MakeCall(c, "start", init).at \in Begun
      BY MakeCallRecord DEF CallKinds, Begun
    <3>2. QED
      BY <2>1, <3>1 DEF StartCall, Unmade, At, Moves, Minor, Silent, TunnelInv, TypeInv,
                        hub, state, net, proxy, idle, hist
  <2>2. CASE ChatCall(c)
    <3>1. \A init \in BOOLEAN : MakeCall(c, "chat", init) \in CallRecords
                                 /\ MakeCall(c, "chat", init).at \in Begun
      BY MakeCallRecord DEF CallKinds, Begun
    <3>2. QED
      BY <2>2, <3>1 DEF ChatCall, Unmade, At, Moves, Minor, Silent, TunnelInv, TypeInv,
                        hub, state, net, proxy, idle, hist
  <2>3. CASE WsCall(c)
    <3>1. [NoCall EXCEPT !.kind = "ws", !.at = "queued"] \in CallRecords
      BY DEF NoCall, CallRecords, CallKinds, Places, Begun, Sessions, NoSession
    <3>2. Append(tasks, [t |-> "ws", call |-> c]) \in Seq(Tasks)
      BY AppendProperties DEF TunnelInv, TypeInv, Tasks
    <3>3. QED
      BY <2>3, <3>1, <3>2 DEF WsCall, Unmade, At, Moves, Minor, Silent, TunnelInv, TypeInv,
                              NoCall, Begun, state, net, proxy, idle, hist
  <2>4. CASE ControlCall(c)
    <3>1. \A init \in BOOLEAN : MakeCall(c, "control", init) \in CallRecords
                                 /\ MakeCall(c, "control", init).at \in Begun
      BY MakeCallRecord DEF CallKinds, Begun
    <3>2. QED
      BY <2>4, <3>1 DEF ControlCall, Unmade, At, Moves, Minor, Silent, TunnelInv, TypeInv,
                        hub, state, net, proxy, idle, hist
  <2>5. QED
    BY <2>1, <2>2, <2>3, <2>4 DEF Begin
<1>2. QED
  BY <1>1, OneCall

LEMMA ResumeKeeps ==
  ASSUME TunnelInv, (\E c \in Calls : ResumeList(c) \/ ResumeCall(c)) \/ ResumeNothing
  PROVE  TunnelInv' /\ Follows
<1>1. ASSUME NEW c \in Calls, ResumeList(c)
      PROVE  TunnelInv' /\ Follows
  <2>1. MakeCall(c, "resume", FALSE) \in CallRecords
    BY MakeCallRecord DEF CallKinds
  <2>2. /\ [MakeCall(c, "resume", FALSE) EXCEPT !.at = "listed"] \in CallRecords
        /\ [MakeCall(c, "resume", FALSE) EXCEPT !.at = "listed"].at = "listed"
    BY <2>1 DEF CallRecords, Places, Begun
  <2>3. Moves(c, [MakeCall(c, "resume", FALSE) EXCEPT !.at = "listed"])
    BY <1>1, <2>2 DEF ResumeList, Unmade, At, Moves, Begun
  <2>4. Minor /\ Silent
    BY <1>1 DEF ResumeList, Minor, Silent, TunnelInv, TypeInv, state, net, proxy, idle, hist
  <2>5. QED
    BY <1>1, <2>2, <2>3, <2>4, OneCall DEF ResumeList
<1>2. ASSUME NEW c \in Calls, ResumeCall(c)
      PROVE  TunnelInv' /\ Follows
  <2>1. PICK r \in CallRecords :
          r.at = "ensure" /\ r.kind = call[c].kind /\ call' = [call EXCEPT ![c] = r]
    BY <1>2, GotoRecord DEF ResumeCall, Places, Begun
  <2>2. Moves(c, r)
    BY <1>2, <2>1, Outcomes DEF ResumeCall, At, Moves, Places, Begun, Ending
  <2>3. Minor /\ Silent
    BY <1>2 DEF ResumeCall, Minor, Silent, TunnelInv, TypeInv, hub, state, net, proxy, idle, hist
  <2>4. QED
    BY <2>1, <2>2, <2>3, OneCall
<1>3. ASSUME ResumeNothing
      PROVE  TunnelInv' /\ Follows
  BY <1>3, SomeCalls DEF ResumeNothing, Minor, Silent, TunnelInv, TypeInv, state, net, proxy,
                         idle, hist
<1>4. QED
  BY <1>1, <1>2, <1>3

LEMMA EnsureOpenKeeps ==
  ASSUME TunnelInv, NEW c \in Calls, EnsureOpen(c)
  PROVE  TunnelInv' /\ Follows
<1> DEFINE init == call[c].init /\ run.sandbox \in {"none", "missing"}
<1>1. call[c] \in CallRecords /\ call \in [Calls -> CallRecords]
  BY DEF TunnelInv, TypeInv
<1>2. init \in BOOLEAN /\ call[c].at = "ensure"
  BY DEF EnsureOpen, At
<1>3. ASSUME NEW o \in Nat, NEW a \in {"ready", "joining", "resolve"},
             call' = [call EXCEPT ![c].obj = o, ![c].init = init, ![c].at = a]
      PROVE  \E r \in CallRecords : Moves(c, r) /\ call' = [call EXCEPT ![c] = r]
  <2> DEFINE r == [call[c] EXCEPT !.obj = o, !.init = init, !.at = a]
  <2>1. r \in CallRecords /\ r.at = a /\ r.kind = call[c].kind
    BY <1>1, <1>2 DEF CallRecords, Places, Begun
  <2>2. call' = [call EXCEPT ![c] = r]
    BY <1>1, <1>3
  <2>3. Moves(c, r)
    BY <1>2, <2>1, Outcomes DEF Moves, Places, Begun, Ending
  <2>4. QED
    BY <2>1, <2>2, <2>3
<1>4. /\ cur \in Nat /\ nobj \in Nat
      /\ run \in RunRows /\ tasks \in Seq(Tasks)
  BY DEF TunnelInv, TypeInv
<1>5. Silent /\ UNCHANGED <<run, tasks, finished>>
  BY DEF EnsureOpen, Silent, hub, net, proxy, idle, hist
<1>6. CASE JoinState(c, init)
  <2>1. Minor
    BY <1>4, <1>5, <1>6 DEF JoinState, Minor
  <2>2. \E a \in {"ready", "joining", "resolve"} :
          call' = [call EXCEPT ![c].obj = cur, ![c].init = init, ![c].at = a]
    <3> DEFINE a == CASE obj[cur].opened -> "ready" [] obj[cur].opening -> "joining"
                      [] OTHER -> "resolve"
    <3>1. a \in {"ready", "joining", "resolve"}
      OBVIOUS
    <3>2. call' = [call EXCEPT ![c].obj = cur, ![c].init = init, ![c].at = a]
      BY <1>6 DEF JoinState
    <3>3. QED
      BY <3>1, <3>2
  <2>3. \E r \in CallRecords : Moves(c, r) /\ call' = [call EXCEPT ![c] = r]
    BY <1>3, <1>4, <2>2
  <2>4. QED
    BY <1>5, <2>1, <2>3, OneCall
<1>7. CASE MakeState(c, init)
  <2>1. nobj' \in Nat /\ Minor
    BY <1>4, <1>5, <1>7 DEF MakeState, Minor
  <2>2. call' = [call EXCEPT ![c].obj = nobj', ![c].init = init, ![c].at = "resolve"]
    BY <1>7 DEF MakeState
  <2>3. QED
    BY <1>3, <1>5, <2>1, <2>2, OneCall
<1>8. QED
  BY <1>6, <1>7 DEF EnsureOpen

LEMMA OpenTimeoutKeeps ==
  ASSUME TunnelInv, NEW c \in Calls, OpenTimeout(c)
  PROVE  TunnelInv' /\ Follows
<1>1. FailAll(Waiting(call[c].obj))
  BY DEF OpenTimeout, OpenFails
<1>2. \A d \in Waiting(call[c].obj) : call[d].at \in Begun
  BY DEF Waiting, Begun
<1>3. Minor /\ Silent
  BY DEF OpenTimeout, OpenFails, Minor, Silent, TunnelInv, TypeInv, hub, net, proxy, idle, hist
<1>4. QED
  BY <1>1, <1>2, <1>3, FailAllMoves, SomeCalls

LEMMA OrdersSent ==
  ASSUME TunnelInv, TypeInv', Follows, NEW m \in Orders(Made), Sends(m)
  PROVE  inbox' \in Seq(Orders(Made'))
<1>1. inbox \in Seq(Orders(Made')) /\ m \in Orders(Made')
  BY FollowsGrows DEF Orders
<1>2. QED
  BY <1>1, AppendProperties DEF Sends

LEMMA OpenSentKeeps ==
  ASSUME TunnelInv, NEW c \in Calls, OpenSent(c)
  PROVE  TunnelInv' /\ Follows
<1>1. call[c] \in CallRecords /\ call[c].at = "resolve"
  BY DEF OpenSent, At, TunnelInv, TypeInv
<1>2. Minor /\ opq' = opq /\ up' = up
  BY DEF OpenSent, OpenFails, Minor, TunnelInv, TypeInv, hub, net, idle, hist
<1>3. CASE /\ Sends([t |-> "open", init |-> call[c].init]) /\ Goto(c, "opening")
  <2>1. PICK r \in CallRecords :
          r.at = "opening" /\ r.kind = call[c].kind /\ call' = [call EXCEPT ![c] = r]
    BY <1>3, GotoRecord DEF Places, Begun
  <2>2. Moves(c, r)
    BY <1>1, <2>1, Outcomes DEF Moves, Places, Begun, Ending
  <2>3. TypeInv' /\ Follows
    BY <1>2, <2>1, <2>2, OneCall
  <2>4. [t |-> "open", init |-> call[c].init] \in Orders(Made)
    BY <1>1 DEF Orders, CallRecords
  <2>5. inbox' \in Seq(Orders(Made'))
    BY <1>3, <2>3, <2>4, OrdersSent
  <2>6. QED
    BY <1>2, <2>1, <2>2, <2>5, OneCall
<1>4. CASE /\ OpenFails(call[c].obj, Waiting(call[c].obj) \cup {c}) /\ UNCHANGED inbox
  <2>1. \A d \in Waiting(call[c].obj) \cup {c} : call[d].at \in Begun
    BY <1>1 DEF Waiting, Begun
  <2>2. QED
    BY <1>2, <1>4, <2>1, FailAllMoves, SomeCalls DEF OpenFails, Silent
<1>5. QED
  BY <1>3, <1>4 DEF OpenSent

\* The message of a call goes out, or the call fails.
LEMMA SendCallKeeps ==
  ASSUME TunnelInv, NEW c \in Calls, call[c].at \in {"ready", "hint"}, SendCall(c), Minor,
         opq' = opq, up' = up
  PROVE  TunnelInv' /\ Follows
<1>1. call[c] \in CallRecords /\ c \in Made
  BY DEF TunnelInv, TypeInv, Made, At
<1>2. CASE /\ Sends(IF call[c].kind = "control" THEN [t |-> "control", call |-> c]
                    ELSE [t |-> "prompt", call |-> c, hint |-> call[c].hint])
           /\ Goto(c, "waiting")
  <2>1. PICK r \in CallRecords :
          r.at = "waiting" /\ r.kind = call[c].kind /\ call' = [call EXCEPT ![c] = r]
    BY <1>2, GotoRecord DEF Places, Begun
  <2>2. Moves(c, r)
    BY <1>1, <2>1, Outcomes DEF Moves, Places, Begun, Ending
  <2>3. TypeInv' /\ Follows
    BY <2>1, <2>2, OneCall
  <2>4. \A m : m \in {[t |-> "control", call |-> c],
                      [t |-> "prompt", call |-> c, hint |-> call[c].hint]} =>
          m \in Orders(Made)
    BY <1>1 DEF Orders, CallRecords
  <2>5. inbox' \in Seq(Orders(Made'))
    BY <1>2, <2>3, <2>4, OrdersSent
  <2>6. QED
    BY <2>1, <2>2, <2>5, OneCall
<1>3. CASE SendFails /\ Goto(c, FailedAt(c)) /\ UNCHANGED inbox
  <2>1. FailedAt(c) \in Missed /\ FailedAt(c) \in Places
    BY DEF FailedAt, Missed, Places
  <2>2. PICK r \in CallRecords : r.at = FailedAt(c) /\ call' = [call EXCEPT ![c] = r]
    BY <1>3, <2>1, GotoRecord
  <2>3. Moves(c, r)
    BY <2>1, <2>2 DEF Moves, Begun
  <2>4. QED
    BY <1>3, <2>2, <2>3, OneCall DEF Silent
<1>4. QED
  BY <1>2, <1>3 DEF SendCall

LEMMA ReadyKeeps ==
  ASSUME TunnelInv, NEW c \in Calls, Ready(c) \/ HintWritten(c)
  PROVE  TunnelInv' /\ Follows
<1>1. call[c].at \in {"ready", "hint"} /\ Minor /\ opq' = opq /\ up' = up
  BY DEF Ready, HintWritten, At, Minor, TunnelInv, TypeInv, hub, state, net, idle, hist
<1>2. CASE Goto(c, "hint") /\ UNCHANGED inbox
  <2>1. PICK r \in CallRecords :
          r.at = "hint" /\ r.kind = call[c].kind /\ call' = [call EXCEPT ![c] = r]
    BY <1>2, GotoRecord DEF Places, Begun
  <2>2. Moves(c, r)
    BY <1>1, <2>1, Outcomes DEF Moves, Places, Begun, Ending
  <2>3. QED
    BY <1>1, <1>2, <2>1, <2>2, OneCall DEF Silent
<1>3. CASE SendCall(c)
  BY <1>1, <1>3, SendCallKeeps
<1>4. QED
  BY <1>2, <1>3 DEF Ready, HintWritten

LEMMA PromptTimeoutKeeps ==
  ASSUME TunnelInv, NEW c \in Calls, PromptTimeout(c)
  PROVE  TunnelInv' /\ Follows
<1>1. CASE At(c, "waiting") /\ FailAll({c}) /\ UNCHANGED <<hub, state, net>>
  <2>1. \A d \in {c} : call[d].at \in Begun
    BY <1>1 DEF At, Begun
  <2>2. Minor /\ Silent
    BY <1>1 DEF PromptTimeout, Minor, Silent, TunnelInv, TypeInv, hub, state, net, proxy, idle
  <2>3. QED
    BY <1>1, <2>1, <2>2, FailAllMoves, SomeCalls
<1>2. CASE BackendGone
  BY <1>2, Gone DEF PromptTimeout
<1>3. QED
  BY <1>1, <1>2 DEF PromptTimeout

-----------------------------------------------------------------------------
(* Messages of the proxy.                                                    *)

LEMMA FirstSaying ==
  ASSUME TunnelInv, NEW s \in Sockets, up[s] # <<>>
  PROVE  Head(up[s]) \in Sayings(Made, finished)
BY HeadTailProperties DEF TunnelInv, Honest

LEMMA CarriedTaken ==
  ASSUME TunnelInv, TypeInv', CallsSound, run'.status = "completed" => run.status = "completed",
         inbox' = inbox, opq' = opq, NEW s \in Sockets, up[s] # <<>>, Taken(s)
  PROVE  TunnelInv' /\ Follows
<1>1. /\ inbox \in Seq(Orders(Made')) /\ opq \in Seq(Operations(Made'))
      /\ up \in [Sockets -> Seq(Sayings(Made', finished'))]
  BY FollowsGrows DEF CallsSound
<1>2. Tail(up[s]) \in Seq(Sayings(Made', finished'))
  BY <1>1, HeadTailProperties
<1>3. up' \in [Sockets -> Seq(Sayings(Made', finished'))]
  BY <1>1, <1>2 DEF Taken
<1>4. QED
  BY <1>1, <1>3, Carried

LEMMA RegisterKeeps ==
  ASSUME TunnelInv, NEW s \in Sockets, Register(s)
  PROVE  TunnelInv' /\ Follows
<1>1. /\ up[s] # <<>> /\ Taken(s) /\ call' = call /\ finished' = finished /\ run' = run
      /\ inbox' = inbox /\ opq' = opq
  BY DEF Register, proxy, idle, hist
<1>2. TypeInv'
  BY <1>1 DEF Register, TunnelInv, TypeInv, state
<1>3. QED
  BY <1>1, <1>2, NoneMoves, CarriedTaken

LEMMA HandleOpenedKeeps ==
  ASSUME TunnelInv, NEW s \in Sockets, HandleOpened(s)
  PROVE  TunnelInv' /\ Follows
<1>1. /\ up[s] # <<>> /\ Taken(s) /\ Minor /\ inbox' = inbox /\ opq' = opq
  BY DEF HandleOpened, Incoming, OpenFails, Minor, TunnelInv, TypeInv, hub, state, proxy, idle, hist
<1>2. CASE call' = [c \in Calls |->
               IF c \in Waiting(cur) THEN [call[c] EXCEPT !.at = "ready"] ELSE call[c]]
  <2>1. \A c \in Calls : [call[c] EXCEPT !.at = "ready"] \in CallRecords /\ call[c] \in CallRecords
    BY DEF TunnelInv, TypeInv, CallRecords, Places, Begun
  <2>2. call' \in [Calls -> CallRecords]
    BY <1>2, <2>1
  <2>3. \A c \in Calls : \/ call'[c] = call[c]
                         \/ call[c].at \in Begun /\ call'[c].at \in Begun
    BY <1>2, <2>1 DEF Waiting, Begun, CallRecords
  <2>4. CallsSound
    BY <1>1, <2>2, <2>3, SomeMove DEF Minor
  <2>5. QED
    BY <1>1, <2>2, <2>3, <2>4, SomeCalls, CarriedTaken DEF Minor
<1>3. CASE FailAll(Waiting(cur))
  <2>1. \A d \in Waiting(cur) : call[d].at \in Begun
    BY DEF Waiting, Begun
  <2>2. /\ call' \in [Calls -> CallRecords]
        /\ \A c \in Calls : \/ call'[c] = call[c]
                            \/ call[c].at \in Begun /\ call'[c].at \in Missed
    BY <1>3, <2>1, FailAllMoves
  <2>3. CallsSound
    BY <1>1, <2>2, SomeMove DEF Minor
  <2>4. QED
    BY <1>1, <2>2, <2>3, SomeCalls, CarriedTaken DEF Minor
<1>4. CASE call' = call
  <2>1. CallsSound /\ TypeInv'
    BY <1>1, <1>4, NoneMoves DEF Minor, TunnelInv, TypeInv
  <2>2. QED
    BY <1>1, <2>1, CarriedTaken DEF Minor
<1>5. QED
  BY <1>2, <1>3, <1>4 DEF HandleOpened, OpenFails

\* A call is answered by the result that names it.
LEMMA AnswerSound ==
  ASSUME TunnelInv, NEW c \in finished, call[c].at = "waiting", NEW sess \in Sessions,
         call' = [call EXCEPT ![c] = [call[c] EXCEPT !.at = "answered", !.res = sess]],
         finished' = finished
  PROVE  CallsSound
<1> DEFINE r == [call[c] EXCEPT !.at = "answered", !.res = sess]
<1>1. c \in Calls /\ call \in [Calls -> CallRecords]
  BY DEF TunnelInv, TypeInv, Honest, Made
<1>2. r \in CallRecords /\ r.at = "answered" /\ call'[c] = r
  BY <1>1 DEF CallRecords, Places, After
<1>3. call' \in [Calls -> CallRecords] /\ \A d \in Calls \ {c} : call'[d] = call[d]
  BY <1>1, <1>2
<1>4. Turns(c, "pending", "ok")
  BY <1>2, Outcomes DEF Turns, Places, Begun, After
<1>5. Follows
  BY <1>3, <1>4 DEF Follows, Same
<1>6. Earned'
  BY <1>2, <1>3 DEF TunnelInv, Earned
<1>7. QED
  BY <1>3, <1>5, <1>6, EndedStay DEF CallsSound, Ending

LEMMA HandleResultKeeps ==
  ASSUME TunnelInv, NEW s \in Sockets, HandleResult(s)
  PROVE  TunnelInv' /\ Follows
<1> DEFINE m == Head(up[s])
<1>1. /\ up[s] # <<>> /\ Taken(s) /\ m.t = "result" /\ Minor /\ inbox' = inbox /\ opq' = opq
  BY DEF HandleResult, Incoming, Minor, TunnelInv, TypeInv, hub, state, proxy, idle, hist
<1>2. /\ m.ok \in BOOLEAN /\ m.sess \in Sessions /\ m.call \in Made
      /\ m.ok => m.call \in finished
  <2>1. m \in Sayings(Made, finished) /\ finished \subseteq Made
    BY <1>1, FirstSaying DEF TunnelInv, Honest
  <2>2. m \in [t : {"result"}, call : Made, ok : {FALSE}, sess : Sessions]
              \cup [t : {"result"}, call : finished, ok : {TRUE}, sess : Sessions]
    BY <1>1, <2>1 DEF Sayings
  <2>3. QED
    BY <2>1, <2>2
<1>3. call \in [Calls -> CallRecords]
  BY DEF TunnelInv, TypeInv
<1>4. \A c \in Calls :
        call'[c] = IF c \notin Answers(m) \/ ~At(c, "waiting") THEN call[c]
                   ELSE IF m.ok THEN [call[c] EXCEPT !.at = "answered", !.res = m.sess]
                                ELSE [call[c] EXCEPT !.at = FailedAt(c)]
  BY DEF HandleResult
<1>5. CASE m.call \in Answers(m) /\ call[m.call].at = "waiting" /\ m.ok
  <2>1. call' = [call EXCEPT ![m.call] = [call[m.call] EXCEPT !.at = "answered", !.res = m.sess]]
    BY <1>3, <1>4, <1>5 DEF HandleResult, Answers, At
  <2>2. CallsSound
    BY <1>1, <1>2, <1>5, <2>1, AnswerSound DEF Minor
  <2>3. TypeInv'
    BY <1>1, <2>2 DEF Minor, TypeInv, CallsSound
  <2>4. QED
    BY <1>1, <2>2, <2>3, CarriedTaken DEF Minor
<1>6. CASE ~(m.call \in Answers(m) /\ call[m.call].at = "waiting" /\ m.ok)
  <2>1. \A c \in Calls : \/ call'[c] = call[c]
                         \/ /\ call[c].at \in Begun
                            /\ call'[c] = [call[c] EXCEPT !.at = FailedAt(c)]
    BY <1>4, <1>6 DEF Answers, At, Begun
  <2>2. \A c \in Calls : [call[c] EXCEPT !.at = FailedAt(c)] \in CallRecords
    BY <1>3 DEF FailedAt, CallRecords, Places, Missed
  <2>3. call' \in [Calls -> CallRecords]
    <3>1. DOMAIN call' = Calls /\ call' = [c \in Calls |-> call'[c]]
      BY DEF HandleResult
    <3>2. QED
      BY <1>3, <2>1, <2>2, <3>1
  <2>4. \A c \in Calls : \/ call'[c] = call[c]
                         \/ call[c].at \in Begun /\ call'[c].at \in Missed
    BY <1>3, <2>1 DEF FailedAt, Missed, CallRecords
  <2>5. CallsSound
    BY <1>1, <2>3, <2>4, SomeMove DEF Minor
  <2>6. QED
    BY <1>1, <2>3, <2>4, <2>5, SomeCalls, CarriedTaken DEF Minor
<1>7. QED
  BY <1>5, <1>6

LEMMA HandleCreatedKeeps ==
  ASSUME TunnelInv, NEW s \in Sockets, HandleCreated(s)
  PROVE  TunnelInv' /\ Follows
<1>1. /\ up[s] # <<>> /\ Taken(s) /\ Head(up[s]).t = "created"
      /\ call' = call /\ finished' = finished /\ inbox' = inbox /\ opq' = opq
      /\ UNCHANGED <<hub, state>>
  BY DEF HandleCreated, Incoming, proxy, idle, hist
<1>2. Head(up[s]).sess \in Sessions
  BY <1>1, FirstSaying DEF Sayings, Sessions
<1>3. run' \in RunRows /\ run'.status = run.status
  BY <1>2 DEF HandleCreated, TunnelInv, TypeInv, RunRows
<1>4. TypeInv'
  BY <1>1, <1>3 DEF TunnelInv, TypeInv, hub, state
<1>5. QED
  BY <1>1, <1>3, <1>4, NoneMoves, CarriedTaken

LEMMA HandleStatusKeeps ==
  ASSUME TunnelInv, NEW s \in Sockets, HandleStatus(s)
  PROVE  TunnelInv' /\ Follows
<1>1. /\ up[s] # <<>> /\ Taken(s) /\ Head(up[s]).t = "status"
      /\ call' = call /\ finished' = finished /\ inbox' = inbox /\ opq' = opq
      /\ UNCHANGED state
  BY DEF HandleStatus, Incoming, proxy, idle, hist
<1>2. Head(up[s]) \in [t : {"status"}, st : Boxes]
  BY <1>1, FirstSaying DEF Sayings
<1>3. run' \in RunRows /\ run'.status = run.status
  BY <1>2 DEF HandleStatus, TunnelInv, TypeInv, RunRows
<1>4. tasks' \in Seq(Tasks)
  <2>1. Append(tasks, Head(up[s])) \in Seq(Tasks)
    BY <1>2, AppendProperties DEF TunnelInv, TypeInv, Tasks
  <2>2. QED
    BY <2>1 DEF HandleStatus, TunnelInv, TypeInv
<1>5. TypeInv'
  BY <1>1, <1>3, <1>4 DEF TunnelInv, TypeInv, state
<1>6. QED
  BY <1>1, <1>3, <1>5, NoneMoves, CarriedTaken

-----------------------------------------------------------------------------
(* The run's queue, the close of a socket, and the end of a call.            *)

LEMMA TasksKeep ==
  ASSUME TunnelInv, StatusTask \/ \E c \in Calls : WsTask(c)
  PROVE  TunnelInv' /\ Follows
<1> USE DEF TunnelInv, TypeInv
<1>1. ASSUME tasks # <<>>
      PROVE  Head(tasks) \in Tasks /\ Tail(tasks) \in Seq(Tasks)
  BY <1>1, HeadTailProperties
<1>2. ASSUME StatusTask
      PROVE  TunnelInv' /\ Follows
  <2>1. Head(tasks).st \in Boxes
    BY <1>1, <1>2 DEF StatusTask, Tasks
  <2>2. Minor /\ Silent /\ call' = call
    BY <1>1, <1>2, <2>1 DEF StatusTask, Minor, Silent, RunRows, state, net, proxy, idle, hist
  <2>3. QED
    BY <2>2, SomeCalls
<1>3. ASSUME NEW c \in Calls, WsTask(c)
      PROVE  TunnelInv' /\ Follows
  <2>1. Minor /\ Silent
    BY <1>1, <1>3 DEF WsTask, Minor, Silent, state, net, proxy, idle, hist
  <2>2. CASE call' = call
    BY <2>1, <2>2, SomeCalls
  <2>3. CASE /\ At(c, "queued")
             /\ call' = [call EXCEPT ![c] = MakeCall(c, "ws", run.sandbox = "missing")]
    <3> DEFINE r == MakeCall(c, "ws", run.sandbox = "missing")
    <3>1. r \in CallRecords /\ r.at = "ensure"
      BY MakeCallRecord DEF CallKinds
    <3>2. call' \in [Calls -> CallRecords]
      BY <2>3, <3>1
    <3>3. \A d \in Calls : \/ call'[d] = call[d]
                           \/ call[d].at \in Begun /\ call'[d].at \in Begun
      BY <2>3, <3>1 DEF At, Begun
    <3>4. QED
      BY <2>1, <3>2, <3>3, SomeCalls
  <2>4. QED
    BY <1>3, <2>2, <2>3 DEF WsTask
<1>4. QED
  BY <1>2, <1>3

LEMMA CloseKeeps ==
  ASSUME TunnelInv, NEW s \in Sockets, CloseConn(s) \/ CloseRest(s)
  PROVE  TunnelInv' /\ Follows
<1>1. CASE CloseConn(s)
  <2>1. Minor /\ Silent /\ call' = call
    BY <1>1 DEF CloseConn, Minor, Silent, TunnelInv, TypeInv, state, proxy, idle, hist
  <2>2. QED
    BY <2>1, SomeCalls DEF TunnelInv, TypeInv
<1>2. CASE DropUnawaited(s)
  BY <1>2, Gone DEF DropUnawaited
<1>3. CASE DropState(s) /\ UNCHANGED conn
  <2> DEFINE lost == {c \in Mine : dfd[c] \/ (obj[cur].deferred /\ c \in Waiting(cur))}
  <2>1. \A c \in lost : call[c].at \in Begun
    BY <1>3 DEF DropState, Mine, Waiting, At, Begun
  <2>2. FailAll(lost)
    BY <1>3 DEF DropState
  <2>3. Minor /\ Silent
    BY <1>3 DEF DropState, Minor, Silent, TunnelInv, TypeInv, proxy, idle, hist
  <2>4. QED
    BY <2>1, <2>2, <2>3, FailAllMoves, SomeCalls
<1>4. QED
  BY <1>1, <1>2, <1>3 DEF CloseRest

LEMMA AnsweredKeeps ==
  ASSUME TunnelInv, NEW c \in Calls, Answered(c)
  PROVE  TunnelInv' /\ Follows
<1>1. call[c] \in CallRecords /\ call[c].at = "answered"
  BY DEF TunnelInv, TypeInv, Answered, At
<1>2. \E a \in {"finish", "done"} :
        Goto(c, a) /\ (a = "finish" => call[c].kind # "control")
  BY DEF Answered
<1>3. PICK r \in CallRecords :
        /\ r.at \in {"finish", "done"} /\ r.kind = call[c].kind
        /\ r.at = "finish" => r.kind # "control"
        /\ call' = [call EXCEPT ![c] = r]
  BY <1>2, GotoRecord DEF Places, After
<1>4. Moves(c, r)
  BY <1>1, <1>3, Outcomes DEF Moves, Ending, Places, After
<1>5. run' \in RunRows /\ run'.status = run.status
  BY <1>1 DEF Answered, TunnelInv, TypeInv, RunRows, CallRecords
<1>6. Minor /\ Silent
  BY <1>5 DEF Answered, Minor, Silent, TunnelInv, TypeInv, hub, state, net, proxy, idle, hist
<1>7. QED
  BY <1>3, <1>4, <1>6, OneCall

\* The one step that completes the run: its call has been answered by its work.
LEMMA FinishKeeps ==
  ASSUME TunnelInv, NEW c \in Calls, Finish(c)
  PROVE  TunnelInv' /\ Follows
<1>1. call[c] \in CallRecords /\ call[c].at = "finish"
  BY DEF TunnelInv, TypeInv, Finish, At
<1>2. c \in finished /\ call[c].kind # "control"
  BY <1>1 DEF TunnelInv, Earned, After
<1>3. PICK r \in CallRecords :
        r.at = "done" /\ r.kind = call[c].kind /\ call' = [call EXCEPT ![c] = r]
  BY GotoRecord DEF Finish, Places, After
<1>4. UNCHANGED <<finished, inbox, opq, up>> /\ UNCHANGED <<hub, state>>
  BY DEF Finish, net, proxy, idle, hist
<1>5. CallsSound
  BY <1>1, <1>3, <1>4, Outcomes, OneMoves DEF Ending, Places, After
<1>6. CompletedByWork'
  <2>1. call'[c] = r
    BY <1>3 DEF TunnelInv, TypeInv
  <2>2. QED
    BY <1>2, <1>3, <1>4, <2>1 DEF CompletedByWork
<1>7. run' \in RunRows
  BY DEF Finish, TunnelInv, TypeInv, RunRows
<1>8. TypeInv'
  BY <1>4, <1>5, <1>7 DEF TunnelInv, TypeInv, CallsSound, hub, state
<1>9. QED
  BY <1>4, <1>5, <1>6, <1>8, FollowsGrows DEF CallsSound, TunnelInv, Honest

LEMMA StartFailedKeeps ==
  ASSUME TunnelInv, NEW c \in Calls, StartFailed(c)
  PROVE  TunnelInv' /\ Follows
<1>1. call[c].at = "startfail"
  BY DEF StartFailed, At
<1>2. PICK r \in CallRecords :
        r.at = "failed" /\ r.kind = call[c].kind /\ call' = [call EXCEPT ![c] = r]
  BY GotoRecord DEF StartFailed, Places, Missed
<1>3. Moves(c, r)
  BY <1>1, <1>2, Outcomes DEF Moves, Ending, Places, Missed
<1>4. Minor /\ Silent
  BY DEF StartFailed, Minor, Silent, TunnelInv, TypeInv, RunRows, hub, state, net, proxy, idle, hist
<1>5. QED
  BY <1>2, <1>3, <1>4, OneCall

LEMMA CancelKeeps ==
  ASSUME TunnelInv, Cancel
  PROVE  TunnelInv' /\ Follows
<1>1. Minor /\ Silent /\ call' = call
  BY DEF Cancel, Minor, Silent, TunnelInv, TypeInv, RunRows, hub, state, net, proxy, idle
<1>2. QED
  BY <1>1, SomeCalls DEF TunnelInv, TypeInv

-----------------------------------------------------------------------------
(* The proxy.                                                                *)

LEMMA OneRemoved ==
  ASSUME NEW S, NEW s \in Seq(S), NEW i \in DOMAIN s
  PROVE  s[i] \in S /\ RemoveAt(s, i) \in Seq(S)
<1>1. i \in 1..Len(s) /\ Len(s) \in Nat /\ \A j \in 1..Len(s) : s[j] \in S
  BY ElementOfSeq, LenProperties
<1>2. SubSeq(s, 1, i - 1) \in Seq(S)
  <2>1. \A j \in 1..(i - 1) : s[j] \in S
    BY <1>1
  <2>2. QED
    BY <1>1, <2>1, SubSeqProperties
<1>3. SubSeq(s, i + 1, Len(s)) \in Seq(S)
  <2>1. \A j \in (i + 1)..Len(s) : s[j] \in S
    BY <1>1
  <2>2. QED
    BY <1>1, <2>1, SubSeqProperties
<1>4. QED
  BY <1>1, <1>2, <1>3, ConcatProperties DEF RemoveAt

LEMMA OneSaid ==
  ASSUME NEW S, NEW m \in S, NEW s \in Seq(S)
  PROVE  <<m>> \in Seq(S) /\ s \o <<m>> \in Seq(S) /\ <<m>> \o s \in Seq(S)
BY ConcatProperties

LEMMA TwoSaid ==
  ASSUME NEW S, NEW m \in S, NEW n \in S
  PROVE  <<m, n>> \in Seq(S)
OBVIOUS

LEMMA Replied ==
  ASSUME NEW S, up \in [Sockets -> Seq(S)], NEW msgs \in Seq(S), Reply(msgs)
  PROVE  up' \in [Sockets -> Seq(S)]
<1>1. \A s \in Sockets : up[s] \o msgs \in Seq(S)
  BY ConcatProperties
<1>2. QED
  BY <1>1 DEF Reply

\* The backend and its calls are as they were.
AtProxy ==
  /\ UNCHANGED <<hub, state, call, run>>
  /\ finished' = finished \/ \E c \in Made : finished' = finished \cup {c}

LEMMA ProxyCarried ==
  ASSUME TunnelInv, AtProxy, inbox' \in Seq(Orders(Made)), opq' \in Seq(Operations(Made)),
         up' \in [Sockets -> Seq(Sayings(Made, finished'))]
  PROVE  TunnelInv' /\ Follows
<1>1. CallsSound
  BY NoneMoves DEF AtProxy
<1>2. TypeInv'
  BY DEF AtProxy, TunnelInv, TypeInv, hub, state
<1>3. Made' = Made
  BY DEF AtProxy, Made, At
<1>4. QED
  BY <1>1, <1>2, <1>3, Carried DEF AtProxy

\* Work that is done now only adds to what may be said.
LEMMA SayingsAfter ==
  ASSUME TunnelInv, AtProxy
  PROVE  /\ up \in [Sockets -> Seq(Sayings(Made, finished'))]
         /\ finished' \subseteq Made
BY Wider DEF TunnelInv, Honest, AtProxy

LEMMA ControlKeeps ==
  ASSUME TunnelInv, NEW i \in DOMAIN inbox, Control(i)
  PROVE  TunnelInv' /\ Follows
<1>1. inbox[i] \in Orders(Made) /\ inbox' \in Seq(Orders(Made))
  BY OneRemoved DEF TunnelInv, Honest, Control
<1>2. inbox[i].call \in Made
  BY <1>1 DEF Control, Orders
<1>3. PICK ok \in BOOLEAN :
        /\ Reply(<<Result(inbox[i].call, ok, NoSession)>>)
        /\ finished' = IF ok THEN finished \cup {inbox[i].call} ELSE finished
  BY DEF Control
<1>4. AtProxy /\ opq' = opq
  BY <1>2, <1>3 DEF Control, AtProxy
<1>5. Result(inbox[i].call, ok, NoSession) \in Sayings(Made, finished')
  BY <1>2, <1>3 DEF Result, Sayings, Sessions
<1>6. up' \in [Sockets -> Seq(Sayings(Made, finished'))]
  BY <1>3, <1>4, <1>5, SayingsAfter, Replied, OneSaid, EmptySeq
<1>7. QED
  BY <1>1, <1>4, <1>6, ProxyCarried DEF TunnelInv, Honest

LEMMA EnsureRuntimeKeeps ==
  ASSUME TunnelInv, NEW i \in DOMAIN inbox, EnsureRuntime(i)
  PROVE  TunnelInv' /\ Follows
<1>1. inbox[i] \in Orders(Made) /\ inbox' \in Seq(Orders(Made))
  BY OneRemoved DEF TunnelInv, Honest, EnsureRuntime
<1>2. /\ Operation(inbox[i]) \in Operations(Made)
      /\ Refusal(inbox[i]) \in Sayings(Made, finished)
      /\ Status("running") \in Sayings(Made, finished)
  BY <1>1 DEF EnsureRuntime, Orders, Operation, Operations, Refusal, Opened, Result, Status,
              Sayings, Boxes, Sessions
<1>3. AtProxy /\ finished' = finished
  BY DEF EnsureRuntime, AtProxy, hist
<1>4. opq' \in Seq(Operations(Made))
  <2>1. Append(opq, Operation(inbox[i])) \in Seq(Operations(Made))
    BY <1>2, AppendProperties DEF TunnelInv, Honest
  <2>2. QED
    BY <2>1 DEF EnsureRuntime, TunnelInv, Honest
<1>5. up' \in [Sockets -> Seq(Sayings(Made, finished))]
  BY <1>2, Replied, OneSaid, EmptySeq DEF EnsureRuntime, TunnelInv, Honest
<1>6. QED
  BY <1>1, <1>3, <1>4, <1>5, ProxyCarried

LEMMA FirstOperation ==
  ASSUME TunnelInv, opq # <<>>
  PROVE  /\ Head(opq) \in Operations(Made) /\ Tail(opq) \in Seq(Operations(Made))
         /\ Head(opq) = opq[1] /\ 1 \in DOMAIN opq
         /\ \A op \in Operations(Made) : [opq EXCEPT ![1] = op] \in Seq(Operations(Made))
<1>1. opq \in Seq(Operations(Made))
  BY DEF TunnelInv, Honest
<1>2. 1 \in 1..Len(opq) /\ DOMAIN opq = 1..Len(opq)
  BY <1>1, EmptySeq, LenProperties
<1>3. Head(opq) = opq[1] /\ Head(opq) \in Operations(Made) /\ Tail(opq) \in Seq(Operations(Made))
  BY <1>1, HeadTailProperties
<1>4. \A op \in Operations(Made) : [opq EXCEPT ![1] = op] \in Seq(Operations(Made))
  BY <1>1, <1>2, ExceptSeq
<1>5. QED
  BY <1>2, <1>3, <1>4

LEMMA OpenRunKeeps ==
  ASSUME TunnelInv, OpenRun
  PROVE  TunnelInv' /\ Follows
<1>1. opq' \in Seq(Operations(Made)) /\ inbox' = inbox /\ finished' = finished /\ AtProxy
  BY FirstOperation DEF OpenRun, Operating, AtProxy, hist
<1>2. /\ Opened(TRUE) \in Sayings(Made, finished) /\ Opened(FALSE) \in Sayings(Made, finished)
      /\ Status("running") \in Sayings(Made, finished)
  BY DEF Opened, Status, Sayings, Boxes
<1>3. /\ <<Opened(TRUE)>> \in Seq(Sayings(Made, finished))
      /\ <<Opened(FALSE)>> \in Seq(Sayings(Made, finished))
      /\ <<Status("running"), Opened(TRUE)>> \in Seq(Sayings(Made, finished))
  BY <1>2, OneSaid, TwoSaid, EmptySeq
<1>4. up' \in [Sockets -> Seq(Sayings(Made, finished))]
  BY <1>3, Replied DEF OpenRun, TunnelInv, Honest
<1>5. QED
  BY <1>1, <1>4, ProxyCarried DEF TunnelInv, Honest

\* What the agent says of the prompt at the head of the queue.
LEMMA OfThePrompt ==
  ASSUME TunnelInv, Operating("prompt"), AtProxy
  PROVE  LET op == Head(opq) IN
         /\ op.call \in Made /\ op.call \in Sessions /\ op.sess \in Sessions
         /\ Result(op.call, FALSE, NoSession) \in Sayings(Made, finished')
         /\ op.call \in finished' => Result(op.call, TRUE, op.sess) \in Sayings(Made, finished')
         /\ [t |-> "created", sess |-> op.call] \in Sayings(Made, finished')
         /\ \A b \in BOOLEAN, sess \in Sessions :
              /\ [op EXCEPT !.running = b, !.sess = sess] \in Operations(Made)
              /\ [op EXCEPT !.sess = sess] \in Operations(Made)
              /\ [op EXCEPT !.running = b] \in Operations(Made)
<1> DEFINE op == Head(opq)
<1>1. op \in Operations(Made) /\ op.t = "prompt"
  BY FirstOperation DEF Operating
<1>2. op \in [t : {"prompt"}, call : Made, sess : Sessions, running : BOOLEAN]
  BY <1>1 DEF Operations
<1>3. op.call \in Made /\ op.call \in Calls
  BY <1>2 DEF Made
<1>4. Result(op.call, FALSE, NoSession) \in Sayings(Made, finished')
  BY <1>3 DEF Result, Sayings, Sessions
<1>5. op.call \in finished' => Result(op.call, TRUE, op.sess) \in Sayings(Made, finished')
  BY <1>2 DEF Result, Sayings
<1>6. [t |-> "created", sess |-> op.call] \in Sayings(Made, finished')
  BY <1>3 DEF Sayings
<1>7. \A b \in BOOLEAN, sess \in Sessions :
        /\ [op EXCEPT !.running = b, !.sess = sess] \in Operations(Made)
        /\ [op EXCEPT !.sess = sess] \in Operations(Made)
        /\ [op EXCEPT !.running = b] \in Operations(Made)
  BY <1>2 DEF Operations
<1>8. QED
  BY <1>2, <1>3, <1>4, <1>5, <1>6, <1>7 DEF Sessions

LEMMA PromptBeginsKeeps ==
  ASSUME TunnelInv, PromptBegins
  PROVE  TunnelInv' /\ Follows
<1> DEFINE op == Head(opq)
<1>1. Operating("prompt") /\ opq # <<>> /\ AtProxy /\ finished' = finished /\ inbox' = inbox
  BY DEF PromptBegins, AtProxy, Operating, hist
<1>2. opq' \in Seq(Operations(Made))
  <2>1. CASE opq' = [opq EXCEPT ![1].running = TRUE]
    <3>1. opq' = [opq EXCEPT ![1] = [op EXCEPT !.running = TRUE]]
      BY <1>1, <2>1, FirstOperation
    <3>2. QED
      BY <1>1, <3>1, FirstOperation, OfThePrompt
  <2>2. CASE opq' = [opq EXCEPT ![1].running = TRUE, ![1].sess = op.call]
    <3>1. opq' = [opq EXCEPT ![1] = [op EXCEPT !.running = TRUE, !.sess = op.call]]
      BY <1>1, <2>2, FirstOperation
    <3>2. QED
      BY <1>1, <3>1, FirstOperation, OfThePrompt
  <2>3. CASE opq' = Tail(opq)
    BY <1>1, <2>3, FirstOperation
  <2>4. QED
    BY <2>1, <2>2, <2>3 DEF PromptBegins
<1>3. up' \in [Sockets -> Seq(Sayings(Made, finished))]
  <2>1. /\ <<Result(op.call, FALSE, NoSession)>> \in Seq(Sayings(Made, finished))
        /\ <<[t |-> "created", sess |-> op.call]>> \in Seq(Sayings(Made, finished))
    BY <1>1, OfThePrompt, OneSaid, EmptySeq
  <2>2. QED
    BY <2>1, Replied DEF PromptBegins, TunnelInv, Honest
<1>4. QED
  BY <1>1, <1>2, <1>3, ProxyCarried DEF TunnelInv, Honest

LEMMA PromptEndsKeeps ==
  ASSUME TunnelInv, PromptEnds
  PROVE  TunnelInv' /\ Follows
<1> DEFINE op == Head(opq)
<1>1. Operating("prompt") /\ opq # <<>> /\ inbox' = inbox
  BY DEF PromptEnds, Operating
<1>2. op.call \in Made
  BY <1>1, FirstOperation DEF Operating, Operations
<1>3. AtProxy
  BY <1>2 DEF PromptEnds, AtProxy
<1>4. opq' \in Seq(Operations(Made))
  <2>1. CASE opq' = [opq EXCEPT ![1].sess = op.call]
    <3>1. opq' = [opq EXCEPT ![1] = [op EXCEPT !.sess = op.call]]
      BY <1>1, <2>1, FirstOperation
    <3>2. QED
      BY <1>1, <1>3, <3>1, FirstOperation, OfThePrompt
  <2>2. CASE opq' = Tail(opq)
    BY <1>1, <2>2, FirstOperation
  <2>3. QED
    BY <2>1, <2>2 DEF PromptEnds
<1>5. up' \in [Sockets -> Seq(Sayings(Made, finished'))]
  <2>1. /\ <<Result(op.call, FALSE, NoSession)>> \in Seq(Sayings(Made, finished'))
        /\ op.call \in finished' =>
             <<Result(op.call, TRUE, op.sess)>> \in Seq(Sayings(Made, finished'))
        /\ <<[t |-> "created", sess |-> op.call]>> \in Seq(Sayings(Made, finished'))
    BY <1>1, <1>3, OfThePrompt, OneSaid, EmptySeq
  <2>2. \E msgs \in Seq(Sayings(Made, finished')) : Reply(msgs)
    BY <2>1 DEF PromptEnds
  <2>3. QED
    BY <1>3, <2>2, SayingsAfter, Replied
<1>6. QED
  BY <1>1, <1>3, <1>4, <1>5, ProxyCarried DEF TunnelInv, Honest

LEMMA ConnectionKeeps ==
  ASSUME TunnelInv, (\E s \in Sockets : Connect(s)) \/ Disconnected \/ Drop
  PROVE  TunnelInv' /\ Follows
<1>1. AtProxy /\ inbox' = inbox /\ opq' = opq /\ finished' = finished
  BY DEF Connect, Disconnected, Drop, AtProxy, proxy, idle, hist
<1>2. up' \in [Sockets -> Seq(Sayings(Made, finished))]
  <2>1. [t |-> "register"] \in Sayings(Made, finished) /\ Status("running") \in Sayings(Made, finished)
    BY DEF Status, Sayings, Boxes
  <2>2. /\ <<[t |-> "register"]>> \o <<Status("running")>> \in Seq(Sayings(Made, finished))
        /\ <<[t |-> "register"]>> \o <<>> \in Seq(Sayings(Made, finished))
    BY <2>1, OneSaid, EmptySeq, ConcatEmptySeq
  <2>3. QED
    BY <2>2 DEF Connect, Disconnected, Drop, net, TunnelInv, Honest
<1>3. QED
  BY <1>1, <1>2, ProxyCarried DEF TunnelInv, Honest

LEMMA ProxyFaultKeeps ==
  ASSUME TunnelInv, ProxyRestart \/ AgentExit \/ RemoveBox
  PROVE  TunnelInv' /\ Follows
<1>1. AtProxy /\ finished' = finished
  BY DEF ProxyRestart, AgentExit, RemoveBox, AgentStops, AtProxy
<1>2. CASE ProxyRestart
  BY <1>1, <1>2, EmptySeq, ProxyCarried DEF ProxyRestart, TunnelInv, Honest
<1>3. ASSUME NEW st \in Boxes, AgentStops(st)
      PROVE  TunnelInv' /\ Follows
  <2>1. Status(st) \in Sayings(Made, finished)
    BY DEF Status, Sayings
  <2>2. Orphan \in Seq(Sayings(Made, finished))
    BY <1>1, OfThePrompt, OneSaid, EmptySeq DEF Orphan
  <2>3. Orphan \o <<Status(st)>> \in Seq(Sayings(Made, finished))
    BY <2>1, <2>2, OneSaid
  <2>4. up' \in [Sockets -> Seq(Sayings(Made, finished))]
    BY <1>3, <2>3, Replied DEF AgentStops, TunnelInv, Honest
  <2>5. inbox' = inbox /\ opq' \in Seq(Operations(Made))
    BY <1>3, FirstOperation DEF AgentStops, Orphan, Operating, TunnelInv, Honest
  <2>6. QED
    BY <1>1, <2>4, <2>5, ProxyCarried DEF TunnelInv, Honest
<1>4. QED
  BY <1>2, <1>3 DEF AgentExit, RemoveBox, Boxes

-----------------------------------------------------------------------------
(* The theorems.                                                             *)

LEMMA TunnelInit ==
  ASSUME Init
  PROVE  TunnelInv /\ Abstract!Init
<1>1. TypeInv
  BY EmptySeq DEF Init, TypeInv, NoCall, CallRecords, CallKinds, Places, Sessions, NoSession,
                  RunRows, Boxes
<1>2. /\ \A c \in Calls : call[c].at = "idle"
      /\ finished = {} /\ run.status = "running"
  BY DEF Init, NoCall
<1>3. Honest
  BY <1>2, EmptySeq DEF Init, Honest
<1>4. Earned /\ CompletedByWork
  BY <1>2 DEF Earned, CompletedByWork, After
<1>5. Abstract!Init
  BY <1>2, Outcomes DEF Abstract!Init, Told, Places
<1>6. QED
  BY <1>1, <1>3, <1>4, <1>5 DEF TunnelInv

LEMMA TunnelStep ==
  ASSUME TunnelInv, [Next]_vars
  PROVE  TunnelInv' /\ (Abstract!Next \/ UNCHANGED Abstract!vars)
<1>1. CASE UNCHANGED vars
  <2>1. UNCHANGED <<hub, state, call, run, inbox, opq, up, finished>>
    BY <1>1 DEF vars, net, proxy, idle, hist
  <2>2. AtProxy /\ TunnelInv' /\ Follows
    BY <2>1, ProxyCarried DEF AtProxy, TunnelInv, Honest
  <2>3. QED
    BY <2>2, FollowsAbstract DEF TunnelInv
<1>2. CASE Next
  <2>1. ASSUME NEW c \in Calls, Begin(c) \/ Continue(c) \/ Timer(c)
        PROVE  TunnelInv' /\ Follows
    BY <2>1, BeginKeeps, ResumeKeeps, TasksKeep, EnsureOpenKeeps, OpenSentKeeps, ReadyKeeps,
       AnsweredKeeps, FinishKeeps, StartFailedKeeps, OpenTimeoutKeeps, PromptTimeoutKeeps
       DEF Continue, Timer
  <2>2. ASSUME NEW s \in Sockets, Handle(s)
        PROVE  TunnelInv' /\ Follows
    BY <2>2, RegisterKeeps, HandleOpenedKeeps, HandleResultKeeps, HandleCreatedKeeps,
       HandleStatusKeeps, CloseKeeps DEF Handle
  <2>3. ASSUME ProxyStep
        PROVE  TunnelInv' /\ Follows
    BY <2>3, ControlKeeps, EnsureRuntimeKeeps, OpenRunKeeps, PromptBeginsKeeps, PromptEndsKeeps,
       ConnectionKeeps DEF ProxyStep
  <2>4. ASSUME BackendCrash
        PROVE  TunnelInv' /\ Follows
    BY <2>4, Gone DEF BackendCrash
  <2>5. TunnelInv' /\ Follows
    BY <1>2, <2>1, <2>2, <2>3, <2>4, ReadyKeeps, ResumeKeeps, TasksKeep, ConnectionKeeps,
       ProxyFaultKeeps, CancelKeeps DEF Next
  <2>6. QED
    BY <2>5, FollowsAbstract DEF TunnelInv
<1>3. QED
  BY <1>1, <1>2

LEMMA TunnelInvariant == Spec => []TunnelInv
<1>1. Init => TunnelInv
  BY TunnelInit
<1>2. TunnelInv /\ [Next]_vars => TunnelInv'
  BY TunnelStep
<1>3. QED
  BY <1>1, <1>2, PTL DEF Spec

\* A run is completed only by a prompt that the agent has finished and whose result has
\* come back to its caller (finalizeRunIfRunning), whatever is lost, late or repeated on
\* the way, and whichever process stops.
THEOREM CompletedByWorkHolds == Spec => []CompletedByWork
<1>1. TunnelInv => CompletedByWork
  BY DEF TunnelInv
<1>2. QED
  BY <1>1, TunnelInvariant, PTL

\* The tunnel implements PromptCall: a call is answered at most once, with its own
\* result and after its work; calls that wait for the same open fail together, and
\* those of a process that stops are lost with it.
THEOREM CallsAnsweredHolds == Spec => CallsAnswered
<1>1. Init => Abstract!Init
  BY TunnelInit
<1>2. TunnelInv /\ [Next]_vars => [Abstract!Next]_(Abstract!vars)
  BY TunnelStep
<1>3. QED
  BY <1>1, <1>2, TunnelInvariant, PTL DEF Spec, CallsAnswered, Abstract!Spec

-----------------------------------------------------------------------------
(* Connections: the one the proxy uses is the one the backend reaches it by. *)

Unseen == {"open", "registered"}

\* The socket that works is the latest, and the proxy's; a socket was registered when
\* those before it had been seen to close.
Latest ==
  /\ psock \in Sockets \cup {0}
  /\ link \in [Sockets -> BOOLEAN] /\ DOMAIN back = Sockets
  /\ \A s \in Sockets : link[s] => psock = s /\ \A o \in Sockets : o > s => back[o] = "none"
  /\ \A s \in Sockets : back[s] = "registered" =>
       \A o \in Sockets : o < s => back[o] \notin Unseen
  /\ \A s \in Sockets, o \in Sockets : back[s] # "none" /\ o < s => back[o] # "none"

SocketInv == Latest /\ Reachable

\* It holds as long as no connection is replaced before its end is noticed.
InTime == ~LateClose /\ SocketInv

SameSockets == UNCHANGED <<conn, back, link, psock>>

LEMMA OtherSteps ==
  ASSUME Next
  PROVE  \/ SameSockets
         \/ \E s \in Sockets : Register(s) \/ CloseConn(s) \/ (DropState(s) /\ UNCHANGED conn)
         \/ BackendGone /\ psock' = psock
         \/ \E s \in Sockets : Connect(s)
         \/ Disconnected \/ Drop \/ ProxyRestart
<1> USE DEF SameSockets, hub, net, proxy, idle
<1>1. ASSUME NEW c \in Calls, Begin(c) \/ ResumeList(c)
      PROVE  SameSockets
  BY <1>1 DEF Begin, StartCall, ChatCall, WsCall, ControlCall, ResumeList
<1>2. ASSUME NEW c \in Calls, Ready(c) \/ Continue(c)
      PROVE  SameSockets
  BY <1>2 DEF Continue, Ready, ResumeCall, WsTask, EnsureOpen, OpenSent, HintWritten, Answered,
              Finish, StartFailed
<1>3. ASSUME NEW c \in Calls, Timer(c)
      PROVE  SameSockets \/ (BackendGone /\ psock' = psock)
  BY <1>3 DEF Timer, OpenTimeout, PromptTimeout
<1>4. ASSUME NEW s \in Sockets, HandleOpened(s) \/ HandleResult(s) \/ HandleCreated(s)
                                  \/ HandleStatus(s)
      PROVE  SameSockets
  BY <1>4 DEF HandleOpened, HandleResult, HandleCreated, HandleStatus
<1>5. ASSUME NEW s \in Sockets, CloseRest(s)
      PROVE  \/ BackendGone /\ psock' = psock
             \/ DropState(s) /\ UNCHANGED conn
  BY <1>5 DEF CloseRest, DropUnawaited
<1>6. ASSUME \/ ResumeNothing \/ StatusTask \/ Cancel \/ AgentExit \/ RemoveBox
             \/ \E i \in DOMAIN inbox : Control(i) \/ EnsureRuntime(i)
             \/ OpenRun \/ PromptBegins \/ PromptEnds
      PROVE  SameSockets
  BY <1>6 DEF ResumeNothing, StatusTask, Cancel, AgentExit, RemoveBox, AgentStops, Control,
              EnsureRuntime, OpenRun, PromptBegins, PromptEnds
<1>7. ASSUME BackendCrash
      PROVE  BackendGone /\ psock' = psock
  BY <1>7 DEF BackendCrash
<1>8. QED
  BY <1>1, <1>2, <1>3, <1>4, <1>5, <1>6, <1>7 DEF Next, Handle, ProxyStep

LEMMA SocketsStep ==
  ASSUME ~LateClose, SocketInv, [Next]_vars
  PROVE  SocketInv'
<1> USE DEF SocketInv, Latest, Reachable, Unseen
<1>0. \A s \in Sockets : s \in Nat \ {0} /\ 1..(s - 1) = {o \in Sockets : o < s}
  BY BoundsAssumption DEF Sockets
<1>1. CASE SameSockets \/ UNCHANGED vars
  BY <1>1 DEF SameSockets, vars, hub, net, proxy, idle
<1>2. ASSUME NEW s \in Sockets, Register(s)
      PROVE  SocketInv'
  BY <1>0, <1>2 DEF Register, proxy, idle
<1>3. ASSUME NEW s \in Sockets, CloseConn(s)
      PROVE  SocketInv'
  <2>1. back[s] = "registered" /\ psock # 0 /\ link[psock] => back[psock] # "registered"
    BY <1>0, <1>3 DEF CloseConn
  <2>2. Latest'
    BY <1>3 DEF CloseConn, proxy, idle
  <2>3. Reachable'
    BY <1>3, <2>1 DEF CloseConn, proxy, idle
  <2>4. QED
    BY <2>2, <2>3
<1>4. ASSUME NEW s \in Sockets, DropState(s), UNCHANGED conn
      PROVE  SocketInv'
  BY <1>4 DEF DropState, proxy, idle
<1>5. ASSUME BackendGone, psock' = psock
      PROVE  SocketInv'
  BY <1>5 DEF BackendGone
<1>6. ASSUME NEW s \in Sockets, Connect(s)
      PROVE  SocketInv'
  <2>1. \A o \in Sockets : ~link[o]
    BY <1>0, <1>6 DEF Connect
  <2>2. Latest'
    BY <1>0, <1>6, <2>1 DEF Connect
  <2>3. Reachable'
    BY <1>6 DEF Connect, hub
  <2>4. QED
    BY <2>2, <2>3
<1>7. ASSUME Disconnected
      PROVE  SocketInv'
  BY <1>0, <1>7 DEF Disconnected, net, hub
<1>8. ASSUME Drop \/ ProxyRestart
      PROVE  SocketInv'
  BY <1>0, <1>8 DEF Drop, ProxyRestart, hub, proxy, idle
<1>9. QED
  BY <1>1, <1>2, <1>3, <1>4, <1>5, <1>6, <1>7, <1>8, OtherSteps

\* When the end of a connection is noticed before the next one registers, a proxy that
\* has registered is reached by the connection it uses: removing the old one
\* (gateway.ts, the close handler) never removes the new one.
THEOREM ReachableHolds == ~LateClose /\ Spec => []Reachable
<1>1. ~LateClose /\ Init => InTime
  BY BoundsAssumption DEF Init, InTime, SocketInv, Latest, Reachable
<1>2. InTime /\ [Next]_vars => InTime'
  BY SocketsStep DEF InTime
<1>3. InTime => Reachable
  BY DEF InTime, SocketInv
<1>4. QED
  BY <1>1, <1>2, <1>3, PTL DEF Spec
===============================================================================
