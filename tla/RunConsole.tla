----------------------------- MODULE RunConsole -----------------------------
(***************************************************************************)
(* How what an agent says reaches the page of a run.  Updates arrive in    *)
(* the ACP tunnel and in the gateway, which queue them per run, gather     *)
(* pieces of text in a buffer, and write them as Event rows (acpTunnel.ts, *)
(* gateway.ts: the same steps twice, each with queues of its own; the      *)
(* tunnel alone writes a long piece as several rows of the same text).     *)
(* Every row is broadcast to the browsers' sockets.  A page (the session   *)
(* page or the issue page) shows what it gets from its socket and from the *)
(* lists of events it fetches, in whatever order these arrive, and keeps   *)
(* so many of them and no more.                                            *)
(***************************************************************************)
EXTENDS Integers, Sequences, FiniteSets, SequencesExt

CONSTANTS
  Streams,     \* the queues: one of the tunnel and one of the gateway for each run
  RunOf,       \* the run of each stream
  FullAt,      \* pieces of text that fill a buffer (CHUNK_MAX_BUFFER_CHARS)
  ListLimit,   \* events in a list
  ShowLimit,   \* events a page keeps: 800 on the session page, 600 on the issue page
  Fetches,     \* what a page has under way at once (a bound)
  ConsoleScenes

Runs == {RunOf[s] : s \in Streams}

ASSUME StreamsHaveRuns == RunOf \in [Streams -> Nat \ {0}] /\ Runs = 1 .. Cardinality(Runs)
ASSUME LimitsArePositive == {FullAt, ListLimit, ShowLimit} \subseteq Nat \ {0}

Kinds == {"message", "thought", "other", "result"}
Text  == {"message", "thought"}

\* kinds: what arrives; runs: the runs there are at first; the rest are bounds.
ASSUME ConsoleScenesAreKnown ==
  ConsoleScenes \subseteq [page : {"none", "session", "issue"}, streams : SUBSET Streams,
                           kinds : SUBSET Kinds, runs : 0 .. Cardinality(Runs),
                           updates : Nat, drops : Nat, faults : Nat, clicks : Nat]

VARIABLES
  scene,    \* the scene, chosen at the start
  arrived,  \* how many updates each stream has had
  queue,    \* runQueue: the tasks of each stream
  buffer,   \* chunkBuffersByRun: the segments of text, and the timer of the buffer
  work,     \* the task of each stream that is being done: what it has still to write
  lost,     \* history: the streams of which a failure has swallowed something
  rows,     \* the Event rows, in the order of their timestamps
  runs,     \* the runs of the issue are 1 .. runs
  link,     \* the socket of the page: "closed", "handshake", "up" (in clientConnections)
  wire,     \* what was broadcast and has not been received
  view,     \* the state of the page
  fetch,    \* what each of its asynchronous functions is waiting for
  cover,    \* history: the rows a list and an unbroken socket account for, 0 for none
  bounds    \* what is left of the scene's bounds

streamVars  == <<arrived, queue, buffer, work, lost>>
pageVars    == <<view, fetch, cover>>
consoleVars == <<scene, streamVars, rows, runs, link, wire, pageVars, bounds>>

EventRow == [stream : Streams, kind : Kinds, from : Nat, to : Nat]
Task     == [kind : Kinds \cup {"flush"}, n : Nat]

IdleFetch == [op |-> "idle", at |-> "idle", open |-> FALSE, run |-> 0, latest |-> 0,
              got |-> <<>>, conn |-> FALSE]

\* A refresh that begins.
Begun == [IdleFetch EXCEPT !.op = "refresh", !.open = view.open, !.run = view.run,
                           !.at = IF scene.page = "session" THEN "run" ELSE "issue"]

ConsoleInit ==
  /\ scene \in ConsoleScenes
  /\ arrived = [s \in Streams |-> 0]
  /\ queue = [s \in Streams |-> <<>>]
  /\ buffer = [s \in Streams |-> [text |-> <<>>, timer |-> "none"]]
  /\ work = [s \in Streams |-> [todo |-> <<>>, made |-> 0]]
  /\ lost = {} /\ rows = <<>>
  /\ runs = scene.runs
  /\ link = "closed" /\ wire = <<>>
  /\ view = [open |-> FALSE, run |-> IF scene.page = "session" THEN 1 ELSE 0, latest |-> 0,
             shown |-> <<>>, snapshot |-> 0, looked |-> {}]
  /\ fetch = [f \in Fetches |-> IF scene.page # "none" /\ f = CHOOSE g \in Fetches : TRUE
                                THEN Begun ELSE IdleFetch]
  /\ cover = 0
  /\ bounds = [updates |-> scene.updates, drops |-> scene.drops, faults |-> scene.faults,
               clicks |-> scene.clicks]

Uses(b) == bounds[b] > 0 /\ bounds' = [bounds EXCEPT ![b] = @ - 1]

-----------------------------------------------------------------------------
(* The streams                                                              *)

Streaming == UNCHANGED <<scene, runs, link, pageVars>>

\* An update of a run, or the end of a prompt, is put in the queue.
Arrive(s, kind) ==
  /\ s \in scene.streams /\ RunOf[s] <= runs /\ kind \in scene.kinds
  /\ Uses("updates")
  /\ arrived' = [arrived EXCEPT ![s] = @ + 1]
  /\ queue' = [queue EXCEPT ![s] = Append(@, [kind |-> kind, n |-> arrived[s] + 1])]
  /\ UNCHANGED <<buffer, work, lost, rows, wire>> /\ Streaming

RowOf(s, task) == [stream |-> s, kind |-> task.kind, from |-> task.n, to |-> task.n]

\* A piece of text goes on with the last segment if it is of the same kind.
Joined(s, text, task) ==
  IF text # <<>> /\ Last(text).kind = task.kind
  THEN [text EXCEPT ![Len(text)].to = task.n]
  ELSE Append(text, RowOf(s, task))

Size(text) == IF text = <<>> THEN 0 ELSE Last(text).to - text[1].from + 1

\* Mutant: the timer of the buffer is left as it is.
FlushedTimed(s) == [text |-> <<>>, timer |-> buffer[s].timer]

\* flushRunChunkBuffer takes the segments, and the buffer with its timer is gone.
Flushed(s) == [text |-> <<>>, timer |-> "none"]

Rests(s) == work[s] = [todo |-> <<>>, made |-> 0]

Takes(s) ==
  /\ Rests(s) /\ queue[s] # <<>>
  /\ queue' = [queue EXCEPT ![s] = Tail(@)]
  /\ UNCHANGED <<arrived, lost, rows, wire, bounds>> /\ Streaming

Writes(s, todo) == work' = [work EXCEPT ![s].todo = todo]

\* bufferChunkSegment: a full buffer is flushed at once, another gets a timer.
TakeText(s) ==
  LET task == Head(queue[s])
      text == Joined(s, buffer[s].text, task)
  IN /\ Takes(s) /\ task.kind \in Text
     /\ IF Size(text) >= FullAt
        THEN buffer' = [buffer EXCEPT ![s] = Flushed(s)] /\ Writes(s, text)
        ELSE /\ buffer' = [buffer EXCEPT ![s] = [text |-> text,
                                                 timer |-> IF @.timer = "none" THEN "set" ELSE @.timer]]
             /\ UNCHANGED work

\* Mutant: the text gathered so far is not written first.
TakeOtherFirst(s) ==
  LET task == Head(queue[s])
  IN /\ Takes(s) /\ task.kind \in {"other", "result"}
     /\ Writes(s, <<RowOf(s, task)>>)
     /\ UNCHANGED buffer

\* Anything else is written after the text gathered so far.
TakeOther(s) ==
  LET task == Head(queue[s])
  IN /\ Takes(s) /\ task.kind \in {"other", "result"}
     /\ Writes(s, Append(buffer[s].text, RowOf(s, task)))
     /\ buffer' = [buffer EXCEPT ![s] = Flushed(s)]

TakeFlush(s) ==
  /\ Takes(s) /\ Head(queue[s]).kind = "flush"
  /\ Writes(s, buffer[s].text)
  /\ buffer' = IF buffer[s].text = <<>> THEN buffer ELSE [buffer EXCEPT ![s] = Flushed(s)]

\* The timer of the buffer fires, and the flush waits for its turn.
Fire(s) ==
  /\ buffer[s].timer = "set"
  /\ buffer' = [buffer EXCEPT ![s].timer = "fired"]
  /\ queue' = [queue EXCEPT ![s] = Append(@, [kind |-> "flush", n |-> 0])]
  /\ UNCHANGED <<arrived, work, lost, rows, wire, bounds>> /\ Streaming

\* event.create, and then the broadcast.
Create(s) ==
  /\ work[s].made = 0 /\ work[s].todo # <<>>
  /\ rows' = Append(rows, Head(work[s].todo))
  /\ work' = [work EXCEPT ![s] = [todo |-> Tail(@.todo), made |-> Len(rows) + 1]]
  /\ UNCHANGED <<arrived, queue, buffer, lost, wire, bounds>> /\ Streaming

Tell(s) ==
  /\ work[s].made # 0
  /\ wire' = IF link = "up" THEN Append(wire, work[s].made) ELSE wire
  /\ work' = [work EXCEPT ![s].made = 0]
  /\ UNCHANGED <<arrived, queue, buffer, lost, rows, bounds>> /\ Streaming

\* event.create throws: the rest of the task is not done.
CreateFails(s) ==
  /\ work[s].made = 0 /\ work[s].todo # <<>>
  /\ Uses("faults")
  /\ work' = [work EXCEPT ![s].todo = <<>>]
  /\ lost' = lost \cup {s}
  /\ UNCHANGED <<arrived, queue, buffer, rows, wire>> /\ Streaming

-----------------------------------------------------------------------------
(* The socket of the page                                                   *)

\* What happened to the page since a list was read spoils it as a cover.
Spoilt(fs) == [f \in Fetches |-> [fs[f] EXCEPT !.conn = FALSE]]

\* connect: a browser's socket is known to the gateway once its token is verified.
Reconnect ==
  /\ scene.page # "none" /\ link = "closed"
  /\ link' = "handshake"
  /\ UNCHANGED <<scene, streamVars, rows, runs, wire, pageVars, bounds>>

Register ==
  /\ link = "handshake"
  /\ link' = "up"
  /\ UNCHANGED <<scene, streamVars, rows, runs, wire, pageVars, bounds>>

Opens ==
  /\ link # "closed" /\ ~view.open
  /\ view' = [view EXCEPT !.open = TRUE]
  /\ UNCHANGED <<scene, streamVars, rows, runs, link, wire, fetch, cover, bounds>>

Cut == link' = "closed" /\ wire' = <<>> /\ view' = [view EXCEPT !.open = FALSE]
       /\ fetch' = Spoilt(fetch) /\ cover' = 0

\* The connection is lost, with what is on it.  The page connects again.
Drop ==
  /\ link # "closed" /\ Uses("drops")
  /\ Cut
  /\ UNCHANGED <<scene, streamVars, rows, runs>>

\* The backend restarts: what it had queued and gathered is gone.
Restart ==
  /\ Uses("faults")
  /\ queue' = [s \in Streams |-> <<>>]
  /\ buffer' = [s \in Streams |-> [text |-> <<>>, timer |-> "none"]]
  /\ work' = [s \in Streams |-> [todo |-> <<>>, made |-> 0]]
  /\ lost' = {s \in Streams : arrived[s] > 0}
  /\ Cut
  /\ UNCHANGED <<scene, arrived, rows, runs>>

-----------------------------------------------------------------------------
(* The pages                                                                *)

OfRun(k, r) == RunOf[rows[k].stream] = r

\* The numbers of a set, the least first.
Ascending(S) == [n \in 1 .. Cardinality(S) |->
                   CHOOSE k \in S : Cardinality({j \in S : j < k}) = n - 1]

\* GET /runs/:id/events: the newest events, which the pages turn round.
Listed(r) ==
  LET all == Ascending({k \in DOMAIN rows : OfRun(k, r)})
  IN SubSeq(all, IF Len(all) > ListLimit THEN Len(all) - ListLimit + 1 ELSE 1, Len(all))

\* From where on a list accounts for the rows.
CoverOf(got) == IF Len(got) < ListLimit THEN 1 ELSE got[1]

Paging == UNCHANGED <<scene, streamVars, rows, link>>

Becomes(f, state) == fetch' = [fetch EXCEPT ![f] = state]
Done(f) == Becomes(f, IdleFetch)

\* The run that is shown changes, or its events are cleared.
Turns(f, state) == cover' = 0 /\ fetch' = [Spoilt(fetch) EXCEPT ![f] = state]

\* The user refreshes the page.
Refresh(f) ==
  /\ scene.page # "none" /\ fetch[f] = IdleFetch
  /\ Uses("clicks")
  /\ Becomes(f, Begun)
  /\ UNCHANGED <<runs, wire, view, cover>> /\ Paging

\* getIssue: the run that was chosen is wanted, or else the issue's latest.
GotIssue(f) ==
  LET wanted == IF view.run # 0 THEN view.run ELSE runs
  IN /\ fetch[f].at = "issue"
     /\ IF wanted # 0
        THEN /\ Becomes(f, [fetch[f] EXCEPT !.at = "run", !.run = wanted, !.latest = runs])
             /\ view' = [view EXCEPT !.latest = runs]
             /\ UNCHANGED cover
        ELSE /\ Turns(f, IdleFetch)
             /\ view' = [view EXCEPT !.latest = runs, !.shown = <<>>, !.snapshot = 0]
     /\ UNCHANGED <<runs, wire, bounds>> /\ Paging

\* getRun: the events are fetched unless the socket is taken to bring them.
SessionRun(f) ==
  LET state == fetch[f]
  IN /\ scene.page = "session" /\ state.at = "run"
     /\ IF ~view.open \/ view.snapshot # state.run
        THEN Becomes(f, [state EXCEPT !.at = "list"])
        ELSE Done(f)
     /\ UNCHANGED <<runs, wire, view, cover, bounds>> /\ Paging

\* The same on the issue page, which looked at the socket before, shows the run, and
\* clears the events before it fetches them; a switch clears them in any case.
IssueRun(f) ==
  LET state == fetch[f]
      open  == IF state.op = "refresh" THEN state.open ELSE view.open
      lists == ~open \/ view.snapshot # state.run
      next  == IF lists THEN [state EXCEPT !.at = "list"] ELSE IdleFetch
      clear == lists \/ state.op = "switch"
  IN /\ scene.page = "issue" /\ state.at = "run"
     /\ view' = [view EXCEPT !.run = state.run, !.shown = IF clear THEN <<>> ELSE @]
     /\ IF clear \/ view.run # state.run THEN Turns(f, next) ELSE Becomes(f, next) /\ UNCHANGED cover
     /\ UNCHANGED <<runs, wire, bounds>> /\ Paging

\* The backend reads the list of events.
ListRead(f) ==
  /\ fetch[f].at = "list"
  /\ Becomes(f, [fetch[f] EXCEPT !.at = "merge", !.got = Listed(fetch[f].run), !.conn = link = "up"])
  /\ UNCHANGED <<runs, wire, view, cover, bounds>> /\ Paging

\* slice: of too many events a page keeps the last.
Newest(shown) ==
  IF Len(shown) > ShowLimit THEN SubSeq(shown, Len(shown) - ShowLimit + 1, Len(shown)) ELSE shown

\* Mutant: the list replaces what is shown.
ListReplaces(shown, got) == got

\* mergeEventsById: by the order of the timestamps, each event once.
Merged(shown, got) ==
  IF got = <<>> THEN shown ELSE Newest(Ascending(ToSet(shown) \cup ToSet(got)))

Merge(f) ==
  LET state == fetch[f]
  IN /\ state.at = "merge" /\ state.op # "select"
     /\ view' = [view EXCEPT !.shown = Merged(@, state.got), !.snapshot = state.run]
     /\ cover' = IF state.conn /\ view.run = state.run THEN CoverOf(state.got) ELSE cover
     /\ Done(f)
     /\ UNCHANGED <<runs, wire, bounds>> /\ Paging

\* onSelectRun: the run and its events, which replace the others.
Select(f, r) ==
  /\ scene.page = "issue" /\ fetch[f] = IdleFetch /\ r <= runs
  /\ Uses("clicks")
  /\ Becomes(f, [IdleFetch EXCEPT !.op = "select", !.at = "list", !.run = r])
  /\ UNCHANGED <<runs, wire, view, cover>> /\ Paging

Selected(f) ==
  LET state == fetch[f]
  IN /\ state.at = "merge" /\ state.op = "select"
     /\ view' = [view EXCEPT !.run = state.run, !.shown = state.got]
     /\ Turns(f, IdleFetch)
     /\ UNCHANGED <<runs, wire, bounds>> /\ Paging

\* onStartRun and onStartStep: a run is made, and answered.
Start(f, op) ==
  /\ scene.page = "issue" /\ fetch[f] = IdleFetch /\ runs < Cardinality(Runs)
  /\ Uses("clicks")
  /\ runs' = runs + 1
  /\ Becomes(f, [IdleFetch EXCEPT !.op = op, !.at = "answer", !.run = runs + 1])
  /\ UNCHANGED <<wire, view, cover>> /\ Paging

Started(f) ==
  /\ fetch[f].at = "answer" /\ fetch[f].op \in {"start", "step"}
  /\ view' = [view EXCEPT !.run = fetch[f].run, !.shown = IF fetch[f].op = "start" THEN <<>> ELSE @]
  /\ Turns(f, [Begun EXCEPT !.run = fetch[f].run])
  /\ UNCHANGED <<runs, wire, bounds>> /\ Paging

\* Cancelling or completing the run, one at a time, and what else ends with a refresh:
\* a dispatch by the PM, a prompt without a socket, a new task, a rollback.
Operate(f) ==
  /\ scene.page = "issue" /\ fetch[f] = IdleFetch /\ view.run # 0
  /\ \A g \in Fetches : fetch[g].op # "operate"
  /\ Uses("clicks")
  /\ Becomes(f, [IdleFetch EXCEPT !.op = "operate", !.at = "answer"])
  /\ UNCHANGED <<runs, wire, view, cover>> /\ Paging

\* On the session page, a mode, a model or an option is set, and then the page refreshed.
SetSession(f) ==
  /\ scene.page = "session" /\ fetch[f] = IdleFetch
  /\ Uses("clicks")
  /\ Becomes(f, [IdleFetch EXCEPT !.op = "operate", !.at = "answer"])
  /\ UNCHANGED <<runs, wire, view, cover>> /\ Paging

Operated(f) ==
  /\ fetch[f].at = "answer" /\ fetch[f].op = "operate"
  /\ Becomes(f, Begun)
  /\ UNCHANGED <<runs, wire, view, cover, bounds>> /\ Paging

\* A call fails.  A refresh of the issue page then takes the latest run instead.
FetchFails(f) ==
  LET state == fetch[f]
  IN /\ state # IdleFetch /\ Uses("faults")
     /\ IF /\ scene.page = "issue" /\ state.op = "refresh" /\ state.at \in {"run", "list", "merge"}
           /\ state.latest \notin {0, state.run}
        THEN Becomes(f, [state EXCEPT !.at = "run", !.run = state.latest, !.got = <<>>, !.conn = FALSE])
        ELSE Done(f)
     /\ UNCHANGED <<runs, wire, view, cover>> /\ Paging

\* A run of the issue is started by somebody else.
RunMade ==
  /\ scene.page = "issue" /\ runs < Cardinality(Runs)
  /\ Uses("clicks")
  /\ runs' = runs + 1
  /\ UNCHANGED <<wire, pageVars>> /\ Paging

\* Mutant: an event that is shown already is shown again.
ShownAgain(k) == Newest(Append(view.shown, k))

\* An event is shown once.
ShownWith(k) ==
  IF k \in ToSet(view.shown) THEN view.shown ELSE Newest(Append(view.shown, k))

Receives == wire # <<>> /\ wire' = Tail(wire) /\ UNCHANGED <<runs, bounds>> /\ Paging

\* An event of the run is shown, and the end of a prompt refreshes the page.
Shows(f, k) ==
  /\ view' = [view EXCEPT !.shown = ShownWith(k)]
  /\ UNCHANGED cover
  /\ IF rows[k].kind = "result" THEN fetch[f] = IdleFetch /\ Becomes(f, Begun) ELSE UNCHANGED fetch

SessionReceive(f) ==
  /\ scene.page = "session" /\ Receives
  /\ IF OfRun(Head(wire), view.run) THEN Shows(f, Head(wire)) ELSE UNCHANGED pageVars

\* An event of another run of the issue makes the page look it up, once, and switch to it.
IssueReceive(f) ==
  LET k == Head(wire)
      r == RunOf[rows[k].stream]
  IN /\ scene.page = "issue" /\ Receives
     /\ CASE r = (IF view.run # 0 THEN view.run ELSE view.latest) -> Shows(f, k)
          [] r # (IF view.run # 0 THEN view.run ELSE view.latest) /\ r \notin view.looked ->
               /\ fetch[f] = IdleFetch
               /\ Becomes(f, [IdleFetch EXCEPT !.op = "switch", !.at = "run", !.run = r])
               /\ view' = [view EXCEPT !.looked = @ \cup {r}]
               /\ UNCHANGED cover
          [] OTHER -> UNCHANGED pageVars

-----------------------------------------------------------------------------
Flowing(s) == TakeText(s) \/ TakeOther(s) \/ TakeFlush(s) \/ Fire(s) \/ Create(s) \/ Tell(s)

Fetching(f) ==
  \/ GotIssue(f) \/ SessionRun(f) \/ IssueRun(f) \/ ListRead(f) \/ Merge(f)
  \/ Selected(f) \/ Started(f) \/ Operated(f)
  \/ SessionReceive(f) \/ IssueReceive(f)

ConsoleNext ==
  \/ \E s \in Streams : Flowing(s) \/ CreateFails(s) \/ \E kind \in Kinds : Arrive(s, kind)
  \/ Reconnect \/ Register \/ Opens \/ Drop \/ Restart \/ RunMade
  \/ \E f \in Fetches : \/ Fetching(f) \/ Refresh(f) \/ FetchFails(f) \/ Operate(f) \/ SetSession(f)
                        \/ \E r \in Runs : Select(f, r)
                        \/ \E op \in {"start", "step"} : Start(f, op)

\* The backend's queues and timers go on.  Nothing is asked of agents, users and browsers.
ConsoleSpec == ConsoleInit /\ [][ConsoleNext]_consoleVars /\ \A s \in Streams : WF_consoleVars(Flowing(s))

-----------------------------------------------------------------------------
(* Properties                                                               *)

\* Where updates of a stream are, in the order they take: rows, what its task has still to
\* write, the buffer, the queue.
Pieces(s) ==
  LET piece(stage, at, from, to) == [stage |-> stage, at |-> at, from |-> from, to |-> to]
      todo == work[s].todo
      text == buffer[s].text
      tasks == queue[s]
  IN   {piece(1, k, rows[k].from, rows[k].to) : k \in {j \in DOMAIN rows : rows[j].stream = s}}
  \cup {piece(2, k, todo[k].from, todo[k].to) : k \in DOMAIN todo}
  \cup {piece(3, k, text[k].from, text[k].to) : k \in DOMAIN text}
  \cup {piece(4, k, tasks[k].n, tasks[k].n) : k \in {j \in DOMAIN tasks : tasks[j].kind # "flush"}}

Before(p, q) == p.stage < q.stage \/ (p.stage = q.stage /\ p.at < q.at)

\* The rows of a stream have its updates in their order, each once, text and the rest,
\* though text waits in a buffer for a timer (gateway.ts:663); and until a failure swallows
\* some, each update is in a row or on its way into one.
UpdatesKept ==
  \A s \in Streams :
    /\ \A p, q \in Pieces(s) : Before(p, q) => p.to < q.from
    /\ s \notin lost =>
         \A n \in 1 .. arrived[s] : \E p \in Pieces(s) : n \in p.from .. p.to

\* No update stays in a queue or in a buffer for ever (gateway.ts:732).
Persisted ==
  \A s \in Streams, n \in 1 .. 3 :
    arrived[s] >= n ~>
      s \in lost \/ \E k \in DOMAIN rows : rows[k].stream = s /\ n \in rows[k].from .. rows[k].to

\* A page that is full shows as many events as it keeps, and may have let go of any other.
PageFull == Len(view.shown) >= ShowLimit

\* A page that has merged a list read while its socket was in place misses no event of its
\* run from there on but for want of room, whatever is received, fetched and refreshed
\* meanwhile, until the socket breaks or the page turns to another run
\* (useSessionController.ts:171).
ConsoleCovers ==
  cover # 0 /\ ~PageFull =>
    \A k \in cover .. Len(rows) :
      OfRun(k, view.run) /\ (\A s \in Streams : work[s].made # k) => k \in ToSet(view.shown \o wire)

\* A page shows each event once, though the lists and the socket bring them twice and late;
\* and as long as a list holds all of a run's events and the page has room, those of a
\* stream are in their order.  (A list that is full may be merged before an older event
\* comes over the socket, and a full page may be brought an event it has let go of.)
ShownInOrder ==
  \A i, j \in DOMAIN view.shown :
    i < j => LET a == view.shown[i]
                 b == view.shown[j]
             IN /\ a # b
                /\ rows[a].stream = rows[b].stream =>
                     \/ a < b \/ PageFull
                     \/ Cardinality({k \in DOMAIN rows : OfRun(k, RunOf[rows[a].stream])}) > ListLimit
=============================================================================
