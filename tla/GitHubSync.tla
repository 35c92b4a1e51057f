----------------------------- MODULE GitHubSync -----------------------------
(***************************************************************************)
(* How the issues and pull requests of a GitHub repository become Issue    *)
(* rows of its project: the polling loop (githubPolling.ts), the issues    *)
(* webhook, and the import route.  All three find the row of an item in    *)
(* one step and create or update it in a later one; the rows have a unique *)
(* external id.  The loop lists what changed since its cursor page by page *)
(* while the repository goes on changing, and any call of it may fail.     *)
(***************************************************************************)
EXTENDS Integers, Sequences, FiniteSets

CONSTANTS
  Items,      \* issues and pull requests, 1 .. n in the order they are opened
  Hands,      \* deliveries and import requests being handled at once
  PageSize,   \* per_page of the lists
  MaxPages,   \* the pages after which a list is cut
  Overlap,    \* overlapSeconds
  SyncScenes  \* which items are pull requests, and the bounds

ASSUME ItemsAreNumbered == IsFiniteSet(Items) /\ Items = 1 .. Cardinality(Items)
ASSUME SizesArePositive == {PageSize, MaxPages} \subseteq Nat \ {0} /\ Overlap \in Nat
\* behind: how far GitHub's clock, which stamps the changes, is behind the backend's.
ASSUME SyncScenesAreKnown ==
  SyncScenes \subseteq [pulls : SUBSET Items, handlers : SUBSET Hands, webhook : BOOLEAN,
                        behind : 0 .. Overlap, lastTime : Nat, changes : Nat, faults : Nat]

VARIABLES
  setup,    \* the scene, chosen at the start
  clock,    \* the backend's clock
  item,     \* the items at GitHub: version 0 is not there yet
  mail,     \* webhook deliveries under way
  row,      \* the Issue rows
  recorded, \* the pull requests some run has as its own (scmPrNumber)
  cursor,   \* ProjectScmConfig.githubPollingCursor
  poll,     \* the loop and the sync it has queued for the project
  hand,     \* what each handler is in the middle of
  changes, faults  \* bounds: changes at GitHub, failures

world    == <<item, mail, changes>>
syncVars == <<setup, clock, world, row, recorded, cursor, poll, hand, faults>>

\* What a list, a delivery or getIssue says of an item; a delivery is [said, action].
\* An Issue row is "pending" or "ended": done, failed or cancelled.  newest is kept for
\* the properties: the newest version that the row has said since a sync last wrote it.
NoItem == [item |-> 1, version |-> 0, stamp |-> 0, open |-> FALSE]

IdlePoll == [at |-> "idle", list |-> "issues", now |-> 0, since |-> 0, page |-> 1,
             todo |-> <<>>, full |-> FALSE, found |-> 0, ended |-> FALSE]
IdleHand == [at |-> "idle", said |-> NoItem, reopens |-> FALSE]
NoRow == [version |-> 0, newest |-> 0, status |-> "pending", task |-> FALSE]

\* The clocks start late enough for a cursor of 0 to stand for none.
SyncInit ==
  /\ setup \in SyncScenes
  /\ clock = 1
  /\ item = [i \in Items |-> [version |-> 0, changed |-> 0, open |-> FALSE]]
  /\ mail = {}
  /\ row = [i \in Items |-> NoRow]
  /\ recorded = {}
  /\ cursor = 0
  /\ poll = IdlePoll
  /\ hand = [h \in Hands |-> IdleHand]
  /\ changes = setup.changes /\ faults = setup.faults

-----------------------------------------------------------------------------
(* GitHub                                                                   *)

Exists(i) == item[i].version > 0
HasRow(i) == row[i].version > 0

\* updated_at, by GitHub's clock.
Stamp(i) == item[i].changed - setup.behind
Says(i) == [item |-> i, version |-> item[i].version, stamp |-> Stamp(i), open |-> item[i].open]

\* An item is opened, edited or commented on, closed, reopened.  The next one opened
\* has the next number.  Issues have a webhook, where the project has one.
Changes(i, open) ==
  LET next == [version |-> item[i].version + 1, changed |-> clock, open |-> open]
      said == [item |-> i, version |-> next.version, stamp |-> clock - setup.behind, open |-> open]
      action == IF ~Exists(i) THEN "opened"
                ELSE IF open /\ ~item[i].open THEN "reopened" ELSE "other"
  IN
  /\ changes > 0 /\ changes' = changes - 1
  /\ Exists(i) \/ (open /\ \A j \in 1 .. i - 1 : Exists(j))
  /\ item' = [item EXCEPT ![i] = next]
  /\ mail' = IF i \in setup.pulls \/ ~setup.webhook THEN mail
             ELSE mail \cup {[said |-> said, action |-> action]}
  /\ UNCHANGED <<setup, clock, row, recorded, cursor, poll, hand, faults>>

Tick ==
  /\ clock < setup.lastTime
  /\ clock' = clock + 1
  /\ UNCHANGED <<setup, world, row, recorded, cursor, poll, hand, faults>>

InList(list, since) ==
  IF list = "issues" THEN {i \in Items : Exists(i) /\ (since = 0 \/ Stamp(i) >= since)}
  ELSE {i \in setup.pulls : Exists(i)}

\* The list of issues, pull requests among them, newest first, and the list of pull
\* requests, last changed first.
Ahead(list, j, i) ==
  IF list = "issues" THEN j > i ELSE Stamp(j) > Stamp(i) \/ (Stamp(j) = Stamp(i) /\ j > i)

\* How many come before an item.
Place(list, since, i) == Cardinality({j \in InList(list, since) : Ahead(list, j, i)})

Listed(list, since) ==
  [n \in 1 .. Cardinality(InList(list, since)) |->
     CHOOSE i \in InList(list, since) : Place(list, since, i) = n - 1]

PageOf(seq, n) == SubSeq(seq, (n - 1) * PageSize + 1, IF n * PageSize < Len(seq) THEN n * PageSize ELSE Len(seq))

-----------------------------------------------------------------------------
(* The polling loop                                                         *)

\* normalizeCursorWithOverlap
Since(c) == IF c <= Overlap THEN 0 ELSE c - Overlap

Turn(p) == poll' = p /\ UNCHANGED <<setup, clock, world, recorded, hand>>

\* The timer reads the projects, their cursors with them.
PollTimer ==
  /\ poll.at = "idle"
  /\ Turn([IdlePoll EXCEPT !.at = "timer", !.since = Since(cursor)])
  /\ UNCHANGED <<row, cursor, faults>>

\* No sync of the project is queued: one is, and takes the time it begins.
PollStart ==
  /\ poll.at = "timer"
  /\ Turn([poll EXCEPT !.at = "list", !.now = clock])
  /\ UNCHANGED <<row, cursor, faults>>

NextList(p) ==
  IF p.list = "issues" THEN [p EXCEPT !.at = "list", !.list = "pulls", !.page = 1, !.todo = <<>>]
  ELSE [p EXCEPT !.at = "end", !.todo = <<>>]

\* The next item of the page, or the next page, or the next list.
Further(p) ==
  IF p.todo # <<>> THEN [p EXCEPT !.at = "each"]
  ELSE IF p.full /\ p.page < MaxPages THEN [p EXCEPT !.at = "list", !.page = @ + 1]
  ELSE NextList(p)

PollList ==
  LET seq == PageOf(Listed(poll.list, poll.since), poll.page)
      todo == [k \in 1 .. Len(seq) |-> Says(seq[k])]
  IN /\ poll.at = "list"
     /\ Turn(Further([poll EXCEPT !.todo = todo, !.full = Len(todo) = PageSize]))
     /\ UNCHANGED <<row, cursor, faults>>

Said == Head(poll.todo)
Rest == [poll EXCEPT !.todo = Tail(@), !.found = 0, !.ended = FALSE]

\* findFirst of the item's row.  The list of issues' pull requests are passed over; in
\* their own list, one that a run has is not looked for, and one older than the cursor
\* ends the list.
PollFind ==
  LET i == Said.item
      old == poll.since > 0 /\ Said.stamp < poll.since
  IN /\ poll.at = "each"
     /\ CASE poll.list = "issues" /\ i \in setup.pulls -> Turn(Further(Rest))
          [] poll.list = "pulls" /\ old -> Turn(NextList(poll))
          [] poll.list = "pulls" /\ ~old /\ i \in recorded -> Turn([poll EXCEPT !.at = "run"])
          [] OTHER -> Turn([poll EXCEPT !.at = "write", !.found = row[i].version,
                                         !.ended = row[i].status = "ended"])
     /\ UNCHANGED <<row, cursor, faults>>

RowOf(said) == [NoRow EXCEPT !.version = said.version, !.newest = said.version]

\* updateGitHubRunScmFromPoll: the state of its pull request is written to the run.
PollRun ==
  /\ poll.at = "run"
  /\ Turn(Further(Rest))
  /\ UNCHANGED <<row, cursor, faults>>

\* upsertGitHubIssue and upsertGitHubPullRequestAsIssue.  A row that was not found is
\* created, which fails if it is there by now; one that has not changed is left alone;
\* an issue that had ended and is open is pending again.
PollWrite ==
  LET i == Said.item
      reset == i \notin setup.pulls /\ Said.open /\ poll.ended
      written == [row[i] EXCEPT !.version = Said.version, !.newest = Said.version,
                                !.status = IF reset THEN "pending" ELSE @]
  IN /\ poll.at = "write"
     /\ CASE poll.found = 0 /\ ~HasRow(i) ->
               /\ row' = [row EXCEPT ![i] = RowOf(Said)]
               /\ Turn([poll EXCEPT !.at = "task"])
          [] poll.found = 0 /\ HasRow(i) -> Turn(IdlePoll) /\ UNCHANGED row
          [] poll.found = Said.version /\ ~reset -> Turn(Further(Rest)) /\ UNCHANGED row
          [] OTHER -> row' = [row EXCEPT ![i] = written] /\ Turn(Further(Rest))
     /\ UNCHANGED <<cursor, faults>>

\* createDefaultTaskForIssue, whose failures are logged and forgotten.
PollTask ==
  /\ poll.at = "task"
  /\ \/ row' = [row EXCEPT ![Said.item].task = TRUE] /\ UNCHANGED faults
     \/ faults > 0 /\ faults' = faults - 1 /\ UNCHANGED row
  /\ Turn(Further(Rest))
  /\ UNCHANGED cursor

\* Mutant: the cursor is the time at which the sync ends.
PollEndNow ==
  /\ poll.at = "end"
  /\ cursor' = clock
  /\ Turn(IdlePoll)
  /\ UNCHANGED <<row, faults>>

\* The timer may have read the projects before the cursor is written.
PollEnd ==
  /\ poll.at = "end"
  /\ cursor' = poll.now
  /\ \/ Turn(IdlePoll)
     \/ Turn([IdlePoll EXCEPT !.at = "timer", !.since = Since(cursor)])
  /\ UNCHANGED <<row, faults>>

Fault == faults > 0 /\ faults' = faults - 1

\* Mutant: a sync that failed moves the cursor too.
PollFailsOnward ==
  /\ poll.at \notin {"idle", "timer"}
  /\ Fault
  /\ Turn(IdlePoll)
  /\ cursor' = poll.now
  /\ UNCHANGED row

\* A call to GitHub or to the database throws.
PollFails ==
  /\ poll.at \notin {"idle", "timer"}
  /\ Fault
  /\ Turn(IdlePoll)
  /\ UNCHANGED <<row, cursor>>

\* The backend restarts: its timer fires at once.
Restart ==
  /\ Fault
  /\ poll' = IdlePoll
  /\ hand' = [h \in Hands |-> IdleHand]
  /\ UNCHANGED <<setup, clock, world, row, recorded, cursor>>

-----------------------------------------------------------------------------
(* The webhook and the import                                               *)

Handles(h, state) == hand' = [hand EXCEPT ![h] = state] /\ UNCHANGED <<setup, clock, poll, cursor, faults>>

\* A delivery arrives, in any order, and looks for the row.
HookFind(h, m) ==
  /\ h \in setup.handlers /\ hand[h].at = "idle"
  /\ mail' = mail \ {m}
  /\ CASE HasRow(m.said.item) ->
            Handles(h, [at |-> "hook", said |-> m.said,
                        reopens |-> m.action = "reopened" /\ row[m.said.item].status = "ended"])
       [] ~HasRow(m.said.item) /\ m.action # "other" ->
            Handles(h, [IdleHand EXCEPT !.at = "create", !.said = m.said])
       [] OTHER -> Handles(h, IdleHand)
  /\ UNCHANGED <<item, changes, row, recorded>>

HookWrite(h) ==
  LET said == hand[h].said
      i == said.item
      written == [row[i] EXCEPT !.version = said.version,
                                !.newest = IF said.version > @ THEN said.version ELSE @,
                                !.status = IF hand[h].reopens THEN "pending" ELSE @]
  IN /\ hand[h].at = "hook"
     /\ row' = [row EXCEPT ![i] = written]
     /\ Handles(h, IdleHand)
     /\ UNCHANGED <<world, recorded>>

\* The row is created, or the unique id has refused a second one: then the webhook
\* takes the first as it is, and the import answers an error.
HandCreate(h) ==
  LET said == hand[h].said
  IN /\ hand[h].at = "create"
     /\ row' = IF HasRow(said.item) THEN row
               ELSE [row EXCEPT ![said.item] = RowOf(said)]
     /\ Handles(h, IdleHand)
     /\ UNCHANGED <<world, recorded>>

\* POST /projects/:id/github/issues/import: getIssue, then the row is looked for.
ImportGet(h, i) ==
  /\ h \in setup.handlers /\ hand[h].at = "idle"
  /\ i \notin setup.pulls /\ Exists(i)
  /\ Handles(h, [IdleHand EXCEPT !.at = "import", !.said = Says(i)])
  /\ UNCHANGED <<world, row, recorded>>

ImportFind(h) ==
  /\ hand[h].at = "import"
  /\ Handles(h, IF HasRow(hand[h].said.item) THEN IdleHand ELSE [hand[h] EXCEPT !.at = "create"])
  /\ UNCHANGED <<world, row, recorded>>

\* The delivery is lost.
LoseMail(m) ==
  /\ mail' = mail \ {m}
  /\ Fault
  /\ UNCHANGED <<setup, clock, item, changes, row, recorded, cursor, poll, hand>>

\* Elsewhere in the backend, the work on an issue ends, and a run gets to know its pull request.
WorkEnds(i) ==
  /\ HasRow(i) /\ row[i].status = "pending"
  /\ changes > 0 /\ changes' = changes - 1
  /\ row' = [row EXCEPT ![i].status = "ended"]
  /\ UNCHANGED <<setup, clock, item, mail, recorded, cursor, poll, hand, faults>>

Recorded(i) ==
  /\ i \in setup.pulls \ recorded /\ Exists(i)
  /\ changes > 0 /\ changes' = changes - 1
  /\ recorded' = recorded \cup {i}
  /\ UNCHANGED <<setup, clock, item, mail, row, cursor, poll, hand, faults>>

-----------------------------------------------------------------------------
Polling == PollTimer \/ PollStart \/ PollList \/ PollFind \/ PollRun \/ PollWrite \/ PollTask \/ PollEnd

Serving(h) == HookWrite(h) \/ HandCreate(h) \/ ImportFind(h)

SyncNext ==
  \/ Tick \/ Polling \/ PollFails \/ Restart
  \/ \E i \in Items : WorkEnds(i) \/ Recorded(i) \/ \E open \in BOOLEAN : Changes(i, open)
  \/ \E h \in Hands : \/ Serving(h)
                      \/ \E m \in mail : HookFind(h, m)
                      \/ \E i \in Items : ImportGet(h, i)
  \/ \E m \in mail : LoseMail(m)

\* The timer of the loop and the handlers go on; nobody owes changes, mail or imports.
SyncSpec == SyncInit /\ [][SyncNext]_syncVars /\ WF_syncVars(Polling)
                     /\ \A h \in Hands : WF_syncVars(Serving(h))

-----------------------------------------------------------------------------
(* Properties                                                               *)

\* Whatever changed before the cursor is not missed, however the pages shift while
\* they are read, syncs fail and GitHub's clock lags within the overlap: the row of
\* such an item says what the item says, unless a delivery that was late has
\* overwritten it (githubPolling.ts:367, 467), and only runs' own pull requests lack one.
CursorCovers ==
  \A i \in Items : Exists(i) /\ item[i].changed < cursor /\ i \notin recorded =>
    HasRow(i) /\ (row[i].version < row[i].newest \/ row[i].version = item[i].version)

\* Every item gets its row, or is found to be a run's own pull request: lost
\* deliveries, restarts, and syncs that throw midway or lose the race to create a row
\* are made up for by a later sync (githubPolling.ts:508).
Imported == \A i \in Items : Exists(i) ~> HasRow(i) \/ i \in recorded
=============================================================================
