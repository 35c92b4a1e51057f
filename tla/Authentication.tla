--------------------------- MODULE Authentication ---------------------------
(***************************************************************************)
(* Who is signed in: the refresh sessions of the backend, the cookies of a *)
(* browser, which its tabs share, and what a tab does with an answer 401.  *)
(* A handler reads a session in one step and revokes and replaces it in    *)
(* later ones; nothing orders the handlers of two requests.  A request is  *)
(* a slot of its tab: what the page sends, what its socket sends after a   *)
(* close with code 1008, and the logout nobody awaits.                     *)
(*                                                                         *)
(* Tokens: a refresh token is the number of its session (0 for none), an   *)
(* access token is good until it expires.  Passwords, signatures and roles *)
(* are left out: a request of somebody unknown changes nothing.            *)
(***************************************************************************)
EXTENDS Naturals, Sequences, FiniteSets

CONSTANTS Users,        \* the names an account can have
          NoUser,       \* no account
          Browsers,     \* each has one jar of cookies and one local storage
          Tabs,
          Home,         \* the browser of each tab
          Consoles,     \* the tabs that show a page with a socket
          MaxSessions,  \* bound: sessions there is room for
          MaxFaults     \* bound: crashes, lost answers, expired sessions

ASSUME HomeAssumption == Home \in [Tabs -> Browsers] /\ Consoles \subseteq Tabs
ASSUME NoUserAssumption == NoUser \notin Users
ASSUME AuthBounds == MaxSessions \in Nat /\ MaxFaults \in Nat

VARIABLES users,        \* the rows User
          sess,         \* the rows RefreshSession, in the order of creation
          jar,          \* the cookies tuixiu_access and tuixiu_refresh of each browser
          stored,       \* the browser's local storage holds a user
          page,         \* AuthProvider and the calls of each tab
          socket,       \* the tab's WebSocket of useWsClient
          srv,          \* each request with its handler
          faults        \* bound: faults so far

vars == <<users, sess, jar, stored, page, socket, srv, faults>>

Slots == Tabs \X {"page", "socket", "logout"}

\* A session: whose it is, the one it replaces (0 for none), and the one its
\* line began with at a login.
Session(u, from, root) ==
  [user |-> u, from |-> from, root |-> root, revoked |-> FALSE, expired |-> FALSE]

Idle == [at |-> "none", kind |-> "refresh", user |-> NoUser, token |-> 0,
         set |-> 0, clear |-> FALSE, ok |-> FALSE]

AuthInit ==
  /\ users \in {{}} \cup {{u} : u \in Users}
  /\ sess = <<>>
  /\ jar = [b \in Browsers |-> [access |-> "none", refresh |-> 0]]
  /\ stored = [b \in Browsers |-> FALSE]
  /\ page = [t \in Tabs |-> [at |-> "off", goal |-> "me", status |-> "loading"]]
  /\ socket = [t \in Tabs |-> "off"]
  /\ srv = [k \in Slots |-> Idle]
  /\ faults = 0

-----------------------------------------------------------------------------
(* What a request carries and where its handler stands                     *)

\* Where a handler may yet create a session.
Starting == {"read", "find", "count", "make", "revoke", "create"}

\* Bound: every handler that may create a session finds room for it.
Room == Len(sess) + Cardinality({k \in Slots : srv[k].at \in Starting})
          < MaxSessions

\* The cookie is the one the jar holds when the request is sent.
Sent(k, kind, u, at) ==
  [Idle EXCEPT !.at = at, !.kind = kind, !.user = u, !.token = jar[Home[k[1]]].refresh]

Send(k, kind, u, at) == srv' = [srv EXCEPT ![k] = Sent(k, kind, u, at)]

Answer(k, ok, set, clear) ==
  srv' = [srv EXCEPT ![k] = [Idle EXCEPT !.at = "answer", !.ok = ok, !.set = set, !.clear = clear]]

Moves(k, at) == srv' = [srv EXCEPT ![k].at = at]

Ends(k) == srv' = [srv EXCEPT ![k] = Idle]

Good(t) == jar[Home[t]].access = "good"

-----------------------------------------------------------------------------
(* The handlers of routes/auth.ts                                          *)

\* No cookie is answered 200 with success FALSE, which a caller that looks at
\* the status takes for a success.  A token that expired is not looked up; a
\* session already revoked means that its token was used before.
RefreshRead(k) ==
  LET n == srv[k].token IN
  /\ srv[k].at = "read"
  /\ \/ n = 0 /\ Answer(k, TRUE, 0, FALSE)
     \/ n > 0 /\ sess[n].expired /\ Answer(k, FALSE, 0, FALSE)
     \/ n > 0 /\ ~sess[n].expired /\ sess[n].revoked /\ Moves(k, "revokeAll")
     \/ /\ n > 0 /\ ~sess[n].expired /\ ~sess[n].revoked
        /\ srv' = [srv EXCEPT ![k].at = "revoke", ![k].user = sess[n].user]
  /\ UNCHANGED <<users, sess, jar, stored, page, socket, faults>>

\* revokeAllForUser, of a reused token and of logout-all.
RevokeAll(k) ==
  /\ srv[k].at = "revokeAll"
  /\ sess' = [i \in DOMAIN sess |->
                IF sess[i].user = sess[srv[k].token].user THEN [sess[i] EXCEPT !.revoked = TRUE] ELSE sess[i]]
  /\ Answer(k, srv[k].kind = "logoutAll", 0, srv[k].kind = "logoutAll")
  /\ UNCHANGED <<users, jar, stored, page, socket, faults>>

\* revokeSession does not look at what it revokes.
Revoke(k) ==
  /\ srv[k].at = "revoke"
  /\ sess' = [sess EXCEPT ![srv[k].token].revoked = TRUE]
  /\ IF srv[k].kind = "refresh" THEN Moves(k, "create") ELSE Answer(k, TRUE, 0, TRUE)
  /\ UNCHANGED <<users, jar, stored, page, socket, faults>>

\* Mutant: rotatedFromId is not unique.
ReplacedNever(n) == n \in {}

\* rotatedFromId is unique: the second session made from one is refused by the
\* database, and the handler throws (500).
Replaced(n) == \E i \in DOMAIN sess : sess[i].from = n

Source(k) == IF srv[k].kind = "refresh" THEN srv[k].token ELSE 0

RootOf(k) == IF Source(k) = 0 THEN Len(sess) + 1 ELSE sess[Source(k)].root

\* createRefreshSession of a refresh, a login and the bootstrap.
CreateSession(k) ==
  /\ srv[k].at = "create"
  /\ IF Source(k) # 0 /\ Replaced(Source(k))
       THEN Answer(k, FALSE, 0, FALSE) /\ UNCHANGED sess
       ELSE /\ sess' = Append(sess, Session(srv[k].user, Source(k), RootOf(k)))
            /\ Answer(k, TRUE, Len(sess) + 1, FALSE)
  /\ UNCHANGED <<users, jar, stored, page, socket, faults>>

\* login: the account is looked up (and its password compared) before the session is made.
LoginRead(k) ==
  /\ srv[k].at = "find"
  /\ IF srv[k].user \in users THEN Moves(k, "create") ELSE Answer(k, TRUE, 0, FALSE)
  /\ UNCHANGED <<users, sess, jar, stored, page, socket, faults>>

\* bootstrap counts the accounts, then makes one: two that overlap both count none, and only
\* the unique name stops the second.
BootstrapCount(k) ==
  /\ srv[k].at = "count"
  /\ IF users = {} THEN Moves(k, "make") ELSE Answer(k, TRUE, 0, FALSE)
  /\ UNCHANGED <<users, sess, jar, stored, page, socket, faults>>

BootstrapMake(k) ==
  /\ srv[k].at = "make"
  /\ IF srv[k].user \in users
       THEN Answer(k, FALSE, 0, FALSE) /\ UNCHANGED users
       ELSE Moves(k, "create") /\ users' = users \cup {srv[k].user}
  /\ UNCHANGED <<sess, jar, stored, page, socket, faults>>

\* logout ends the session of the cookie it came with; both cookies are cleared in any case.
LogoutRead(k) ==
  LET n == srv[k].token IN
  /\ srv[k].at = "look"
  /\ IF n > 0 /\ ~sess[n].revoked THEN Moves(k, "revoke") ELSE Answer(k, TRUE, 0, TRUE)
  /\ UNCHANGED <<users, sess, jar, stored, page, socket, faults>>

\* logout-all takes any refresh token that is genuine, revoked or not.
LogoutAllRead(k) ==
  /\ srv[k].at = "lookAll"
  /\ IF srv[k].token > 0 /\ ~sess[srv[k].token].expired
       THEN Moves(k, "revokeAll") ELSE Answer(k, TRUE, 0, TRUE)
  /\ UNCHANGED <<users, sess, jar, stored, page, socket, faults>>

Handler(k) ==
  \/ RefreshRead(k) \/ RevokeAll(k) \/ Revoke(k) \/ CreateSession(k) \/ LoginRead(k)
  \/ BootstrapCount(k) \/ BootstrapMake(k) \/ LogoutRead(k) \/ LogoutAllRead(k)

-----------------------------------------------------------------------------
(* The tab: AuthProvider, apiRequest and useWsClient                       *)

Page(t, at, goal, status) == page' = [page EXCEPT ![t] = [at |-> at, goal |-> goal, status |-> status]]

\* What the provider or a caller does with the answer it got in the end.
Succeeds(t) ==
  /\ Page(t, "idle", "use", "authenticated")
  /\ stored' = [stored EXCEPT ![Home[t]] = @ \/ page[t].goal # "use"]

\* The provider whose first call fails for want of a login refreshes once more
\* by itself, and asks again whatever that brings.
Fails(t) ==
  \/ /\ page[t].goal = "me"
     /\ Room
     /\ Page(t, "refresh", "own", page[t].status)
     /\ Send(<<t, "page">>, "refresh", NoUser, "read")
     /\ UNCHANGED stored
  \/ /\ page[t].goal = "me2"
     /\ Page(t, "idle", "use", "anonymous")
     /\ stored' = [stored EXCEPT ![Home[t]] = FALSE]
     /\ Ends(<<t, "page">>)
  \/ /\ page[t].goal = "use"
     /\ Page(t, "idle", "use", page[t].status)
     /\ Ends(<<t, "page">>)
     /\ UNCHANGED stored

\* The page is loaded; AuthProvider asks who is signed in.
Open(t) ==
  /\ page[t].at = "off"
  /\ Page(t, "ask", "me", "loading")
  /\ UNCHANGED <<users, sess, jar, stored, socket, srv, faults>>

\* A call of the page to any other route.
Use(t) ==
  /\ page[t].at = "idle" /\ page[t].status = "authenticated"
  /\ Page(t, "ask", "use", "authenticated")
  /\ UNCHANGED <<users, sess, jar, stored, socket, srv, faults>>

\* apiRequest: with a good access token the call is answered; with 401 the page
\* refreshes (its calls share one refresh) ...
Ask(t) ==
  /\ page[t].at = "ask"
  /\ IF Good(t)
       THEN Succeeds(t) /\ UNCHANGED srv
       ELSE /\ Room
            /\ Page(t, "refresh", page[t].goal, page[t].status)
            /\ Send(<<t, "page">>, "refresh", NoUser, "read")
            /\ UNCHANGED stored
  /\ UNCHANGED <<users, sess, jar, socket, faults>>

\* ... and asks a second and last time.
AskAgain(t) ==
  /\ page[t].at = "again"
  /\ IF Good(t) THEN Succeeds(t) /\ UNCHANGED srv ELSE Fails(t)
  /\ UNCHANGED <<users, sess, jar, socket, faults>>

\* Without an answer to its first call the provider believes the storage.
AskFails(t) ==
  /\ page[t].at = "ask" /\ page[t].goal = "me" /\ faults < MaxFaults
  /\ Page(t, "idle", "use", IF stored[Home[t]] THEN "authenticated" ELSE "anonymous")
  /\ faults' = faults + 1
  /\ UNCHANGED <<users, sess, jar, stored, socket, srv>>

SignIn(t) ==
  /\ page[t].at = "idle" /\ page[t].status = "anonymous" /\ Room
  /\ Page(t, "sign", "use", "anonymous")
  /\ \E u \in Users : \/ Send(<<t, "page">>, "login", u, "find")
                    \/ Send(<<t, "page">>, "bootstrap", u, "count")
  /\ UNCHANGED <<users, sess, jar, stored, socket, faults>>

\* The page forgets its user at once, closes its socket, and does not wait for the answer.
Logout(t) ==
  /\ page[t].at = "idle" /\ page[t].status = "authenticated"
  /\ srv[<<t, "logout">>].at = "none"
  /\ \/ Send(<<t, "logout">>, "logout", NoUser, "look")
     \/ Send(<<t, "logout">>, "logoutAll", NoUser, "lookAll")
  /\ Page(t, "idle", "use", "anonymous")
  /\ stored' = [stored EXCEPT ![Home[t]] = FALSE]
  /\ socket' = [socket EXCEPT ![t] = IF @ = "open" THEN "off" ELSE @]
  /\ UNCHANGED <<users, sess, jar, faults>>

\* The server takes a socket with a good access token and closes any other
\* with 1008: the tab refreshes, apart from the refresh of its page, and
\* connects again whatever the answer.
Connect(t) ==
  /\ t \in Consoles /\ socket[t] = "off" /\ page[t].status = "authenticated"
  /\ IF Good(t)
       THEN socket' = [socket EXCEPT ![t] = "open"] /\ UNCHANGED srv
       ELSE /\ Room
            /\ socket' = [socket EXCEPT ![t] = "refresh"]
            /\ Send(<<t, "socket">>, "refresh", NoUser, "read")
  /\ UNCHANGED <<users, sess, jar, stored, page, faults>>

\* An answer arrives: the browser takes its cookies, and who waited goes on.
TakeCookies(k) ==
  LET c == srv[k] IN
  IF c.at # "answer" THEN UNCHANGED jar
  ELSE jar' = [jar EXCEPT ![Home[k[1]]] =
                 IF c.set > 0 THEN [access |-> "good", refresh |-> c.set]
                 ELSE IF c.clear THEN [access |-> "none", refresh |-> 0] ELSE @]

PageAnswered(t, ok) ==
  LET c == srv[<<t, "page">>] IN
  \/ /\ page[t].at = "sign"
     /\ Page(t, "idle", "use", IF ok /\ c.set > 0 THEN "authenticated" ELSE "anonymous")
     /\ stored' = [stored EXCEPT ![Home[t]] = @ \/ (ok /\ c.set > 0)]
     /\ Ends(<<t, "page">>)
  \/ /\ page[t].at = "refresh" /\ page[t].goal = "own"
     /\ Page(t, "ask", "me2", page[t].status)
     /\ Ends(<<t, "page">>)
     /\ UNCHANGED stored
  \/ /\ page[t].at = "refresh" /\ page[t].goal # "own" /\ ok
     /\ Page(t, "again", page[t].goal, page[t].status)
     /\ Ends(<<t, "page">>)
     /\ UNCHANGED stored
  \/ /\ page[t].at = "refresh" /\ page[t].goal # "own" /\ ~ok
     /\ Fails(t)

\* The answer of slot k, or (at = "lost") the error of a connection that broke.
Answered(k) ==
  /\ srv[k].at \in {"answer", "lost"}
  /\ TakeCookies(k)
  /\ \/ /\ k[2] = "page"
        /\ PageAnswered(k[1], srv[k].at = "answer" /\ srv[k].ok)
        /\ UNCHANGED socket
     \/ /\ k[2] = "socket"
        /\ socket' = [socket EXCEPT ![k[1]] = "off"]
        /\ Ends(k)
        /\ UNCHANGED <<page, stored>>
     \/ /\ k[2] = "logout"
        /\ Ends(k)
        /\ UNCHANGED <<page, stored, socket>>
  /\ UNCHANGED <<users, sess, faults>>

-----------------------------------------------------------------------------
(* Time and faults                                                         *)

AccessExpires(b) ==
  /\ jar[b].access = "good"
  /\ jar' = [jar EXCEPT ![b].access = "old"]
  /\ UNCHANGED <<users, sess, stored, page, socket, srv, faults>>

Fault == faults < MaxFaults /\ faults' = faults + 1

SessionExpires(i) ==
  /\ Fault
  /\ ~sess[i].expired
  /\ sess' = [sess EXCEPT ![i].expired = TRUE]
  /\ UNCHANGED <<users, jar, stored, page, socket, srv>>

\* An answer, with its cookies, does not reach the browser.
Lost(k) ==
  /\ Fault
  /\ srv[k].at = "answer"
  /\ srv' = [srv EXCEPT ![k] = [Idle EXCEPT !.at = "lost"]]
  /\ UNCHANGED <<users, sess, jar, stored, page, socket>>

\* The backend stops: handlers end where they are, sockets close.
Crash ==
  /\ Fault
  /\ srv' = [k \in Slots |-> IF srv[k].at = "none" THEN Idle ELSE [Idle EXCEPT !.at = "lost"]]
  /\ socket' = [t \in Tabs |-> IF socket[t] = "open" THEN "off" ELSE socket[t]]
  /\ UNCHANGED <<users, sess, jar, stored, page>>

Next ==
  \/ \E k \in Slots : Handler(k) \/ Answered(k) \/ Lost(k)
  \/ \E t \in Tabs : \/ Open(t) \/ Use(t) \/ Ask(t) \/ AskAgain(t) \/ AskFails(t)
                     \/ SignIn(t) \/ Logout(t) \/ Connect(t)
  \/ \E b \in Browsers : AccessExpires(b)
  \/ \E i \in DOMAIN sess : SessionExpires(i)
  \/ Crash

Spec == AuthInit /\ [][Next]_vars

-----------------------------------------------------------------------------
SessionRows == [user : Users, from : Nat, root : Nat, revoked : BOOLEAN, expired : BOOLEAN]

Cookies == [access : {"none", "good", "old"}, refresh : Nat]

Requests ==
  [at : {"none", "read", "revokeAll", "revoke", "create", "find", "count", "make",
         "look", "lookAll", "answer", "lost"},
   kind : {"refresh", "login", "bootstrap", "logout", "logoutAll"},
   user : Users \cup {NoUser}, token : Nat, set : Nat, clear : BOOLEAN, ok : BOOLEAN]

\* The backend's rows, the cookies and the requests between them.
BackendTypes ==
  /\ users \subseteq Users
  /\ sess \in Seq(SessionRows)
  /\ jar \in [Browsers -> Cookies]
  /\ srv \in [Slots -> Requests]

AuthTypeOK ==
  /\ BackendTypes
  /\ stored \in [Browsers -> BOOLEAN]
  /\ page \in [Tabs -> [at : {"off", "idle", "ask", "refresh", "again", "sign"},
                        goal : {"me", "own", "me2", "use"},
                        status : {"loading", "authenticated", "anonymous"}]]
  /\ socket \in [Tabs -> {"off", "refresh", "open"}]
  /\ faults \in 0 .. MaxFaults

Live(i) == ~sess[i].revoked

\* However the refreshes of a browser's tabs, pages and sockets overlap with each other,
\* with logouts and with crashes, one login leads to at most one session that can still be
\* refreshed: a refresh replaces its session, and a token used twice does not fork the line.
OneSessionPerLogin ==
  \A i, j \in DOMAIN sess : Live(i) /\ Live(j) /\ sess[i].root = sess[j].root => i = j

=============================================================================
