--------------------------- MODULE Frontend_proofs ---------------------------
(***************************************************************************)
(* What a browser relies on.  First its session: one login never leads to  *)
(* two sessions that can both be refreshed, for every number of tabs,      *)
(* browsers, sessions and faults.  The argument does not follow a line of  *)
(* sessions back to its login: of all sessions of one line there is one    *)
(* tip, which no other session replaces, because a session is replaced     *)
(* once; and what is not a tip was revoked before.                         *)
(* Then the Event rows it shows: every update of an agent is in a row or   *)
(* in a known place on its way into one, in order, for every number of     *)
(* streams, updates and failures; and a page that read them in a list      *)
(* under an unbroken socket misses none, and shows none twice.             *)
(***************************************************************************)
EXTENDS Authentication, RunConsole, FiniteSetTheorems, SequenceTheorems, TLAPS

-----------------------------------------------------------------------------
(* Authentication                                                           *)


Tip(s, i) == \A j \in DOMAIN s : s[j].from # i

\* A session begins a line, or stems from an earlier one of its line, revoked first.
Stems(s, i) ==
  \/ s[i].from = 0 /\ s[i].root = i
  \/ /\ s[i].from \in DOMAIN s /\ s[i].from < i /\ s[i].root < i
     /\ s[i].root = s[s[i].from].root /\ s[s[i].from].revoked

Lines(s) ==
  /\ \A i \in DOMAIN s : Stems(s, i)
  /\ \A i, j \in DOMAIN s : s[i].root = s[j].root /\ Tip(s, i) /\ Tip(s, j) => i = j

\* What a handler relies on: the session of its cookie is there, and a refresh
\* that is about to replace a session has revoked it.
Founded(c, s) ==
  /\ c.token <= Len(s) /\ c.set <= Len(s)
  /\ c.at \in {"revoke", "revokeAll"} => c.token > 0
  /\ c.at = "revoke" /\ c.kind = "refresh" => c.user \in Users
  /\ c.at \in {"find", "count", "make", "create"} => c.user \in Users
  /\ c.at = "create" /\ c.kind = "refresh" => c.token > 0 /\ s[c.token].revoked
  /\ c.at \in {"find", "count", "make", "look"} => c.kind # "refresh"

AuthInv ==
  /\ BackendTypes
  /\ Lines(sess)
  /\ \A k \in Slots : Founded(srv[k], sess)
  /\ \A b \in Browsers : jar[b].refresh <= Len(sess)

\* A row does not change its line and is not restored.
Same(a, b) ==
  /\ b.user = a.user /\ b.from = a.from /\ b.root = a.root
  /\ a.revoked => b.revoked

\* Later rows: none is gone.
Later(s, t) == Len(s) <= Len(t) /\ \A i \in DOMAIN s : Same(s[i], t[i])

-----------------------------------------------------------------------------
LEMMA SlotPut ==
  ASSUME NEW T, NEW f \in [Slots -> T], NEW k \in Slots, NEW row \in T
  PROVE  /\ [f EXCEPT ![k] = row] \in [Slots -> T]
         /\ \A j \in Slots : [f EXCEPT ![k] = row][j] = IF j = k THEN row ELSE f[j]
OBVIOUS

\* A session row goes to another.
LEMMA SessionPut ==
  ASSUME sess \in Seq(SessionRows), NEW n \in DOMAIN sess, NEW row \in SessionRows,
         sess' = [sess EXCEPT ![n] = row]
  PROVE  /\ sess' \in Seq(SessionRows) /\ Len(sess') = Len(sess)
         /\ \A i \in DOMAIN sess : sess'[i] = IF i = n THEN row ELSE sess[i]
<1>1. n \in 1 .. Len(sess) /\ DOMAIN sess = 1 .. Len(sess)
  OBVIOUS
<1>2. QED
  BY <1>1, ExceptSeq

\* Revoking or expiring sessions keeps the lines.
LEMMA LinesAge ==
  ASSUME NEW s \in Seq(SessionRows), NEW t \in Seq(SessionRows), Lines(s), Later(s, t), Len(t) = Len(s)
  PROVE  Lines(t)
<1>1. DOMAIN t = DOMAIN s
  OBVIOUS
<1>2. \A i \in DOMAIN s : Tip(t, i) => Tip(s, i)
  BY <1>1 DEF Tip, Later, Same
<1>3. ASSUME NEW i \in DOMAIN t PROVE Stems(t, i)
  BY <1>1 DEF Lines, Stems, Later, Same
<1>4. ASSUME NEW i \in DOMAIN t, NEW j \in DOMAIN t, t[i].root = t[j].root, Tip(t, i), Tip(t, j)
      PROVE  i = j
  BY <1>1, <1>2, <1>4 DEF Lines, Later, Same
<1>5. QED
  BY <1>3, <1>4 DEF Lines

\* A new session, of a login or in the place of a tip that was revoked, keeps them.
LEMMA LinesGrow ==
  ASSUME NEW s \in Seq(SessionRows), NEW row \in SessionRows, Lines(s),
         \/ row.from = 0 /\ row.root = Len(s) + 1
         \/ /\ row.from \in DOMAIN s /\ Tip(s, row.from) /\ s[row.from].revoked
            /\ row.root = s[row.from].root
  PROVE  Append(s, row) \in Seq(SessionRows) /\ Later(s, Append(s, row)) /\ Lines(Append(s, row))
<1> DEFINE t == Append(s, row)
           n == Len(s) + 1
<1>1. /\ t \in Seq(SessionRows) /\ Len(t) = n /\ DOMAIN s = 1 .. Len(s) /\ DOMAIN t = 1 .. n
      /\ Len(s) \in Nat /\ \A i \in DOMAIN s : t[i] = s[i]
  OBVIOUS
<1>2. t[n] = row /\ n \in DOMAIN t /\ \A i \in DOMAIN t : i \in DOMAIN s \/ i = n
  BY <1>1
<1> HIDE DEF t
<1>3. Later(s, t)
  BY <1>1 DEF Later, Same
<1>4. \A i \in DOMAIN s : s[i].root <= i /\ s[i].from < i /\ s[i] \in SessionRows
  <2> TAKE i \in DOMAIN s
  <2>1. Stems(s, i) /\ i \in Nat /\ i > 0 /\ s[i] \in SessionRows
    BY <1>1 DEF Lines
  <2>2. QED
    BY <2>1 DEF Stems, SessionRows
<1>5. \A i \in DOMAIN s : Tip(t, i) => Tip(s, i) /\ row.from # i
  BY <1>1, <1>2 DEF Tip
<1>6. ASSUME NEW i \in DOMAIN t PROVE Stems(t, i)
  <2>1. CASE i \in DOMAIN s
    <3>1. Stems(s, i)
      BY <2>1 DEF Lines
    <3>2. QED
      BY <1>1, <2>1, <3>1 DEF Stems
  <2>2. CASE i = n
    <3>1. CASE row.from = 0 /\ row.root = n
      BY <1>2, <2>2, <3>1 DEF Stems
    <3>2. CASE row.from \in DOMAIN s /\ s[row.from].revoked /\ row.root = s[row.from].root
      <4>0. row.from \in Nat /\ row.from <= Len(s) /\ n = Len(s) + 1
        BY <1>1, <3>2
      <4>a. s[row.from].root <= row.from /\ s[row.from].root \in Nat
        BY <1>4, <3>2 DEF SessionRows
      <4>1. row.from < n /\ row.root < n
        BY <1>1, <3>2, <4>0, <4>a
      <4>2. QED
        BY <1>1, <1>2, <2>2, <3>2, <4>1 DEF Stems
    <3>3. QED
      BY <3>1, <3>2
  <2>3. QED
    BY <1>2, <2>1, <2>2
<1>7. \A i \in DOMAIN s : Tip(t, i) => s[i].root # row.root
  <2>1. SUFFICES ASSUME NEW i \in DOMAIN s, Tip(t, i), s[i].root = row.root PROVE FALSE
    OBVIOUS
  <2>2. CASE row.from = 0 /\ row.root = n
    BY <1>1, <1>4, <2>1, <2>2 DEF SessionRows
  <2>3. CASE row.from \in DOMAIN s /\ Tip(s, row.from) /\ row.root = s[row.from].root
    BY <1>5, <2>1, <2>3 DEF Lines
  <2>4. QED
    BY <2>2, <2>3
<1>8. ASSUME NEW i \in DOMAIN t, NEW j \in DOMAIN t, t[i].root = t[j].root, Tip(t, i), Tip(t, j)
      PROVE  i = j
  <2>1. CASE i \in DOMAIN s /\ j \in DOMAIN s
    BY <1>1, <1>5, <1>8, <2>1 DEF Lines
  <2>2. CASE i \notin DOMAIN s \/ j \notin DOMAIN s
    BY <1>1, <1>2, <1>7, <1>8, <2>2
  <2>3. QED
    BY <2>1, <2>2
<1>9. QED
  BY <1>1, <1>3, <1>6, <1>8 DEF Lines, t

\* What a handler relies on stays true of later rows.
LEMMA StillFounded ==
  ASSUME NEW s \in Seq(SessionRows), NEW t \in Seq(SessionRows), Later(s, t),
         NEW c \in Requests, Founded(c, s)
  PROVE  Founded(c, t)
<1>1. Len(s) \in Nat /\ Len(t) \in Nat /\ c.token \in Nat /\ c.set \in Nat /\ DOMAIN s = 1 .. Len(s)
  BY DEF Requests
<1>2. c.token > 0 => c.token \in DOMAIN s
  BY <1>1 DEF Founded
<1>3. QED
  BY <1>1, <1>2 DEF Founded, Later, Same

LEMMA SameLater == ASSUME NEW s \in Seq(SessionRows) PROVE Later(s, s)
BY DEF Later, Same

\* One request goes on, rows become later ones, cookies are of sessions that are there.
LEMMA Kept ==
  ASSUME AuthInv, users' \subseteq Users, sess' \in Seq(SessionRows), Later(sess, sess'), Lines(sess'),
         jar' \in [Browsers -> Cookies], \A b \in Browsers : jar'[b].refresh <= Len(sess'),
         NEW k \in Slots, NEW row \in Requests, Founded(row, sess'), srv' = [srv EXCEPT ![k] = row]
  PROVE  AuthInv'
<1>1. srv' \in [Slots -> Requests] /\ \A j \in Slots : srv'[j] = IF j = k THEN row ELSE srv[j]
  BY SlotPut DEF AuthInv, BackendTypes
<1>2. \A j \in Slots : Founded(srv[j], sess) /\ srv[j] \in Requests /\ sess \in Seq(SessionRows)
  BY DEF AuthInv, BackendTypes
<1>3. \A j \in Slots : Founded(srv[j], sess')
  BY <1>2, StillFounded
<1>4. \A j \in Slots : Founded(srv'[j], sess')
  BY <1>1, <1>3
<1>5. QED
  BY <1>1, <1>4 DEF AuthInv, BackendTypes

\* The same where rows and cookies stay.
LEMMA OnlyRequest ==
  ASSUME AuthInv, users' \subseteq Users, sess' = sess, jar' = jar,
         NEW k \in Slots, NEW row \in Requests, Founded(row, sess), srv' = [srv EXCEPT ![k] = row]
  PROVE  AuthInv'
<1>1. sess' \in Seq(SessionRows) /\ Later(sess, sess') /\ Lines(sess')
  BY SameLater DEF AuthInv, BackendTypes
<1>2. jar' \in [Browsers -> Cookies] /\ \A b \in Browsers : jar'[b].refresh <= Len(sess')
  BY DEF AuthInv, BackendTypes
<1>3. QED
  BY <1>1, <1>2, Kept

\* Nothing the invariant speaks of changes.
LEMMA NothingMoves ==
  ASSUME AuthInv, users' = users, sess' = sess, jar' = jar, srv' = srv
  PROVE  AuthInv'
BY DEF AuthInv, BackendTypes

LEMMA SlotsOf == \A t \in Tabs : <<t, "page">> \in Slots /\ <<t, "socket">> \in Slots /\ <<t, "logout">> \in Slots
BY DEF Slots

LEMMA HomeOf == \A k \in Slots : Home[k[1]] \in Browsers
BY HomeAssumption DEF Slots

-----------------------------------------------------------------------------
(* What a request becomes                                                  *)

LEMMA Answers ==
  ASSUME AuthInv, users' \subseteq Users, sess' \in Seq(SessionRows), Later(sess, sess'), Lines(sess'),
         jar' = jar, NEW k \in Slots, NEW ok \in BOOLEAN, NEW m \in Nat, NEW clear \in BOOLEAN,
         m <= Len(sess'), Answer(k, ok, m, clear)
  PROVE  AuthInv'
<1> DEFINE row == [Idle EXCEPT !.at = "answer", !.ok = ok, !.set = m, !.clear = clear]
<1>1. row \in Requests /\ Founded(row, sess')
  <2>1. Len(sess') \in Nat
    OBVIOUS
  <2>2. Idle \in Requests
    BY DEF Idle, Requests
  <2>3. row \in Requests
    BY <2>2 DEF Requests
  <2>4. row.at = "answer" /\ row.token = 0 /\ row.set = m
    BY DEF Idle
  <2> HIDE DEF row
  <2>5. QED
    BY <2>1, <2>3, <2>4 DEF Founded
<1>2. srv' = [srv EXCEPT ![k] = row]
  BY DEF Answer
<1>3. jar' \in [Browsers -> Cookies] /\ \A b \in Browsers : jar'[b].refresh <= Len(sess')
  <2>1. Len(sess) \in Nat /\ Len(sess') \in Nat /\ Len(sess) <= Len(sess')
    BY DEF AuthInv, BackendTypes, Later
  <2>2. jar \in [Browsers -> Cookies] /\ \A b \in Browsers : jar[b].refresh <= Len(sess) /\ jar[b].refresh \in Nat
    BY DEF AuthInv, BackendTypes, Cookies
  <2>3. QED
    BY <2>1, <2>2
<1> HIDE DEF row
<1>4. QED
  BY <1>1, <1>2, <1>3, Kept

LEMMA JustAnswers ==
  ASSUME AuthInv, users' \subseteq Users, sess' = sess, jar' = jar,
         NEW k \in Slots, NEW ok \in BOOLEAN, NEW clear \in BOOLEAN, Answer(k, ok, 0, clear)
  PROVE  AuthInv'
<1>1. sess' \in Seq(SessionRows) /\ Later(sess, sess') /\ Lines(sess') /\ 0 <= Len(sess')
  BY SameLater DEF AuthInv, BackendTypes
<1>2. QED
  BY <1>1, Answers

LEMMA IsEnded ==
  ASSUME AuthInv, users' \subseteq Users, sess' = sess, jar' = jar, NEW k \in Slots, Ends(k)
  PROVE  AuthInv'
<1>1. Idle \in Requests /\ Founded(Idle, sess)
  BY DEF Requests, Founded, Idle, AuthInv, BackendTypes
<1>2. QED
  BY <1>1, OnlyRequest DEF Ends

LEMMA SentBesides ==
  ASSUME AuthInv, users' = users, sess' = sess, NEW k \in Slots,
         jar' \in [Browsers -> Cookies], \A b \in Browsers : jar'[b].refresh <= Len(sess),
         NEW kind, NEW u, NEW at, Send(k, kind, u, at),
         \/ kind = "refresh" /\ u = NoUser /\ at = "read"
         \/ kind = "login" /\ u \in Users /\ at = "find"
         \/ kind = "bootstrap" /\ u \in Users /\ at = "count"
         \/ kind = "logout" /\ u = NoUser /\ at = "look"
         \/ kind = "logoutAll" /\ u = NoUser /\ at = "lookAll"
  PROVE  AuthInv'
<1> DEFINE row == Sent(k, kind, u, at)
           n == jar[Home[k[1]]].refresh
<1>1. n \in Nat /\ n <= Len(sess)
  BY HomeOf DEF AuthInv, BackendTypes, Cookies
<1> HIDE DEF n
<1>2. row = [Idle EXCEPT !.at = at, !.kind = kind, !.user = u, !.token = n]
  BY DEF Sent, n
<1>3. row \in Requests /\ Founded(row, sess)
  <2>1. Len(sess) \in Nat
    BY DEF AuthInv, BackendTypes
  <2>2. /\ row.at = at /\ row.kind = kind /\ row.user = u /\ row.token = n
        /\ row.set = 0 /\ row.clear = FALSE /\ row.ok = FALSE
        /\ row = [at |-> at, kind |-> kind, user |-> u, token |-> n, set |-> 0, clear |-> FALSE, ok |-> FALSE]
    BY <1>2 DEF Idle
  <2>3. row \in Requests
    BY <1>1, <2>2 DEF Requests
  <2>4. QED
    BY <1>1, <2>1, <2>2, <2>3 DEF Founded
<1>4. srv' = [srv EXCEPT ![k] = row]
  BY DEF Send
<1>5. users' \subseteq Users /\ sess' \in Seq(SessionRows) /\ Later(sess, sess') /\ Lines(sess')
  BY SameLater DEF AuthInv, BackendTypes
<1> HIDE DEF row
<1>6. QED
  BY <1>3, <1>4, <1>5, Kept

LEMMA IsSent ==
  ASSUME AuthInv, users' = users, sess' = sess, jar' = jar, NEW k \in Slots,
         NEW kind, NEW u, NEW at, Send(k, kind, u, at),
         \/ kind = "refresh" /\ u = NoUser /\ at = "read"
         \/ kind = "login" /\ u \in Users /\ at = "find"
         \/ kind = "bootstrap" /\ u \in Users /\ at = "count"
         \/ kind = "logout" /\ u = NoUser /\ at = "look"
         \/ kind = "logoutAll" /\ u = NoUser /\ at = "lookAll"
  PROVE  AuthInv'
<1>1. jar' \in [Browsers -> Cookies] /\ \A b \in Browsers : jar'[b].refresh <= Len(sess)
  BY DEF AuthInv, BackendTypes
<1>2. QED
  BY <1>1, SentBesides

LEMMA IsMoved ==
  ASSUME AuthInv, users' \subseteq Users, sess' = sess, jar' = jar, NEW k \in Slots, NEW at, Moves(k, at),
         \/ at = "revokeAll" /\ srv[k].token > 0
         \/ at = "revoke" /\ srv[k].token > 0 /\ srv[k].kind # "refresh"
         \/ at = "create" /\ srv[k].user \in Users /\ srv[k].kind # "refresh"
         \/ at = "make" /\ srv[k].user \in Users /\ srv[k].kind # "refresh"
  PROVE  AuthInv'
<1> DEFINE row == [srv[k] EXCEPT !.at = at]
<1>1. srv[k] \in Requests /\ Founded(srv[k], sess)
  BY DEF AuthInv, BackendTypes
<1>2. row \in Requests /\ row.at = at /\ row.token = srv[k].token /\ row.set = srv[k].set
      /\ row.kind = srv[k].kind /\ row.user = srv[k].user
  BY <1>1 DEF Requests
<1>3. Founded(row, sess)
  BY <1>1, <1>2 DEF Founded
<1>4. srv' = [srv EXCEPT ![k] = row]
  BY DEF Moves
<1> HIDE DEF row
<1>5. QED
  BY <1>2, <1>3, <1>4, OnlyRequest

-----------------------------------------------------------------------------
(* The handlers                                                            *)

LEMMA UsersStay == AuthInv => users \subseteq Users
BY DEF AuthInv, BackendTypes

LEMMA Row ==
  ASSUME AuthInv, NEW k \in Slots
  PROVE  srv[k] \in Requests /\ Founded(srv[k], sess) /\ Len(sess) \in Nat
         /\ (srv[k].token > 0 => srv[k].token \in DOMAIN sess /\ sess[srv[k].token] \in SessionRows)
BY DEF AuthInv, BackendTypes, Requests, Founded

LEMMA RefreshReadKeeps == ASSUME AuthInv, NEW k \in Slots, RefreshRead(k) PROVE AuthInv'
<1> DEFINE n == srv[k].token
<1>1. srv[k] \in Requests /\ Founded(srv[k], sess) /\ n \in Nat
      /\ (n > 0 => n \in DOMAIN sess /\ sess[n] \in SessionRows)
  BY Row DEF Requests
<1>2. users' \subseteq Users /\ sess' = sess /\ jar' = jar
  BY UsersStay DEF RefreshRead
<1>3. CASE Answer(k, TRUE, 0, FALSE)
  BY <1>2, <1>3, JustAnswers
<1>4. CASE Answer(k, FALSE, 0, FALSE)
  BY <1>2, <1>4, JustAnswers
<1>5. CASE n > 0 /\ Moves(k, "revokeAll")
  BY <1>2, <1>5, IsMoved
<1>6. CASE n > 0 /\ srv' = [srv EXCEPT ![k].at = "revoke", ![k].user = sess[n].user]
  <2> DEFINE row == [srv[k] EXCEPT !.at = "revoke", !.user = sess[n].user]
  <2>1. sess[n].user \in Users
    BY <1>1, <1>6 DEF SessionRows
  <2>2. row \in Requests /\ row.at = "revoke" /\ row.token = n /\ row.set = srv[k].set
        /\ row.kind = srv[k].kind /\ row.user = sess[n].user
    BY <1>1, <2>1 DEF Requests
  <2>3. Founded(row, sess)
    BY <1>1, <1>6, <2>1, <2>2 DEF Founded
  <2>4. srv' = [srv EXCEPT ![k] = row]
    BY <1>6
  <2> HIDE DEF row
  <2>5. QED
    BY <1>2, <2>2, <2>3, <2>4, OnlyRequest
<1>7. QED
  BY <1>3, <1>4, <1>5, <1>6 DEF RefreshRead

LEMMA RevokeAllKeeps == ASSUME AuthInv, NEW k \in Slots, RevokeAll(k) PROVE AuthInv'
<1>1. sess \in Seq(SessionRows) /\ Lines(sess)
  BY DEF AuthInv, BackendTypes
<1>2. ASSUME NEW i \in DOMAIN sess
      PROVE  /\ sess[i] \in SessionRows /\ [sess[i] EXCEPT !.revoked = TRUE] \in SessionRows
             /\ Same(sess[i], sess[i]) /\ Same(sess[i], [sess[i] EXCEPT !.revoked = TRUE])
  <2>1. sess[i] \in SessionRows
    BY <1>1
  <2>2. QED
    BY <2>1 DEF SessionRows, Same
<1>3. /\ DOMAIN sess' = DOMAIN sess
      /\ \A i \in DOMAIN sess : sess'[i] = sess[i] \/ sess'[i] = [sess[i] EXCEPT !.revoked = TRUE]
  BY DEF RevokeAll
<1>4. sess' \in Seq(SessionRows) /\ Len(sess') = Len(sess)
  <2>1. sess' = [i \in 1 .. Len(sess) |-> sess'[i]]
    BY <1>1, <1>3 DEF RevokeAll
  <2>2. \A i \in 1 .. Len(sess) : sess'[i] \in SessionRows
    BY <1>1, <1>2, <1>3
  <2>3. QED
    BY <1>1, <2>1, <2>2
<1>5. Later(sess, sess')
  <2>1. \A i \in DOMAIN sess : Same(sess[i], sess'[i])
    BY <1>2, <1>3
  <2>2. Len(sess) <= Len(sess')
    BY <1>1, <1>4
  <2>3. QED
    BY <2>1, <2>2 DEF Later
<1>6. Lines(sess')
  BY <1>1, <1>4, <1>5, LinesAge
<1>7. users' \subseteq Users /\ jar' = jar /\ 0 <= Len(sess')
  BY <1>4, UsersStay DEF RevokeAll
<1>8. Answer(k, srv[k].kind = "logoutAll", 0, srv[k].kind = "logoutAll")
  BY DEF RevokeAll
<1>9. QED
  BY <1>4, <1>5, <1>6, <1>7, <1>8, Answers

LEMMA RevokedOne ==
  ASSUME AuthInv, NEW n \in DOMAIN sess, sess' = [sess EXCEPT ![n].revoked = TRUE]
  PROVE  /\ sess' \in Seq(SessionRows) /\ Later(sess, sess') /\ Lines(sess') /\ Len(sess') = Len(sess)
         /\ sess'[n].revoked
<1> DEFINE row == [sess[n] EXCEPT !.revoked = TRUE]
<1>1. sess \in Seq(SessionRows) /\ Lines(sess) /\ sess[n] \in SessionRows
  BY DEF AuthInv, BackendTypes
<1>2. row \in SessionRows /\ row.user = sess[n].user /\ row.from = sess[n].from /\ row.root = sess[n].root
      /\ row.revoked = TRUE
  BY <1>1 DEF SessionRows
<1>r. Same(sess[n], row) /\ \A i \in DOMAIN sess : Same(sess[i], sess[i])
  BY <1>2 DEF Same
<1>3. sess' = [sess EXCEPT ![n] = row]
  OBVIOUS
<1> HIDE DEF row
<1>4. sess' \in Seq(SessionRows) /\ Len(sess') = Len(sess)
      /\ \A i \in DOMAIN sess : sess'[i] = IF i = n THEN row ELSE sess[i]
  BY <1>1, <1>2, <1>3, SessionPut
<1>5. Later(sess, sess')
  <2>1. \A i \in DOMAIN sess : Same(sess[i], sess'[i])
    BY <1>r, <1>4
  <2>2. Len(sess) <= Len(sess')
    BY <1>1, <1>4
  <2>3. QED
    BY <2>1, <2>2 DEF Later
<1>6. QED
  BY <1>1, <1>2, <1>4, <1>5, LinesAge

LEMMA RevokeKeeps == ASSUME AuthInv, NEW k \in Slots, Revoke(k) PROVE AuthInv'
<1> DEFINE n == srv[k].token
<1>1. srv[k] \in Requests /\ Founded(srv[k], sess) /\ n \in DOMAIN sess
  BY Row DEF Revoke, Founded
<1>2. sess' = [sess EXCEPT ![n].revoked = TRUE]
  BY DEF Revoke
<1>3. sess' \in Seq(SessionRows) /\ Later(sess, sess') /\ Lines(sess') /\ Len(sess') = Len(sess)
      /\ sess'[n].revoked
  BY <1>1, <1>2, RevokedOne
<1>4. users' \subseteq Users /\ jar' = jar
  BY UsersStay DEF Revoke
<1>5. CASE Answer(k, TRUE, 0, TRUE)
  <2>1. 0 <= Len(sess')
    BY <1>3
  <2>2. QED
    BY <1>3, <1>4, <1>5, <2>1, Answers
<1>6. CASE srv[k].kind = "refresh" /\ Moves(k, "create")
  <2> DEFINE row == [srv[k] EXCEPT !.at = "create"]
  <2>1. row \in Requests /\ row.at = "create" /\ row.token = n /\ row.set = srv[k].set
        /\ row.kind = srv[k].kind /\ row.user = srv[k].user
    BY <1>1 DEF Requests
  <2>2. Founded(row, sess')
    BY <1>1, <1>3, <1>6, <2>1 DEF Founded, Revoke
  <2>3. srv' = [srv EXCEPT ![k] = row]
    BY <1>6 DEF Moves
  <2>4. jar' \in [Browsers -> Cookies] /\ \A b \in Browsers : jar'[b].refresh <= Len(sess')
    BY <1>3, <1>4 DEF AuthInv, BackendTypes
  <2> HIDE DEF row
  <2>5. QED
    BY <1>3, <1>4, <2>1, <2>2, <2>3, <2>4, Kept
<1>7. QED
  BY <1>5, <1>6 DEF Revoke

LEMMA CreateKeeps == ASSUME AuthInv, NEW k \in Slots, CreateSession(k) PROVE AuthInv'
<1> DEFINE n == Source(k)
           row == Session(srv[k].user, n, RootOf(k))
<1>1. srv[k] \in Requests /\ Founded(srv[k], sess) /\ Len(sess) \in Nat /\ srv[k].at = "create"
      /\ srv[k].user \in Users
  BY Row DEF CreateSession, Founded
<1>2. users' \subseteq Users /\ jar' = jar
  BY UsersStay DEF CreateSession
<1>3. CASE Answer(k, FALSE, 0, FALSE) /\ sess' = sess
  BY <1>2, <1>3, JustAnswers
<1>4. CASE /\ ~(n # 0 /\ Replaced(n))
           /\ sess' = Append(sess, row)
           /\ Answer(k, TRUE, Len(sess) + 1, FALSE)
  <2>1. \/ n = 0 /\ RootOf(k) = Len(sess) + 1
        \/ n \in DOMAIN sess /\ Tip(sess, n) /\ sess[n].revoked /\ RootOf(k) = sess[n].root
    <3>1. CASE srv[k].kind = "refresh"
      BY <1>1, <1>4, <3>1, Row DEF Founded, Source, RootOf, Replaced, Tip
    <3>2. CASE srv[k].kind # "refresh"
      BY <3>2 DEF Source, RootOf
    <3>3. QED
      BY <3>1, <3>2
  <2>2. n \in Nat /\ RootOf(k) \in Nat
    <3>1. \A i \in DOMAIN sess : i \in Nat /\ sess[i].root \in Nat
      <4>1. sess \in Seq(SessionRows)
        BY DEF AuthInv, BackendTypes
      <4>2. \A i \in DOMAIN sess : i \in Nat /\ sess[i] \in SessionRows
        BY <4>1
      <4>3. QED
        BY <4>2 DEF SessionRows
    <3>2. Len(sess) + 1 \in Nat
      BY <1>1
    <3> HIDE DEF n
    <3>3. QED
      BY <2>1, <3>1, <3>2
  <2>3. row \in SessionRows /\ row.from = n /\ row.root = RootOf(k)
    BY <1>1, <2>2 DEF Session, SessionRows
  <2> HIDE DEF row, n
  <2>4. sess \in Seq(SessionRows) /\ Lines(sess)
    BY DEF AuthInv, BackendTypes
  <2>5. sess' \in Seq(SessionRows) /\ Later(sess, sess') /\ Lines(sess')
    BY <1>4, <2>1, <2>3, <2>4, LinesGrow
  <2>6. Len(sess) + 1 \in Nat /\ Len(sess) + 1 <= Len(sess')
    BY <1>1, <1>4, <2>4
  <2>7. QED
    BY <1>2, <1>4, <2>5, <2>6, Answers
<1>5. QED
  BY <1>3, <1>4 DEF CreateSession

LEMMA HandlerKeeps == ASSUME AuthInv, NEW k \in Slots, Handler(k) PROVE AuthInv'
<1>1. srv[k] \in Requests /\ Founded(srv[k], sess)
  BY Row
<1>2. CASE LoginRead(k)
  <2>1. users' \subseteq Users /\ sess' = sess /\ jar' = jar
    BY <1>2, UsersStay DEF LoginRead
  <2>2. srv[k].user \in Users /\ srv[k].kind # "refresh"
    BY <1>1, <1>2 DEF LoginRead, Founded
  <2>3. QED
    BY <1>2, <2>1, <2>2, IsMoved, JustAnswers DEF LoginRead
<1>3. CASE BootstrapCount(k)
  <2>1. users' \subseteq Users /\ sess' = sess /\ jar' = jar
    BY <1>3, UsersStay DEF BootstrapCount
  <2>2. srv[k].user \in Users /\ srv[k].kind # "refresh"
    BY <1>1, <1>3 DEF BootstrapCount, Founded
  <2>3. QED
    BY <1>3, <2>1, <2>2, IsMoved, JustAnswers DEF BootstrapCount
<1>4. CASE BootstrapMake(k)
  <2>1. srv[k].user \in Users /\ srv[k].kind # "refresh"
    BY <1>1, <1>4 DEF BootstrapMake, Founded
  <2>2. users' \subseteq Users /\ sess' = sess /\ jar' = jar
    BY <1>4, <2>1, UsersStay DEF BootstrapMake
  <2>3. QED
    BY <1>4, <2>1, <2>2, IsMoved, JustAnswers DEF BootstrapMake
<1>5. CASE LogoutRead(k)
  <2>1. users' \subseteq Users /\ sess' = sess /\ jar' = jar
    BY <1>5, UsersStay DEF LogoutRead
  <2>2. srv[k].kind # "refresh"
    BY <1>1, <1>5 DEF LogoutRead, Founded
  <2>3. QED
    BY <1>5, <2>1, <2>2, IsMoved, JustAnswers DEF LogoutRead
<1>6. CASE LogoutAllRead(k)
  <2>1. users' \subseteq Users /\ sess' = sess /\ jar' = jar
    BY <1>6, UsersStay DEF LogoutAllRead
  <2>2. QED
    BY <1>6, <2>1, IsMoved, JustAnswers DEF LogoutAllRead
<1>7. QED
  BY <1>2, <1>3, <1>4, <1>5, <1>6, RefreshReadKeeps, RevokeAllKeeps, RevokeKeeps, CreateKeeps DEF Handler

-----------------------------------------------------------------------------
(* The tabs, time and faults                                               *)

LEMMA FailsKeeps ==
  ASSUME AuthInv, NEW t \in Tabs, Fails(t), users' = users, sess' = sess, jar' = jar
  PROVE  AuthInv'
<1>1. users' \subseteq Users /\ <<t, "page">> \in Slots
  BY UsersStay, SlotsOf
<1>2. CASE Send(<<t, "page">>, "refresh", NoUser, "read")
  BY <1>1, <1>2, IsSent
<1>3. CASE Ends(<<t, "page">>)
  BY <1>1, <1>3, IsEnded
<1>4. QED
  BY <1>2, <1>3 DEF Fails

LEMMA TabKeeps ==
  ASSUME AuthInv, NEW t \in Tabs,
         Open(t) \/ Use(t) \/ Ask(t) \/ AskAgain(t) \/ AskFails(t) \/ SignIn(t) \/ Logout(t) \/ Connect(t)
  PROVE  AuthInv'
<1>1. <<t, "page">> \in Slots /\ <<t, "socket">> \in Slots /\ <<t, "logout">> \in Slots
  BY SlotsOf
<1>2. CASE Open(t) \/ Use(t) \/ AskFails(t)
  BY <1>2, NothingMoves DEF Open, Use, AskFails
<1>3. CASE Ask(t)
  <2>1. users' = users /\ sess' = sess /\ jar' = jar
    BY <1>3 DEF Ask
  <2>2. QED
    BY <1>1, <1>3, <2>1, NothingMoves, IsSent DEF Ask
<1>4. CASE AskAgain(t)
  <2>1. users' = users /\ sess' = sess /\ jar' = jar
    BY <1>4 DEF AskAgain
  <2>2. QED
    BY <1>4, <2>1, NothingMoves, FailsKeeps DEF AskAgain
<1>5. CASE SignIn(t)
  <2>1. users' = users /\ sess' = sess /\ jar' = jar
    BY <1>5 DEF SignIn
  <2>2. PICK u \in Users : \/ Send(<<t, "page">>, "login", u, "find")
                          \/ Send(<<t, "page">>, "bootstrap", u, "count")
    BY <1>5 DEF SignIn
  <2>3. QED
    BY <1>1, <2>1, <2>2, IsSent
<1>6. CASE Logout(t)
  <2>1. users' = users /\ sess' = sess /\ jar' = jar
    BY <1>6 DEF Logout
  <2>2. QED
    BY <1>1, <1>6, <2>1, IsSent DEF Logout
<1>7. CASE Connect(t)
  <2>1. users' = users /\ sess' = sess /\ jar' = jar
    BY <1>7 DEF Connect
  <2>2. QED
    BY <1>1, <1>7, <2>1, NothingMoves, IsSent DEF Connect
<1>8. QED
  BY <1>2, <1>3, <1>4, <1>5, <1>6, <1>7

\* The cookies that arrive are of a session that is there.
LEMMA CookiesKept ==
  ASSUME AuthInv, NEW k \in Slots, TakeCookies(k)
  PROVE  jar' \in [Browsers -> Cookies] /\ \A b \in Browsers : jar'[b].refresh <= Len(sess)
<1>1. /\ jar \in [Browsers -> Cookies] /\ \A b \in Browsers : jar[b].refresh <= Len(sess)
      /\ Home[k[1]] \in Browsers /\ Len(sess) \in Nat
      /\ srv[k].set \in Nat /\ srv[k].set <= Len(sess)
  BY Row, HomeOf DEF AuthInv, BackendTypes, Requests, Founded
<1>2. CASE jar' = jar
  BY <1>1, <1>2
<1>3. ASSUME NEW c \in Cookies, jar' = [jar EXCEPT ![Home[k[1]]] = c], c.refresh <= Len(sess)
      PROVE  jar' \in [Browsers -> Cookies] /\ \A b \in Browsers : jar'[b].refresh <= Len(sess)
  BY <1>1, <1>3
<1>4. [access |-> "good", refresh |-> srv[k].set] \in Cookies /\ [access |-> "none", refresh |-> 0] \in Cookies
  BY <1>1 DEF Cookies
<1>5. \/ jar' = jar
      \/ jar' = [jar EXCEPT ![Home[k[1]]] = [access |-> "good", refresh |-> srv[k].set]]
      \/ jar' = [jar EXCEPT ![Home[k[1]]] = [access |-> "none", refresh |-> 0]]
      \/ jar' = [jar EXCEPT ![Home[k[1]]] = jar[Home[k[1]]]]
  BY DEF TakeCookies
<1>6. jar[Home[k[1]]] \in Cookies /\ jar[Home[k[1]]].refresh <= Len(sess)
  BY <1>1
<1>7. QED
  BY <1>1, <1>2, <1>3, <1>4, <1>5, <1>6

LEMMA AnsweredKeeps == ASSUME AuthInv, NEW k \in Slots, Answered(k) PROVE AuthInv'
<1>1. users' = users /\ sess' = sess /\ TakeCookies(k)
  BY DEF Answered
<1>2. jar' \in [Browsers -> Cookies] /\ \A b \in Browsers : jar'[b].refresh <= Len(sess')
  BY <1>1, CookiesKept
<1>3. sess' \in Seq(SessionRows) /\ Later(sess, sess') /\ Lines(sess') /\ users' \subseteq Users
  BY <1>1, SameLater DEF AuthInv, BackendTypes
<1>4. Idle \in Requests /\ Founded(Idle, sess')
  BY <1>1 DEF Requests, Founded, Idle, AuthInv, BackendTypes
<1>5. CASE Ends(k)
  BY <1>2, <1>3, <1>4, <1>5, Kept DEF Ends
<1>6. CASE k[2] = "page" /\ PageAnswered(k[1], srv[k].at = "answer" /\ srv[k].ok)
  <2>1. k = <<k[1], "page">>
    BY <1>6 DEF Slots
  <2>2. Ends(k) \/ Send(k, "refresh", NoUser, "read")
    BY <1>6, <2>1 DEF PageAnswered, Fails
  <2>3. \A b \in Browsers : jar'[b].refresh <= Len(sess)
    BY <1>1, <1>2
  <2>4. QED
    BY <1>1, <1>2, <1>5, <2>2, <2>3, SentBesides
<1>7. QED
  BY <1>5, <1>6 DEF Answered

LEMMA SessionExpiresKeeps == ASSUME AuthInv, NEW n \in DOMAIN sess, SessionExpires(n) PROVE AuthInv'
<1> DEFINE row == [sess[n] EXCEPT !.expired = TRUE]
<1>1. sess \in Seq(SessionRows) /\ Lines(sess) /\ sess[n] \in SessionRows
  BY DEF AuthInv, BackendTypes
<1>2. row \in SessionRows /\ Same(sess[n], row) /\ \A i \in DOMAIN sess : Same(sess[i], sess[i])
  BY <1>1 DEF SessionRows, Same
<1>3. sess' = [sess EXCEPT ![n] = row]
  BY DEF SessionExpires
<1> HIDE DEF row
<1>4. sess' \in Seq(SessionRows) /\ Len(sess') = Len(sess)
      /\ \A i \in DOMAIN sess : sess'[i] = IF i = n THEN row ELSE sess[i]
  BY <1>1, <1>2, <1>3, SessionPut
<1>5. Later(sess, sess')
  <2>1. \A i \in DOMAIN sess : Same(sess[i], sess'[i])
    BY <1>2, <1>4
  <2>2. Len(sess) <= Len(sess')
    BY <1>1, <1>4
  <2>3. QED
    BY <2>1, <2>2 DEF Later
<1>6. Lines(sess')
  BY <1>1, <1>4, <1>5, LinesAge
<1>7. users' = users /\ jar' = jar /\ srv' = srv
  BY DEF SessionExpires
<1>8. \A k \in Slots : Founded(srv'[k], sess')
  <2>1. \A k \in Slots : srv[k] \in Requests /\ Founded(srv[k], sess)
    BY Row
  <2>2. QED
    BY <1>1, <1>4, <1>5, <1>7, <2>1, StillFounded
<1>9. QED
  BY <1>4, <1>6, <1>7, <1>8 DEF AuthInv, BackendTypes

LEMMA LostRow ==
  ASSUME AuthInv
  PROVE  /\ Idle \in Requests /\ [Idle EXCEPT !.at = "lost"] \in Requests
         /\ Founded(Idle, sess) /\ Founded([Idle EXCEPT !.at = "lost"], sess)
<1> DEFINE row == [Idle EXCEPT !.at = "lost"]
<1>1. Len(sess) \in Nat
  BY DEF AuthInv, BackendTypes
<1>2. Idle \in Requests /\ row \in Requests
  BY DEF Idle, Requests
<1>3. row.at = "lost" /\ row.token = 0 /\ row.set = 0 /\ Idle.at = "none" /\ Idle.token = 0 /\ Idle.set = 0
  BY DEF Idle
<1>4. Founded(Idle, sess) /\ Founded(row, sess)
  <2> HIDE DEF row
  <2>1. QED
    BY <1>1, <1>3 DEF Founded
<1>5. QED
  BY <1>2, <1>4

LEMMA LostKeeps == ASSUME AuthInv, NEW k \in Slots, Lost(k) PROVE AuthInv'
<1> DEFINE row == [Idle EXCEPT !.at = "lost"]
<1>1. row \in Requests /\ Founded(row, sess)
  BY LostRow
<1>2. users' \subseteq Users /\ sess' = sess /\ jar' = jar /\ srv' = [srv EXCEPT ![k] = row]
  BY UsersStay DEF Lost
<1> HIDE DEF row
<1>3. QED
  BY <1>1, <1>2, OnlyRequest

LEMMA CrashKeeps == ASSUME AuthInv, Crash PROVE AuthInv'
<1>1. users' = users /\ sess' = sess /\ jar' = jar
  BY DEF Crash
<1>2. \A k \in Slots : srv'[k] = Idle \/ srv'[k] = [Idle EXCEPT !.at = "lost"]
  BY DEF Crash
<1>3. /\ Idle \in Requests /\ [Idle EXCEPT !.at = "lost"] \in Requests
      /\ Founded(Idle, sess) /\ Founded([Idle EXCEPT !.at = "lost"], sess)
  BY LostRow
<1>4. srv' = [k \in Slots |-> srv'[k]]
  BY DEF Crash
<1>5. srv' \in [Slots -> Requests] /\ \A k \in Slots : Founded(srv'[k], sess)
  BY <1>2, <1>3, <1>4
<1>6. QED
  BY <1>1, <1>5 DEF AuthInv, BackendTypes

-----------------------------------------------------------------------------
LEMMA AuthInvInit == AuthInit => AuthInv
<1> SUFFICES ASSUME AuthInit PROVE AuthInv
  OBVIOUS
<1>1. sess = <<>> /\ sess \in Seq(SessionRows) /\ Len(sess) = 0 /\ DOMAIN sess = {}
  BY DEF AuthInit
<1>2. Idle \in Requests /\ Founded(Idle, sess)
  BY <1>1 DEF Idle, Requests, Founded
<1>3. Lines(sess)
  BY <1>1 DEF Lines
<1>4. users \subseteq Users
  BY DEF AuthInit
<1>5. srv \in [Slots -> Requests] /\ \A k \in Slots : Founded(srv[k], sess)
  BY <1>2 DEF AuthInit
<1>6. jar \in [Browsers -> Cookies] /\ \A b \in Browsers : jar[b].refresh <= Len(sess)
  BY <1>1 DEF AuthInit, Cookies
<1>7. QED
  BY <1>1, <1>3, <1>4, <1>5, <1>6 DEF AuthInv, BackendTypes

LEMMA AuthStep == AuthInv /\ [Next]_vars => AuthInv'
<1> SUFFICES ASSUME AuthInv, [Next]_vars PROVE AuthInv'
  OBVIOUS
<1>1. CASE UNCHANGED vars
  BY <1>1, NothingMoves DEF vars
<1>2. ASSUME NEW k \in Slots, Handler(k) \/ Answered(k) \/ Lost(k) PROVE AuthInv'
  BY <1>2, HandlerKeeps, AnsweredKeeps, LostKeeps
<1>3. ASSUME NEW t \in Tabs, Open(t) \/ Use(t) \/ Ask(t) \/ AskAgain(t) \/ AskFails(t) \/ SignIn(t)
                               \/ Logout(t) \/ Connect(t)
      PROVE  AuthInv'
  BY <1>3, TabKeeps
<1>4. ASSUME NEW b \in Browsers, AccessExpires(b) PROVE AuthInv'
  <2>1. users' = users /\ sess' = sess /\ srv' = srv /\ jar' = [jar EXCEPT ![b].access = "old"]
    BY <1>4 DEF AccessExpires
  <2>2. jar' \in [Browsers -> Cookies] /\ \A c \in Browsers : jar'[c].refresh = jar[c].refresh
    BY <2>1 DEF AuthInv, BackendTypes, Cookies
  <2>3. QED
    BY <2>1, <2>2 DEF AuthInv, BackendTypes
<1>5. ASSUME NEW n \in DOMAIN sess, SessionExpires(n) PROVE AuthInv'
  BY <1>5, SessionExpiresKeeps
<1>6. QED
  BY <1>1, <1>2, <1>3, <1>4, <1>5, CrashKeeps DEF Next

\* A session that can be refreshed has no successor: a successor is made after
\* its source is revoked, and revoking is for ever.
LEMMA LiveIsTip == AuthInv => \A i \in DOMAIN sess : Live(i) => Tip(sess, i)
<1> SUFFICES ASSUME AuthInv, NEW i \in DOMAIN sess, Live(i), NEW j \in DOMAIN sess, sess[j].from = i
             PROVE  FALSE
  BY DEF Tip
<1>1. Stems(sess, j) /\ i > 0
  BY DEF AuthInv, BackendTypes, Lines
<1>2. QED
  BY <1>1 DEF Stems, Live

\* However refreshes, logins, logouts and crashes interleave, in any number of tabs
\* and browsers, a login has at most one session that can be refreshed: what
\* /auth/refresh does between its look at the session and the new row is safe.
THEOREM OneSessionPerLoginHolds == Spec => []OneSessionPerLogin
<1>1. AuthInv => OneSessionPerLogin
  BY LiveIsTip DEF AuthInv, Lines, OneSessionPerLogin
<1>2. QED
  BY <1>1, AuthInvInit, AuthStep, PTL DEF Spec

-----------------------------------------------------------------------------
(* The run console                                                          *)


LEMMA IsSeq ==
  ASSUME NEW S, NEW s \in Seq(S)
  PROVE  Len(s) \in Nat /\ DOMAIN s = 1 .. Len(s) /\ \A i \in DOMAIN s : s[i] \in S
BY LenProperties, ElementOfSeq

LEMMA AtEnd ==
  ASSUME NEW S, NEW s \in Seq(S), NEW e \in S
  PROVE  /\ Append(s, e) \in Seq(S)
         /\ DOMAIN Append(s, e) = 1 .. Len(s) + 1
         /\ \A i \in DOMAIN s : Append(s, e)[i] = s[i]
         /\ Append(s, e)[Len(s) + 1] = e
BY IsSeq, AppendProperties, LenProperties

LEMMA OffHead ==
  ASSUME NEW S, NEW s \in Seq(S), s # <<>>
  PROVE  /\ 1 \in DOMAIN s /\ Head(s) = s[1] /\ s[1] \in S
         /\ Tail(s) \in Seq(S)
         /\ DOMAIN Tail(s) = 1 .. Len(s) - 1
         /\ \A i \in DOMAIN Tail(s) : i + 1 \in DOMAIN s /\ Tail(s)[i] = s[i + 1]
<1>1. Len(s) \in Nat \ {0} /\ DOMAIN s = 1 .. Len(s)
  BY IsSeq, EmptySeq
<1>2. Tail(s) \in Seq(S) /\ Len(Tail(s)) = Len(s) - 1
      /\ \A i \in 1 .. Len(Tail(s)) : Tail(s)[i] = s[i + 1]
  BY HeadTailProperties
<1>3. DOMAIN Tail(s) = 1 .. Len(s) - 1
  BY <1>2, LenProperties
<1>4. Head(s) = s[1] /\ s[1] \in S
  BY <1>1, HeadTailProperties, ElementOfSeq
<1>5. \A i \in DOMAIN Tail(s) : i + 1 \in DOMAIN s /\ Tail(s)[i] = s[i + 1]
  BY <1>1, <1>2, <1>3
<1>6. QED
  BY <1>1, <1>2, <1>3, <1>4, <1>5

-----------------------------------------------------------------------------
(* A stream: its rows, what its task has still to write, its buffer, its     *)
(* queue, and how many updates it has had.                                   *)

Mine(s, R) == {k \in DOMAIN R : R[k].stream = s}
Asks(Q)    == {k \in DOMAIN Q : Q[k].kind # "flush"}

OneByOne(R, D)      == \A i, j \in D : i < j => R[i].to < R[j].from
Ahead(R, D, T)      == \A i \in D, j \in DOMAIN T : R[i].to < T[j].from
AheadOfAll(R, D, Q) == \A i \in D, j \in Asks(Q) : R[i].to < Q[j].n

Ordered(s, R, T, X, Q) ==
  /\ OneByOne(R, Mine(s, R)) /\ OneByOne(T, DOMAIN T) /\ OneByOne(X, DOMAIN X)
  /\ \A i, j \in Asks(Q) : i < j => Q[i].n < Q[j].n
  /\ Ahead(R, Mine(s, R), T) /\ Ahead(R, Mine(s, R), X) /\ Ahead(T, DOMAIN T, X)
  /\ AheadOfAll(R, Mine(s, R), Q) /\ AheadOfAll(T, DOMAIN T, Q) /\ AheadOfAll(X, DOMAIN X, Q)

Had(s, R, T, X, Q, a) ==
  /\ \A k \in Mine(s, R) : R[k].to <= a
  /\ \A k \in DOMAIN T : T[k].to <= a
  /\ \A k \in DOMAIN X : X[k].to <= a
  /\ \A k \in Asks(Q) : Q[k].n <= a

Somewhere(s, R, T, X, Q, n) ==
  \/ \E k \in Mine(s, R) : R[k].from <= n /\ n <= R[k].to
  \/ \E k \in DOMAIN T : T[k].from <= n /\ n <= T[k].to
  \/ \E k \in DOMAIN X : X[k].from <= n /\ n <= X[k].to
  \/ \E k \in Asks(Q) : Q[k].n = n

Fits(s, R, T, X, Q, a, kept) ==
  /\ Ordered(s, R, T, X, Q) /\ Had(s, R, T, X, Q, a)
  /\ kept => \A n \in 1 .. a : Somewhere(s, R, T, X, Q, n)

\* A row as it is made: its updates are some, the first no later than the last.
Whole == {row \in EventRow : row.from <= row.to}
Piece(s) == {row \in Whole : row.stream = s}

LEMMA Ints ==
  /\ \A row \in Whole : row.from \in Nat /\ row.to \in Nat /\ row.from <= row.to
  /\ \A task \in Task : task.n \in Nat
BY DEF Whole, EventRow, Task

\* The first row of the task is written.
LEMMA RowWritten ==
  ASSUME NEW s \in Streams, NEW R \in Seq(Whole), NEW T \in Seq(Piece(s)), NEW X \in Seq(Piece(s)),
         NEW Q \in Seq(Task), NEW a \in Nat, NEW kept, T # <<>>,
         Fits(s, R, T, X, Q, a, kept)
  PROVE  Fits(s, Append(R, Head(T)), Tail(T), X, Q, a, kept)
<1> DEFINE R2 == Append(R, Head(T))
           T2 == Tail(T)
<1>1. /\ Head(T) = T[1] /\ 1 \in DOMAIN T /\ T[1] \in Whole /\ T[1].stream = s
      /\ DOMAIN T2 = 1 .. Len(T) - 1 /\ DOMAIN T = 1 .. Len(T) /\ Len(T) \in Nat
      /\ \A i \in DOMAIN T2 : i + 1 \in DOMAIN T /\ T2[i] = T[i + 1]
  BY OffHead, IsSeq DEF Piece
<1>2. /\ DOMAIN R2 = 1 .. Len(R) + 1 /\ DOMAIN R = 1 .. Len(R) /\ Len(R) \in Nat
      /\ \A i \in DOMAIN R : R2[i] = R[i]
      /\ R2[Len(R) + 1] = T[1]
  BY <1>1, AtEnd, IsSeq
<1>3. /\ \A i \in DOMAIN R : R[i].from \in Nat /\ R[i].to \in Nat /\ R[i].from <= R[i].to
      /\ \A i \in DOMAIN T : T[i].from \in Nat /\ T[i].to \in Nat /\ T[i].from <= T[i].to
      /\ \A i \in DOMAIN X : X[i].from \in Nat /\ X[i].to \in Nat
      /\ \A i \in DOMAIN Q : Q[i].n \in Nat
  BY IsSeq, Ints DEF Piece
<1>4. Mine(s, R2) = Mine(s, R) \cup {Len(R) + 1} /\ Mine(s, R) \subseteq 1 .. Len(R)
  BY <1>1, <1>2 DEF Mine
<1> HIDE DEF R2, T2
<1>5. Ordered(s, R, T, X, Q) /\ Had(s, R, T, X, Q, a)
  BY DEF Fits
<1>6. OneByOne(R2, Mine(s, R2))
  BY <1>1, <1>2, <1>3, <1>4, <1>5 DEF Ordered, OneByOne, Ahead, Mine
<1>a. OneByOne(T, DOMAIN T) /\ Ahead(R, Mine(s, R), T)
  BY <1>5 DEF Ordered
<1>b. \A i \in DOMAIN T2 : i \in Int /\ i + 1 \in DOMAIN T /\ 1 < i + 1 /\ T2[i] = T[i + 1]
  BY <1>1
<1>7. OneByOne(T2, DOMAIN T2)
  <2>1. ASSUME NEW i \in DOMAIN T2, NEW j \in DOMAIN T2, i < j
        PROVE  T2[i].to < T2[j].from
    <3>1. i + 1 < j + 1
      BY <2>1, <1>b
    <3>2. QED
      BY <3>1, <1>a, <1>b DEF OneByOne
  <2>2. QED
    BY <2>1 DEF OneByOne
<1>8. Ahead(R2, Mine(s, R2), T2)
  <2>1. ASSUME NEW i \in Mine(s, R2), NEW j \in DOMAIN T2
        PROVE  R2[i].to < T2[j].from
    <3>1. CASE i \in Mine(s, R)
      BY <3>1, <1>2, <1>4, <1>a, <1>b DEF Ahead
    <3>2. CASE i = Len(R) + 1
      BY <3>2, <1>1, <1>2, <1>a, <1>b DEF OneByOne
    <3>3. QED
      BY <1>4, <3>1, <3>2
  <2>2. QED
    BY <2>1 DEF Ahead
<1>9. Ahead(R2, Mine(s, R2), X) /\ Ahead(T2, DOMAIN T2, X)
  BY <1>1, <1>2, <1>3, <1>4, <1>5 DEF Ordered, Ahead, Mine
<1>10. AheadOfAll(R2, Mine(s, R2), Q) /\ AheadOfAll(T2, DOMAIN T2, Q)
  BY <1>1, <1>2, <1>3, <1>4, <1>5 DEF Ordered, AheadOfAll, Mine
<1>11. Ordered(s, R2, T2, X, Q)
  BY <1>5, <1>6, <1>7, <1>8, <1>9, <1>10 DEF Ordered
<1>12. Had(s, R2, T2, X, Q, a)
  BY <1>1, <1>2, <1>4, <1>5 DEF Had, Mine
<1>13. ASSUME NEW n \in 1 .. a, Somewhere(s, R, T, X, Q, n)
       PROVE  Somewhere(s, R2, T2, X, Q, n)
  <2>1. CASE \E k \in Mine(s, R) : R[k].from <= n /\ n <= R[k].to
    BY <2>1, <1>2, <1>4 DEF Somewhere, Mine
  <2>2. CASE \E k \in DOMAIN T : T[k].from <= n /\ n <= T[k].to
    <3>1. PICK k \in DOMAIN T : T[k].from <= n /\ n <= T[k].to
      BY <2>2
    <3>2. CASE k = 1
      BY <3>1, <3>2, <1>2, <1>4 DEF Somewhere
    <3>3. CASE k # 1
      <4>1. k - 1 \in DOMAIN T2 /\ T2[k - 1] = T[k]
        BY <3>1, <3>3, <1>1
      <4>2. QED
        BY <3>1, <4>1 DEF Somewhere
    <3>4. QED
      BY <3>2, <3>3
  <2>3. QED
    BY <1>13, <2>1, <2>2 DEF Somewhere
<1>14. Fits(s, R2, T2, X, Q, a, kept)
  BY <1>11, <1>12, <1>13 DEF Fits
<1>15. QED
  BY <1>14 DEF R2, T2

\* A row of another stream is written.
LEMMA OthersWritten ==
  ASSUME NEW s \in Streams, NEW R \in Seq(Whole), NEW T, NEW X, NEW Q, NEW a, NEW kept,
         NEW row \in Whole, row.stream # s,
         Fits(s, R, T, X, Q, a, kept)
  PROVE  Fits(s, Append(R, row), T, X, Q, a, kept)
<1> DEFINE R2 == Append(R, row)
<1>2. /\ DOMAIN R2 = 1 .. Len(R) + 1 /\ DOMAIN R = 1 .. Len(R) /\ Len(R) \in Nat
      /\ \A i \in DOMAIN R : R2[i] = R[i]
      /\ R2[Len(R) + 1] = row
  BY AtEnd, IsSeq
<1>3. Mine(s, R2) = Mine(s, R)
  BY <1>2 DEF Mine
<1>4. \A k \in Mine(s, R2) : R2[k] = R[k]
  BY <1>2, <1>3 DEF Mine
<1> HIDE DEF R2
<1>5. Ordered(s, R2, T, X, Q)
  BY <1>3, <1>4 DEF Fits, Ordered, OneByOne, Ahead, AheadOfAll
<1>6. Had(s, R2, T, X, Q, a)
  BY <1>3, <1>4 DEF Fits, Had
<1>7. \A n : Somewhere(s, R, T, X, Q, n) => Somewhere(s, R2, T, X, Q, n)
  BY <1>3, <1>4 DEF Somewhere
<1>8. Fits(s, R2, T, X, Q, a, kept)
  BY <1>5, <1>6, <1>7 DEF Fits
<1>9. QED
  BY <1>8 DEF R2

\* The rest of a task is given up.
LEMMA TaskGivenUp ==
  ASSUME NEW s \in Streams, NEW R, NEW T, NEW X, NEW Q, NEW a, NEW kept,
         Fits(s, R, T, X, Q, a, kept)
  PROVE  Fits(s, R, <<>>, X, Q, a, FALSE)
<1>1. DOMAIN <<>> = {}
  OBVIOUS
<1>2. QED
  BY <1>1 DEF Fits, Ordered, Had, OneByOne, Ahead, AheadOfAll

\* Only the rows are left.
LEMMA RowsOnly ==
  ASSUME NEW s \in Streams, NEW R, NEW T, NEW X, NEW Q, NEW a, NEW kept, NEW kept2,
         Fits(s, R, T, X, Q, a, kept), kept2 => a = 0
  PROVE  Fits(s, R, <<>>, <<>>, <<>>, a, kept2)
<1>1. DOMAIN <<>> = {} /\ Asks(<<>>) = {}
  BY DEF Asks
<1>2. kept2 => 1 .. a = {}
  OBVIOUS
<1>3. QED
  BY <1>1, <1>2 DEF Fits, Ordered, Had, OneByOne, Ahead, AheadOfAll

\* The buffer is taken to be written.
LEMMA Released ==
  ASSUME NEW s \in Streams, NEW R, NEW X, NEW Q, NEW a, NEW kept,
         Fits(s, R, <<>>, X, Q, a, kept)
  PROVE  Fits(s, R, X, <<>>, Q, a, kept)
<1>1. DOMAIN <<>> = {}
  OBVIOUS
<1>2. Ordered(s, R, X, <<>>, Q)
  BY <1>1 DEF Fits, Ordered, OneByOne, Ahead, AheadOfAll
<1>3. Had(s, R, X, <<>>, Q, a)
  BY <1>1 DEF Fits, Had
<1>4. \A n : Somewhere(s, R, <<>>, X, Q, n) => Somewhere(s, R, X, <<>>, Q, n)
  BY <1>1 DEF Somewhere
<1>5. QED
  BY <1>2, <1>3, <1>4 DEF Fits

\* An update comes.
LEMMA UpdateQueued ==
  ASSUME NEW s \in Streams, NEW R \in Seq(Whole), NEW T \in Seq(Piece(s)), NEW X \in Seq(Piece(s)),
         NEW Q \in Seq(Task), NEW a \in Nat, NEW kept, NEW task \in Task,
         task.kind # "flush", task.n = a + 1,
         Fits(s, R, T, X, Q, a, kept)
  PROVE  Fits(s, R, T, X, Append(Q, task), a + 1, kept)
<1> DEFINE Q2 == Append(Q, task)
<1>1. /\ DOMAIN Q2 = 1 .. Len(Q) + 1 /\ DOMAIN Q = 1 .. Len(Q) /\ Len(Q) \in Nat
      /\ \A i \in DOMAIN Q : Q2[i] = Q[i]
      /\ Q2[Len(Q) + 1] = task
  BY AtEnd, IsSeq
<1>2. /\ \A i \in DOMAIN R : R[i].from \in Nat /\ R[i].to \in Nat
      /\ \A i \in DOMAIN T : T[i].from \in Nat /\ T[i].to \in Nat
      /\ \A i \in DOMAIN X : X[i].from \in Nat /\ X[i].to \in Nat
      /\ \A i \in DOMAIN Q : Q[i].n \in Nat
  BY IsSeq, Ints DEF Piece
<1> HIDE DEF Q2
<1>3. Asks(Q2) = Asks(Q) \cup {Len(Q) + 1} /\ Asks(Q) \subseteq 1 .. Len(Q)
  BY <1>1 DEF Asks
<1>4. Ordered(s, R, T, X, Q) /\ Had(s, R, T, X, Q, a)
  BY DEF Fits
<1>5. \A k \in Asks(Q) : Q2[k] = Q[k] /\ k < Len(Q) + 1 /\ Q[k].n \in Nat /\ Q[k].n <= a
  BY <1>1, <1>2, <1>3, <1>4 DEF Had
<1>6. Mine(s, R) \subseteq DOMAIN R
  BY DEF Mine
<1>7. \A i, j \in Asks(Q2) : i < j => Q2[i].n < Q2[j].n
  BY <1>1, <1>3, <1>4, <1>5 DEF Ordered
<1>8. AheadOfAll(R, Mine(s, R), Q2)
  BY <1>1, <1>2, <1>3, <1>4, <1>5, <1>6 DEF Ordered, AheadOfAll, Had
<1>9. AheadOfAll(T, DOMAIN T, Q2)
  BY <1>1, <1>2, <1>3, <1>4, <1>5 DEF Ordered, AheadOfAll, Had
<1>10. AheadOfAll(X, DOMAIN X, Q2)
  BY <1>1, <1>2, <1>3, <1>4, <1>5 DEF Ordered, AheadOfAll, Had
<1>11. Ordered(s, R, T, X, Q2)
  BY <1>4, <1>7, <1>8, <1>9, <1>10 DEF Ordered
<1>12. Had(s, R, T, X, Q2, a + 1)
  <2>1. \A k \in Asks(Q2) : Q2[k].n <= a + 1
    BY <1>1, <1>3, <1>5
  <2>2. QED
    BY <1>2, <1>4, <1>6, <2>1 DEF Had
<1>13. \A n \in 1 .. a + 1 : n = a + 1 \/ n \in 1 .. a
  OBVIOUS
<1>14. Somewhere(s, R, T, X, Q2, a + 1)
  BY <1>1, <1>3 DEF Somewhere
<1>15. \A n : Somewhere(s, R, T, X, Q, n) => Somewhere(s, R, T, X, Q2, n)
  BY <1>3, <1>5 DEF Somewhere
<1>16. Fits(s, R, T, X, Q2, a + 1, kept)
  BY <1>11, <1>12, <1>13, <1>14, <1>15 DEF Fits
<1>17. QED
  BY <1>16 DEF Q2

\* The timer fires.
LEMMA FlushQueued ==
  ASSUME NEW s \in Streams, NEW R, NEW T, NEW X,
         NEW Q \in Seq(Task), NEW a, NEW kept, NEW task \in Task, task.kind = "flush",
         Fits(s, R, T, X, Q, a, kept)
  PROVE  Fits(s, R, T, X, Append(Q, task), a, kept)
<1> DEFINE Q2 == Append(Q, task)
<1>1. /\ DOMAIN Q2 = 1 .. Len(Q) + 1 /\ DOMAIN Q = 1 .. Len(Q) /\ Len(Q) \in Nat
      /\ \A i \in DOMAIN Q : Q2[i] = Q[i]
      /\ Q2[Len(Q) + 1] = task
  BY AtEnd, IsSeq
<1> HIDE DEF Q2
<1>2. Asks(Q2) = Asks(Q) /\ \A k \in Asks(Q2) : Q2[k] = Q[k]
  BY <1>1 DEF Asks
<1>3. Ordered(s, R, T, X, Q2) /\ Had(s, R, T, X, Q2, a)
  BY <1>2 DEF Fits, Ordered, Had, AheadOfAll
<1>4. \A n : Somewhere(s, R, T, X, Q, n) => Somewhere(s, R, T, X, Q2, n)
  BY <1>2 DEF Somewhere
<1>5. Fits(s, R, T, X, Q2, a, kept)
  BY <1>3, <1>4 DEF Fits
<1>6. QED
  BY <1>5 DEF Q2

\* What is left of the queue when its head is taken.
LEMMA Behind ==
  ASSUME NEW Q \in Seq(Task), Q # <<>>
  PROVE  /\ Tail(Q) \in Seq(Task) /\ Head(Q) \in Task /\ Head(Q) = Q[1]
         /\ \A k \in Asks(Tail(Q)) : k \in Nat \ {0} /\ k + 1 \in Asks(Q) /\ Tail(Q)[k] = Q[k + 1]
         /\ \A k \in Asks(Q) : k = 1 \/ (k - 1 \in Asks(Tail(Q)) /\ Tail(Q)[k - 1] = Q[k])
         /\ Head(Q).kind # "flush" => 1 \in Asks(Q)
         /\ Head(Q).kind = "flush" => 1 \notin Asks(Q)
<1>1. /\ 1 \in DOMAIN Q /\ Head(Q) = Q[1] /\ Q[1] \in Task
      /\ Tail(Q) \in Seq(Task)
      /\ DOMAIN Tail(Q) = 1 .. Len(Q) - 1 /\ DOMAIN Q = 1 .. Len(Q) /\ Len(Q) \in Nat
      /\ \A i \in DOMAIN Tail(Q) : i + 1 \in DOMAIN Q /\ Tail(Q)[i] = Q[i + 1]
  BY OffHead, IsSeq
<1> DEFINE Q2 == Tail(Q)
<1>2. \A k \in Asks(Q2) : k \in Nat \ {0} /\ k + 1 \in Asks(Q) /\ Q2[k] = Q[k + 1]
  BY <1>1 DEF Asks
<1>3. ASSUME NEW k \in Asks(Q), k # 1
      PROVE  k - 1 \in Asks(Q2) /\ Q2[k - 1] = Q[k]
  <2>1. k \in DOMAIN Q /\ k - 1 \in 1 .. Len(Q) - 1 /\ (k - 1) + 1 = k
    BY <1>1, <1>3 DEF Asks
  <2>2. k - 1 \in DOMAIN Q2 /\ Q2[k - 1] = Q[k]
    BY <1>1, <2>1
  <2>3. QED
    BY <1>3, <2>2 DEF Asks
<1>4. Head(Q).kind # "flush" => 1 \in Asks(Q)
  BY <1>1 DEF Asks
<1>5. Head(Q).kind = "flush" => 1 \notin Asks(Q)
  BY <1>1 DEF Asks
<1> HIDE DEF Q2
<1>6. QED
  BY <1>1, <1>2, <1>3, <1>4, <1>5 DEF Q2

\* What was in order is in order without the head of the queue.
LEMMA QueueShorter ==
  ASSUME NEW s \in Streams, NEW R, NEW T, NEW X, NEW Q \in Seq(Task), NEW a, Q # <<>>,
         Ordered(s, R, T, X, Q), Had(s, R, T, X, Q, a)
  PROVE  Ordered(s, R, T, X, Tail(Q)) /\ Had(s, R, T, X, Tail(Q), a)
<1> DEFINE Q2 == Tail(Q)
<1>1. \A k \in Asks(Q2) : k \in Nat \ {0} /\ k + 1 \in Asks(Q) /\ Q2[k] = Q[k + 1]
  BY Behind
<1> HIDE DEF Q2
<1>2. \A i, j \in Asks(Q2) : i < j => i + 1 < j + 1
  BY <1>1
<1>3. \A i, j \in Asks(Q2) : i < j => Q2[i].n < Q2[j].n
  BY <1>1, <1>2 DEF Ordered
<1>4. AheadOfAll(R, Mine(s, R), Q2) /\ AheadOfAll(T, DOMAIN T, Q2) /\ AheadOfAll(X, DOMAIN X, Q2)
  BY <1>1 DEF Ordered, AheadOfAll
<1>5. Ordered(s, R, T, X, Q2)
  BY <1>3, <1>4 DEF Ordered
<1>6. Had(s, R, T, X, Q2, a)
  BY <1>1 DEF Had
<1>7. QED
  BY <1>5, <1>6 DEF Q2

LEMMA FlushTaken ==
  ASSUME NEW s \in Streams, NEW R, NEW T, NEW X, NEW Q \in Seq(Task), NEW a, NEW kept,
         Q # <<>>, Head(Q).kind = "flush",
         Fits(s, R, T, X, Q, a, kept)
  PROVE  Fits(s, R, T, X, Tail(Q), a, kept)
<1> DEFINE Q2 == Tail(Q)
<1>1. \A k \in Asks(Q) : k - 1 \in Asks(Q2) /\ Q2[k - 1] = Q[k]
  BY Behind
<1>2. Ordered(s, R, T, X, Q2) /\ Had(s, R, T, X, Q2, a)
  BY QueueShorter DEF Fits
<1> HIDE DEF Q2
<1>3. \A n : Somewhere(s, R, T, X, Q, n) => Somewhere(s, R, T, X, Q2, n)
  BY <1>1 DEF Somewhere
<1>4. Fits(s, R, T, X, Q2, a, kept)
  BY <1>2, <1>3 DEF Fits
<1>5. QED
  BY <1>4 DEF Q2

\* The buffer X becomes Y: its last segment goes on to n, or a segment of n alone is added.
Longer(X, Y, n) ==
  \/ /\ DOMAIN Y = 1 .. Len(X) + 1 /\ Y[Len(X) + 1].from = n /\ Y[Len(X) + 1].to = n
     /\ \A k \in DOMAIN X : Y[k].from = X[k].from /\ Y[k].to = X[k].to
  \/ /\ DOMAIN Y = DOMAIN X /\ Len(X) \in DOMAIN X
     /\ \A k \in DOMAIN X : Y[k].from = X[k].from
     /\ \A k \in DOMAIN X : k # Len(X) => Y[k].to = X[k].to
     /\ Y[Len(X)].to = n

LEMMA OneMore ==
  ASSUME NEW s \in Streams, NEW X \in Seq(Piece(s)), NEW task \in Task, task.kind # "flush"
  PROVE  /\ RowOf(s, task) \in Piece(s)
         /\ Append(X, RowOf(s, task)) \in Seq(Piece(s))
         /\ Longer(X, Append(X, RowOf(s, task)), task.n)
<1>1. RowOf(s, task) \in Piece(s) /\ RowOf(s, task).from = task.n /\ RowOf(s, task).to = task.n
  BY DEF RowOf, Piece, Whole, EventRow, Task
<1>2. QED
  BY <1>1, AtEnd DEF Longer

LEMMA LastLonger ==
  ASSUME NEW s \in Streams, NEW X \in Seq(Piece(s)), NEW n \in Nat, X # <<>>,
         \A k \in DOMAIN X : X[k].to < n
  PROVE  /\ [X EXCEPT ![Len(X)].to = n] \in Seq(Piece(s))
         /\ Longer(X, [X EXCEPT ![Len(X)].to = n], n)
<1>1. DOMAIN X = 1 .. Len(X) /\ Len(X) \in DOMAIN X /\ X[Len(X)] \in Piece(s)
  BY IsSeq, EmptySeq
<1> DEFINE row == [X[Len(X)] EXCEPT !.to = n]
           Y   == [X EXCEPT ![Len(X)] = row]
<1>2. X[Len(X)].from \in Nat /\ X[Len(X)].to \in Nat /\ X[Len(X)].from <= X[Len(X)].to /\ X[Len(X)].to < n
  BY <1>1, Ints DEF Piece
<1>3. row.from = X[Len(X)].from /\ row.to = n /\ row.stream = s /\ row \in EventRow
  BY <1>1 DEF Piece, Whole, EventRow
<1> HIDE DEF row
<1>4. row \in Piece(s)
  BY <1>2, <1>3 DEF Piece, Whole
<1>5. Y \in Seq(Piece(s)) /\ DOMAIN Y = DOMAIN X /\ Y[Len(X)] = row
      /\ \A k \in DOMAIN X : k # Len(X) => Y[k] = X[k]
  BY <1>1, <1>4, ExceptSeq
<1> HIDE DEF Y
<1>6. Longer(X, Y, n)
  BY <1>1, <1>3, <1>5 DEF Longer
<1>7. QED
  BY <1>5, <1>6 DEF Y, row

\* The update at the head of the queue is put in the buffer.
LEMMA UpdateTaken ==
  ASSUME NEW s \in Streams, NEW R \in Seq(Whole), NEW X \in Seq(Piece(s)), NEW Y \in Seq(Piece(s)),
         NEW Q \in Seq(Task), NEW a \in Nat, NEW kept, Q # <<>>, Head(Q).kind # "flush",
         Fits(s, R, <<>>, X, Q, a, kept),
         Longer(X, Y, Head(Q).n)
  PROVE  Fits(s, R, <<>>, Y, Tail(Q), a, kept)
<1> DEFINE Q2 == Tail(Q)
           n  == Head(Q).n
<1>1. /\ Q2 \in Seq(Task) /\ Head(Q) \in Task /\ Head(Q) = Q[1] /\ 1 \in Asks(Q)
      /\ \A k \in Asks(Q2) : k \in Nat \ {0} /\ k + 1 \in Asks(Q) /\ Q2[k] = Q[k + 1]
      /\ \A k \in Asks(Q) : k = 1 \/ (k - 1 \in Asks(Q2) /\ Q2[k - 1] = Q[k])
  BY Behind
<1>2. Ordered(s, R, <<>>, X, Q2) /\ Had(s, R, <<>>, X, Q2, a)
  BY QueueShorter DEF Fits
<1>3. /\ n \in Nat /\ n <= a
      /\ \A k \in Mine(s, R) : R[k].to < n
      /\ \A k \in DOMAIN X : X[k].to < n
  BY <1>1, Ints DEF Fits, Ordered, Had, AheadOfAll
<1>4. \A k \in Asks(Q2) : n < Q2[k].n
  <2>1. \A k \in Asks(Q2) : 1 < k + 1
    BY <1>1
  <2>2. QED
    BY <1>1, <2>1 DEF Fits, Ordered
<1>5. /\ DOMAIN X = 1 .. Len(X) /\ Len(X) \in Nat
      /\ \A k \in DOMAIN X : X[k].from \in Nat /\ X[k].to \in Nat /\ X[k].from <= X[k].to
  BY IsSeq, Ints DEF Piece
<1>6. \/ /\ DOMAIN Y = 1 .. Len(X) + 1 /\ Y[Len(X) + 1].from = n /\ Y[Len(X) + 1].to = n
         /\ \A k \in DOMAIN X : Y[k].from = X[k].from /\ Y[k].to = X[k].to
      \/ /\ DOMAIN Y = DOMAIN X /\ Len(X) \in DOMAIN X
         /\ \A k \in DOMAIN X : Y[k].from = X[k].from
         /\ \A k \in DOMAIN X : k # Len(X) => Y[k].to = X[k].to
         /\ Y[Len(X)].to = n
  BY DEF Longer
<1> HIDE DEF Q2, n
<1>7. \A k \in DOMAIN Y : \/ k \in DOMAIN X /\ Y[k].from = X[k].from /\ Y[k].to \in {X[k].to, n}
                          \/ k = Len(X) + 1 /\ Y[k].from = n /\ Y[k].to = n
  <2>1. CASE /\ DOMAIN Y = 1 .. Len(X) + 1 /\ Y[Len(X) + 1].from = n /\ Y[Len(X) + 1].to = n
             /\ \A k \in DOMAIN X : Y[k].from = X[k].from /\ Y[k].to = X[k].to
    <3>1. \A k \in DOMAIN Y : k \in DOMAIN X \/ k = Len(X) + 1
      BY <1>5, <2>1
    <3>2. QED
      BY <2>1, <3>1
  <2>2. CASE /\ DOMAIN Y = DOMAIN X /\ Len(X) \in DOMAIN X
             /\ \A k \in DOMAIN X : Y[k].from = X[k].from
             /\ \A k \in DOMAIN X : k # Len(X) => Y[k].to = X[k].to
             /\ Y[Len(X)].to = n
    BY <2>2
  <2>3. QED
    BY <1>6, <2>1, <2>2
<1>8. \A k \in DOMAIN Y : Y[k].to <= n /\ Y[k].to \in Nat
  <2>1. \A k \in DOMAIN X : X[k].to <= n /\ X[k].to \in Nat
    BY <1>3, <1>5
  <2>2. n <= n /\ n \in Nat
    BY <1>3
  <2>3. \A k \in DOMAIN Y : Y[k].to = n \/ (k \in DOMAIN X /\ Y[k].to = X[k].to)
    BY <1>7
  <2>4. QED
    BY <2>1, <2>2, <2>3
<1>9. OneByOne(Y, DOMAIN Y)
  <2>1. OneByOne(X, DOMAIN X)
    BY <1>2 DEF Ordered
  <2>2. ASSUME NEW i \in DOMAIN Y, NEW j \in DOMAIN Y, i < j
        PROVE  Y[i].to < Y[j].from
    <3>1. i \in DOMAIN X /\ i # Len(Y) /\ Y[i].to = X[i].to
      BY <1>5, <1>6, <2>2
    <3>2. CASE j \in DOMAIN X
      BY <2>1, <2>2, <3>1, <3>2, <1>5, <1>6 DEF OneByOne
    <3>3. CASE j \notin DOMAIN X
      BY <3>1, <3>3, <1>3, <1>7
    <3>4. QED
      BY <3>2, <3>3
  <2>3. QED
    BY <2>2 DEF OneByOne
<1>10. Ahead(R, Mine(s, R), Y)
  <2>1. Ahead(R, Mine(s, R), X)
    BY <1>2 DEF Ordered
  <2>2. ASSUME NEW i \in Mine(s, R), NEW k \in DOMAIN Y
        PROVE  R[i].to < Y[k].from
    BY <2>1, <1>3, <1>7 DEF Ahead
  <2>3. QED
    BY <2>2 DEF Ahead
<1>11. AheadOfAll(Y, DOMAIN Y, Q2)
  <2>1. \A k \in Asks(Q2) : Q2[k].n \in Nat
    BY <1>1, IsSeq, Ints DEF Asks
  <2>2. QED
    BY <2>1, <1>3, <1>4, <1>8 DEF AheadOfAll
<1>12. Ordered(s, R, <<>>, Y, Q2)
  <2>1. DOMAIN <<>> = {}
    OBVIOUS
  <2>2. QED
    BY <2>1, <1>2, <1>9, <1>10, <1>11 DEF Ordered, Ahead
<1>13. Had(s, R, <<>>, Y, Q2, a)
  BY <1>2, <1>3, <1>8 DEF Had
<1>14. ASSUME NEW m \in 1 .. a, Somewhere(s, R, <<>>, X, Q, m)
       PROVE  Somewhere(s, R, <<>>, Y, Q2, m)
  <2>1. CASE \E k \in DOMAIN X : X[k].from <= m /\ m <= X[k].to
    <3>1. PICK k \in DOMAIN X : X[k].from <= m /\ m <= X[k].to
      BY <2>1
    <3>2. k \in DOMAIN Y /\ Y[k].from = X[k].from /\ X[k].to <= Y[k].to
      BY <1>3, <1>5, <1>6
    <3>3. Y[k].from <= m /\ m <= Y[k].to
      BY <1>5, <1>8, <3>1, <3>2
    <3>4. QED
      BY <3>2, <3>3 DEF Somewhere
  <2>2. CASE \E k \in Asks(Q) : Q[k].n = m
    <3>1. PICK k \in Asks(Q) : Q[k].n = m
      BY <2>2
    <3>2. CASE k = 1
      <4>1. m = n
        BY <3>1, <3>2, <1>1 DEF n
      <4>0. \A j \in DOMAIN X : X[j].from <= n
        BY <1>3, <1>5
      <4>2. \E j \in DOMAIN Y : Y[j].from <= n /\ n <= Y[j].to
        <5>1. CASE Len(X) \in DOMAIN X /\ Y[Len(X)].from = X[Len(X)].from /\ Y[Len(X)].to = n
                   /\ DOMAIN Y = DOMAIN X
          <6>1. X[Len(X)].from <= n
            BY <4>0, <5>1
          <6>2. Y[Len(X)].from <= n /\ n <= Y[Len(X)].to
            BY <1>3, <5>1, <6>1
          <6>3. QED
            BY <5>1, <6>2
        <5>2. CASE DOMAIN Y = 1 .. Len(X) + 1 /\ Y[Len(X) + 1].from = n /\ Y[Len(X) + 1].to = n
          <6>1. Len(X) + 1 \in DOMAIN Y
            BY <1>5, <5>2
          <6>2. Y[Len(X) + 1].from <= n /\ n <= Y[Len(X) + 1].to
            BY <1>3, <5>2
          <6>3. QED
            BY <6>1, <6>2
        <5>3. QED
          BY <1>6, <5>1, <5>2
      <4>3. QED
        BY <4>1, <4>2 DEF Somewhere
    <3>3. CASE k # 1
      BY <3>1, <3>3, <1>1 DEF Somewhere
    <3>4. QED
      BY <3>2, <3>3
  <2>3. QED
    BY <1>14, <2>1, <2>2 DEF Somewhere
<1>15. Fits(s, R, <<>>, Y, Q2, a, kept)
  BY <1>12, <1>13, <1>14 DEF Fits
<1>16. QED
  BY <1>15 DEF Q2

-----------------------------------------------------------------------------
(* The streams, whatever the pages do.                                       *)

Buffer(s) == [text : Seq(Piece(s)), timer : {"none", "set", "fired"}]
Work(s)   == [todo : Seq(Piece(s)), made : Nat]

StreamOK(s) ==
  /\ arrived[s] \in Nat /\ queue[s] \in Seq(Task) /\ buffer[s] \in Buffer(s) /\ work[s] \in Work(s)
  /\ Fits(s, rows, work[s].todo, buffer[s].text, queue[s], arrived[s], s \notin lost)

StreamsInv ==
  /\ rows \in Seq(Whole)
  /\ DOMAIN arrived = Streams /\ DOMAIN queue = Streams /\ DOMAIN buffer = Streams
  /\ DOMAIN work = Streams
  /\ \A s \in Streams : StreamOK(s)

\* A step of one stream, of which the others know at most that a row is written.
OnlyStream(s) ==
  /\ rows' \in {rows} \cup {Append(rows, row) : row \in Piece(s)}
  /\ DOMAIN arrived' = Streams /\ DOMAIN queue' = Streams /\ DOMAIN buffer' = Streams
  /\ DOMAIN work' = Streams
  /\ \A t \in Streams \ {s} :
       /\ arrived'[t] = arrived[t] /\ queue'[t] = queue[t] /\ buffer'[t] = buffer[t]
       /\ work'[t] = work[t] /\ (t \in lost' <=> t \in lost)

LEMMA OneStream ==
  ASSUME StreamsInv, NEW s \in Streams, OnlyStream(s), StreamOK(s)'
  PROVE  StreamsInv'
<1>1. rows' \in Seq(Whole)
  BY AtEnd DEF StreamsInv, OnlyStream, Piece
<1>2. ASSUME NEW t \in Streams \ {s}
      PROVE  StreamOK(t)'
  <2>1. StreamOK(t) /\ arrived'[t] = arrived[t] /\ queue'[t] = queue[t] /\ buffer'[t] = buffer[t]
        /\ work'[t] = work[t] /\ (t \notin lost') = (t \notin lost)
    BY <1>2 DEF StreamsInv, OnlyStream
  <2>2. Fits(t, rows, work[t].todo, buffer[t].text, queue[t], arrived[t], t \notin lost)
    BY <2>1 DEF StreamOK
  <2>3. Fits(t, rows', work[t].todo, buffer[t].text, queue[t], arrived[t], t \notin lost)
    <3>1. CASE rows' = rows
      BY <2>2, <3>1
    <3>2. CASE \E row \in Piece(s) : rows' = Append(rows, row)
      <4>1. PICK row \in Piece(s) : rows' = Append(rows, row)
        BY <3>2
      <4>2. row \in Whole /\ row.stream # t
        BY <1>2 DEF Piece
      <4>3. QED
        BY <2>2, <4>1, <4>2, OthersWritten DEF StreamsInv
    <3>3. QED
      BY <3>1, <3>2 DEF OnlyStream
  <2>4. Fits(t, rows', work'[t].todo, buffer'[t].text, queue'[t], arrived'[t], t \notin lost')
    BY <2>1, <2>3
  <2>5. QED
    BY <2>1, <2>4 DEF StreamOK
<1>3. QED
  BY <1>1, <1>2 DEF StreamsInv, OnlyStream

LEMMA StreamsBegin ==
  ConsoleInit => StreamsInv
<1> SUFFICES ASSUME ConsoleInit
             PROVE  StreamsInv
  OBVIOUS
<1>1. rows = <<>> /\ rows \in Seq(Whole) /\ lost = {}
  BY DEF ConsoleInit
<1>2. ASSUME NEW s \in Streams
      PROVE  StreamOK(s)
  <2>1. arrived[s] = 0 /\ queue[s] = <<>> /\ buffer[s] = [text |-> <<>>, timer |-> "none"]
        /\ work[s] = [todo |-> <<>>, made |-> 0]
    BY DEF ConsoleInit
  <2>2. DOMAIN <<>> = {} /\ Mine(s, <<>>) = {} /\ Asks(<<>>) = {} /\ 1 .. 0 = {}
    BY DEF Mine, Asks
  <2>3. Fits(s, <<>>, <<>>, <<>>, <<>>, 0, s \notin lost)
    BY <2>2 DEF Fits, Ordered, Had, OneByOne, Ahead, AheadOfAll
  <2>e. <<>> \in Seq(Piece(s)) /\ <<>> \in Seq(Task)
    OBVIOUS
  <2>4. buffer[s] \in Buffer(s) /\ work[s] \in Work(s) /\ queue[s] \in Seq(Task) /\ arrived[s] \in Nat
    <3>1. arrived[s] \in Nat
      BY <2>1
    <3>2. queue[s] \in Seq(Task)
      BY <2>1, <2>e
    <3>3. [text |-> <<>>, timer |-> "none"] \in Buffer(s)
      BY <2>e DEF Buffer
    <3>4. [todo |-> <<>>, made |-> 0] \in Work(s)
      BY <2>e DEF Work
    <3>5. buffer[s] \in Buffer(s)
      BY <2>1, <3>3, Zenon
    <3>6. work[s] \in Work(s)
      BY <2>1, <3>4, Zenon
    <3>7. QED
      BY <3>1, <3>2, <3>5, <3>6
  <2>5. QED
    BY <1>1, <2>1, <2>3, <2>4 DEF StreamOK
<1>3. QED
  BY <1>1, <1>2 DEF StreamsInv, ConsoleInit

\* What a stream is, for its own steps.
LEMMA OneOf ==
  ASSUME StreamsInv, NEW s \in Streams
  PROVE  /\ rows \in Seq(Whole) /\ arrived[s] \in Nat /\ queue[s] \in Seq(Task)
         /\ work[s].todo \in Seq(Piece(s)) /\ buffer[s].text \in Seq(Piece(s)) /\ work[s].made \in Nat
         /\ work[s] = [todo |-> work[s].todo, made |-> work[s].made]
         /\ buffer[s] = [text |-> buffer[s].text, timer |-> buffer[s].timer]
         /\ buffer[s].timer \in {"none", "set", "fired"}
         /\ Fits(s, rows, work[s].todo, buffer[s].text, queue[s], arrived[s], s \notin lost)
BY DEF StreamsInv, StreamOK, Buffer, Work

\* The parts of a stream after its step.
LEMMA StreamBecomes ==
  ASSUME NEW s \in Streams, NEW T \in Seq(Piece(s)), NEW X \in Seq(Piece(s)), NEW made \in Nat,
         NEW timer \in {"none", "set", "fired"},
         work'[s] = [todo |-> T, made |-> made], buffer'[s] = [text |-> X, timer |-> timer],
         arrived'[s] \in Nat, queue'[s] \in Seq(Task),
         Fits(s, rows', T, X, queue'[s], arrived'[s], s \notin lost')
  PROVE  StreamOK(s)'
<1>1. work'[s] \in Work(s) /\ buffer'[s] \in Buffer(s)
  BY DEF Work, Buffer
<1>2. work'[s].todo = T /\ buffer'[s].text = X
  OBVIOUS
<1>3. QED
  BY <1>1, <1>2 DEF StreamOK

LEMMA Retimed ==
  ASSUME NEW b, NEW x, NEW t, NEW u, b = [text |-> x, timer |-> t]
  PROVE  [b EXCEPT !.timer = u] = [text |-> x, timer |-> u]
OBVIOUS

LEMMA Reworked ==
  ASSUME NEW w, NEW x, NEW n, NEW y, NEW m, w = [todo |-> x, made |-> n]
  PROVE  [w EXCEPT !.made = m] = [todo |-> x, made |-> m] /\ [w EXCEPT !.todo = y] = [todo |-> y, made |-> n]
OBVIOUS

LEMMA ArriveKeepsStreams ==
  ASSUME StreamsInv, NEW s \in Streams, NEW kind \in Kinds, Arrive(s, kind)
  PROVE  StreamsInv'
<1> DEFINE task == [kind |-> kind, n |-> arrived[s] + 1]
<1>1. arrived[s] \in Nat /\ DOMAIN arrived = Streams /\ DOMAIN queue = Streams
  BY OneOf DEF StreamsInv
<1>2. task \in Task /\ task.kind # "flush" /\ task.n = arrived[s] + 1
  BY <1>1 DEF Task, Kinds
<1>3. arrived' = [arrived EXCEPT ![s] = arrived[s] + 1] /\ queue' = [queue EXCEPT ![s] = Append(queue[s], task)]
      /\ buffer' = buffer /\ work' = work /\ lost' = lost /\ rows' = rows
  BY DEF Arrive, Uses
<1> HIDE DEF task
<1>4. arrived'[s] = arrived[s] + 1 /\ queue'[s] = Append(queue[s], task)
  BY <1>1, <1>3
<1>5. Fits(s, rows, work[s].todo, buffer[s].text, Append(queue[s], task), arrived[s] + 1, s \notin lost)
  BY <1>2, OneOf, UpdateQueued
<1>6. queue'[s] \in Seq(Task) /\ arrived'[s] \in Nat
  <2>1. Append(queue[s], task) \in Seq(Task)
    BY <1>2, OneOf, AtEnd
  <2>2. QED
    BY <1>1, <1>4, <2>1
<1>7. StreamOK(s)'
  BY <1>3, <1>4, <1>5, <1>6, OneOf, StreamBecomes
<1>8. OnlyStream(s)
  BY <1>1, <1>3 DEF OnlyStream, StreamsInv
<1>9. QED
  BY <1>7, <1>8, OneStream

LEMMA FireKeepsStreams ==
  ASSUME StreamsInv, NEW s \in Streams, Fire(s)
  PROVE  StreamsInv'
<1> DEFINE task == [kind |-> "flush", n |-> 0]
<1>1. DOMAIN buffer = Streams /\ DOMAIN queue = Streams
  BY DEF StreamsInv
<1>2. task \in Task /\ task.kind = "flush"
  BY DEF Task
<1>3. buffer' = [buffer EXCEPT ![s].timer = "fired"] /\ queue' = [queue EXCEPT ![s] = Append(queue[s], task)]
      /\ arrived' = arrived /\ work' = work /\ lost' = lost /\ rows' = rows
  BY DEF Fire
<1> HIDE DEF task
<1>4. buffer'[s] = [text |-> buffer[s].text, timer |-> "fired"] /\ queue'[s] = Append(queue[s], task)
  <2>1. buffer'[s] = [buffer[s] EXCEPT !.timer = "fired"] /\ queue'[s] = Append(queue[s], task)
    BY <1>1, <1>3
  <2>2. buffer[s] = [text |-> buffer[s].text, timer |-> buffer[s].timer]
    BY OneOf
  <2>3. QED
    BY <2>1, <2>2, Retimed
<1>5. Fits(s, rows, work[s].todo, buffer[s].text, Append(queue[s], task), arrived[s], s \notin lost)
  BY <1>2, OneOf, FlushQueued
<1>6. queue'[s] \in Seq(Task)
  <2>1. Append(queue[s], task) \in Seq(Task)
    BY <1>2, OneOf, AtEnd
  <2>2. QED
    BY <1>4, <2>1
<1>7. StreamOK(s)'
  <2>1. Fits(s, rows', work[s].todo, buffer[s].text, queue'[s], arrived'[s], s \notin lost')
    BY <1>3, <1>4, <1>5
  <2>2. work'[s] = [todo |-> work[s].todo, made |-> work[s].made] /\ arrived'[s] \in Nat
        /\ "fired" \in {"none", "set", "fired"}
    BY <1>3, OneOf
  <2>3. work[s].todo \in Seq(Piece(s)) /\ buffer[s].text \in Seq(Piece(s)) /\ work[s].made \in Nat
    BY OneOf
  <2>4. QED
    BY <1>4, <1>6, <2>1, <2>2, <2>3, StreamBecomes
<1>8. OnlyStream(s)
  BY <1>1, <1>3 DEF OnlyStream, StreamsInv
<1>9. QED
  BY <1>7, <1>8, OneStream

LEMMA CreateKeepsStreams ==
  ASSUME StreamsInv, NEW s \in Streams, Create(s)
  PROVE  StreamsInv'
<1> DEFINE todo == work[s].todo
<1>1. DOMAIN work = Streams /\ todo \in Seq(Piece(s)) /\ todo # <<>> /\ rows \in Seq(Whole)
  BY OneOf DEF StreamsInv, Create
<1>2. rows' = Append(rows, Head(todo)) /\ work' = [work EXCEPT ![s] = [todo |-> Tail(todo), made |-> Len(rows) + 1]]
      /\ arrived' = arrived /\ queue' = queue /\ buffer' = buffer /\ lost' = lost
  BY DEF Create
<1>3. Fits(s, rows, todo, buffer[s].text, queue[s], arrived[s], s \notin lost)
  BY OneOf
<1>4. Head(todo) \in Piece(s) /\ Tail(todo) \in Seq(Piece(s)) /\ Len(rows) + 1 \in Nat
  BY <1>1, OffHead, IsSeq
<1>5. work'[s] = [todo |-> Tail(todo), made |-> Len(rows) + 1]
  BY <1>1, <1>2
<1> HIDE DEF todo
<1>6. Fits(s, rows', Tail(todo), buffer[s].text, queue[s], arrived[s], s \notin lost)
  BY <1>1, <1>2, <1>3, OneOf, RowWritten
<1>7. StreamOK(s)'
  <2>1. Fits(s, rows', Tail(todo), buffer[s].text, queue'[s], arrived'[s], s \notin lost')
    BY <1>2, <1>6
  <2>2. /\ buffer'[s] = [text |-> buffer[s].text, timer |-> buffer[s].timer]
        /\ buffer[s].timer \in {"none", "set", "fired"} /\ buffer[s].text \in Seq(Piece(s))
        /\ arrived'[s] \in Nat /\ queue'[s] \in Seq(Task)
    BY <1>2, OneOf
  <2>3. QED
    BY <1>4, <1>5, <2>1, <2>2, StreamBecomes
<1>8. OnlyStream(s)
  BY <1>1, <1>2, <1>4 DEF OnlyStream, StreamsInv
<1>9. QED
  BY <1>7, <1>8, OneStream

LEMMA TellKeepsStreams ==
  ASSUME StreamsInv, NEW s \in Streams, Tell(s)
  PROVE  StreamsInv'
<1>1. DOMAIN work = Streams
  BY DEF StreamsInv
<1>2. work' = [work EXCEPT ![s].made = 0]
      /\ arrived' = arrived /\ queue' = queue /\ buffer' = buffer /\ lost' = lost /\ rows' = rows
  BY DEF Tell
<1>3. work'[s] = [todo |-> work[s].todo, made |-> 0]
  <2>1. work'[s] = [work[s] EXCEPT !.made = 0]
    BY <1>1, <1>2
  <2>2. work[s] = [todo |-> work[s].todo, made |-> work[s].made]
    BY OneOf
  <2>3. QED
    BY <2>1, <2>2, Reworked
<1>4. StreamOK(s)'
  BY <1>2, <1>3, OneOf, StreamBecomes
<1>5. OnlyStream(s)
  BY <1>1, <1>2 DEF OnlyStream, StreamsInv
<1>6. QED
  BY <1>4, <1>5, OneStream

LEMMA CreateFailsKeepsStreams ==
  ASSUME StreamsInv, NEW s \in Streams, CreateFails(s)
  PROVE  StreamsInv'
<1>1. DOMAIN work = Streams
  BY DEF StreamsInv
<1>2. work' = [work EXCEPT ![s].todo = <<>>] /\ lost' = lost \cup {s}
      /\ arrived' = arrived /\ queue' = queue /\ buffer' = buffer /\ rows' = rows
  BY DEF CreateFails, Uses
<1>3. work'[s] = [todo |-> <<>>, made |-> work[s].made]
  <2>1. work'[s] = [work[s] EXCEPT !.todo = <<>>]
    BY <1>1, <1>2
  <2>2. work[s] = [todo |-> work[s].todo, made |-> work[s].made]
    BY OneOf
  <2>3. QED
    BY <2>1, <2>2, Reworked
<1>4. Fits(s, rows, <<>>, buffer[s].text, queue[s], arrived[s], FALSE)
  BY OneOf, TaskGivenUp
<1>5. (s \notin lost') = FALSE /\ <<>> \in Seq(Piece(s))
  BY <1>2
<1>6. Fits(s, rows', <<>>, buffer[s].text, queue'[s], arrived'[s], s \notin lost')
  BY <1>2, <1>4, <1>5
<1>7. StreamOK(s)'
  BY <1>2, <1>3, <1>5, <1>6, OneOf, StreamBecomes
<1>8. OnlyStream(s)
  BY <1>1, <1>2 DEF OnlyStream, StreamsInv
<1>9. QED
  BY <1>7, <1>8, OneStream


\* A task is taken from the queue of a stream that rests.
LEMMA Handed ==
  ASSUME StreamsInv, NEW s \in Streams, Takes(s)
  PROVE  /\ queue[s] # <<>> /\ queue'[s] = Tail(queue[s]) /\ queue'[s] \in Seq(Task)
         /\ Head(queue[s]) \in Task
         /\ work[s] = [todo |-> <<>>, made |-> 0]
         /\ arrived' = arrived /\ lost' = lost /\ rows' = rows
         /\ DOMAIN queue' = Streams /\ \A t \in Streams \ {s} : queue'[t] = queue[t]
         /\ Fits(s, rows, <<>>, buffer[s].text, queue[s], arrived[s], s \notin lost)
<1>1. DOMAIN queue = Streams
  BY DEF StreamsInv
<1>2. /\ work[s] = [todo |-> <<>>, made |-> 0] /\ queue[s] # <<>>
      /\ queue' = [queue EXCEPT ![s] = Tail(queue[s])]
      /\ arrived' = arrived /\ lost' = lost /\ rows' = rows
  BY <1>1 DEF Takes, Rests
<1>3. queue[s] \in Seq(Task) /\ Fits(s, rows, work[s].todo, buffer[s].text, queue[s], arrived[s], s \notin lost)
  BY OneOf
<1>4. work[s].todo = <<>>
  BY <1>2
<1>5. Fits(s, rows, <<>>, buffer[s].text, queue[s], arrived[s], s \notin lost)
  BY <1>3, <1>4
<1>6. Tail(queue[s]) \in Seq(Task) /\ Head(queue[s]) \in Task
  BY <1>2, <1>3, Behind
<1>7. QED
  BY <1>1, <1>2, <1>5, <1>6

LEMMA TaskTaken ==
  ASSUME StreamsInv, NEW s \in Streams, Takes(s),
         NEW T \in Seq(Piece(s)), NEW X \in Seq(Piece(s)), NEW timer \in {"none", "set", "fired"},
         DOMAIN work' = Streams, DOMAIN buffer' = Streams,
         \A t \in Streams \ {s} : work'[t] = work[t] /\ buffer'[t] = buffer[t],
         work'[s] = [todo |-> T, made |-> 0], buffer'[s] = [text |-> X, timer |-> timer],
         Fits(s, rows, T, X, Tail(queue[s]), arrived[s], s \notin lost)
  PROVE  StreamsInv'
<1>1. Fits(s, rows', T, X, queue'[s], arrived'[s], s \notin lost')
  BY Handed
<1>2. arrived'[s] \in Nat /\ queue'[s] \in Seq(Task) /\ 0 \in Nat
  BY Handed, OneOf
<1>3. StreamOK(s)'
  BY <1>1, <1>2, StreamBecomes
<1>4. OnlyStream(s)
  BY Handed DEF OnlyStream, StreamsInv
<1>5. QED
  BY <1>3, <1>4, OneStream

\* The text with the next piece.
LEMMA TextLonger ==
  ASSUME NEW s \in Streams, NEW R, NEW X \in Seq(Piece(s)), NEW Q \in Seq(Task), NEW a, NEW kept,
         Q # <<>>, Head(Q).kind # "flush", Fits(s, R, <<>>, X, Q, a, kept)
  PROVE  Joined(s, X, Head(Q)) \in Seq(Piece(s)) /\ Longer(X, Joined(s, X, Head(Q)), Head(Q).n)
<1>1. Head(Q) \in Task /\ Head(Q) = Q[1] /\ 1 \in Asks(Q)
  BY Behind
<1>2. CASE X # <<>> /\ Last(X).kind = Head(Q).kind
  <2>1. \A k \in DOMAIN X : X[k].to < Head(Q).n
    BY <1>1 DEF Fits, Ordered, AheadOfAll
  <2>2. Joined(s, X, Head(Q)) = [X EXCEPT ![Len(X)].to = Head(Q).n]
    BY <1>2 DEF Joined
  <2>3. Head(Q).n \in Nat
    BY <1>1, Ints
  <2>4. QED
    BY <1>2, <2>1, <2>2, <2>3, LastLonger
<1>3. CASE ~(X # <<>> /\ Last(X).kind = Head(Q).kind)
  <2>1. Joined(s, X, Head(Q)) = Append(X, RowOf(s, Head(Q)))
    BY <1>3 DEF Joined
  <2>2. QED
    BY <1>1, <2>1, OneMore
<1>4. QED
  BY <1>2, <1>3

LEMMA TakeTextKeepsStreams ==
  ASSUME StreamsInv, NEW s \in Streams, TakeText(s)
  PROVE  StreamsInv'
<1> DEFINE task == Head(queue[s])
           X == buffer[s].text
           Y == Joined(s, X, task)
<1>1. Takes(s) /\ task.kind # "flush" /\ DOMAIN work = Streams /\ DOMAIN buffer = Streams
  BY DEF TakeText, Text, StreamsInv
<1>2. /\ X \in Seq(Piece(s)) /\ queue[s] \in Seq(Task) /\ arrived[s] \in Nat /\ rows \in Seq(Whole)
      /\ queue[s] # <<>> /\ work[s] = [todo |-> <<>>, made |-> 0]
      /\ Fits(s, rows, <<>>, X, queue[s], arrived[s], s \notin lost)
      /\ buffer[s].timer \in {"none", "set", "fired"} /\ <<>> \in Seq(Piece(s))
  BY <1>1, OneOf, Handed
<1>3. Y \in Seq(Piece(s)) /\ Longer(X, Y, task.n)
  BY <1>1, <1>2, TextLonger
<1> HIDE DEF X
<1>4. Fits(s, rows, <<>>, Y, Tail(queue[s]), arrived[s], s \notin lost)
  BY <1>1, <1>2, <1>3, UpdateTaken
<1>5. CASE Size(Y) >= FullAt
  <2>1. buffer' = [buffer EXCEPT ![s] = Flushed(s)] /\ Writes(s, Y)
    BY <1>5 DEF TakeText, X
  <2>2. work' = [work EXCEPT ![s].todo = Y] /\ buffer'[s] = [text |-> <<>>, timer |-> "none"]
    BY <1>1, <2>1 DEF Writes, Flushed
  <2>3. work'[s] = [work[s] EXCEPT !.todo = Y]
    BY <1>1, <2>2
  <2>4. work'[s] = [todo |-> Y, made |-> 0]
    BY <1>2, <2>3, Reworked
  <2>5. Fits(s, rows, Y, <<>>, Tail(queue[s]), arrived[s], s \notin lost)
    BY <1>4, Released
  <2>6. DOMAIN work' = Streams /\ DOMAIN buffer' = Streams
        /\ \A t \in Streams \ {s} : work'[t] = work[t] /\ buffer'[t] = buffer[t]
    BY <1>1, <2>1, <2>2
  <2>7. QED
    BY <1>1, <1>2, <1>3, <2>2, <2>4, <2>5, <2>6, TaskTaken
<1>6. CASE ~(Size(Y) >= FullAt)
  <2> DEFINE timer == IF buffer[s].timer = "none" THEN "set" ELSE buffer[s].timer
  <2>1. buffer' = [buffer EXCEPT ![s] = [text |-> Y, timer |-> timer]] /\ work' = work
    BY <1>1, <1>6 DEF TakeText, X
  <2>2. timer \in {"none", "set", "fired"}
    BY <1>2
  <2> HIDE DEF timer
  <2>3. /\ DOMAIN work' = Streams /\ DOMAIN buffer' = Streams
        /\ \A t \in Streams \ {s} : work'[t] = work[t] /\ buffer'[t] = buffer[t]
        /\ buffer'[s] = [text |-> Y, timer |-> timer] /\ work'[s] = [todo |-> <<>>, made |-> 0]
    BY <1>1, <1>2, <2>1
  <2>4. QED
    BY <1>1, <1>2, <1>3, <1>4, <2>2, <2>3, TaskTaken
<1>7. QED
  BY <1>5, <1>6

LEMMA TakeOtherKeepsStreams ==
  ASSUME StreamsInv, NEW s \in Streams, TakeOther(s)
  PROVE  StreamsInv'
<1> DEFINE task == Head(queue[s])
           X == buffer[s].text
           Y == Append(X, RowOf(s, task))
<1>1. Takes(s) /\ task.kind # "flush" /\ DOMAIN work = Streams /\ DOMAIN buffer = Streams
  BY DEF TakeOther, StreamsInv
<1>2. /\ X \in Seq(Piece(s)) /\ queue[s] \in Seq(Task) /\ arrived[s] \in Nat /\ rows \in Seq(Whole)
      /\ queue[s] # <<>> /\ task \in Task /\ work[s] = [todo |-> <<>>, made |-> 0]
      /\ Fits(s, rows, <<>>, X, queue[s], arrived[s], s \notin lost)
      /\ <<>> \in Seq(Piece(s)) /\ "none" \in {"none", "set", "fired"}
  BY <1>1, OneOf, Handed
<1>3. Y \in Seq(Piece(s)) /\ Longer(X, Y, task.n)
  BY <1>1, <1>2, OneMore
<1>4. Writes(s, Y) /\ buffer' = [buffer EXCEPT ![s] = Flushed(s)]
  BY DEF TakeOther
<1> HIDE DEF X, Y
<1>5. Fits(s, rows, <<>>, Y, Tail(queue[s]), arrived[s], s \notin lost)
  BY <1>1, <1>2, <1>3, UpdateTaken
<1>6. Fits(s, rows, Y, <<>>, Tail(queue[s]), arrived[s], s \notin lost)
  BY <1>5, Released
<1>7. work' = [work EXCEPT ![s].todo = Y] /\ buffer'[s] = [text |-> <<>>, timer |-> "none"]
  BY <1>1, <1>4 DEF Writes, Flushed
<1>8. work'[s] = [todo |-> Y, made |-> 0]
  <2>1. work'[s] = [work[s] EXCEPT !.todo = Y]
    BY <1>1, <1>7
  <2>2. QED
    BY <1>2, <2>1, Reworked
<1>9. DOMAIN work' = Streams /\ DOMAIN buffer' = Streams
      /\ \A t \in Streams \ {s} : work'[t] = work[t] /\ buffer'[t] = buffer[t]
  BY <1>1, <1>4, <1>7
<1>10. QED
  BY <1>1, <1>2, <1>3, <1>6, <1>7, <1>8, <1>9, TaskTaken

LEMMA TakeFlushKeepsStreams ==
  ASSUME StreamsInv, NEW s \in Streams, TakeFlush(s)
  PROVE  StreamsInv'
<1> DEFINE X == buffer[s].text
           timer == IF X = <<>> THEN buffer[s].timer ELSE "none"
<1>1. Takes(s) /\ Head(queue[s]).kind = "flush" /\ DOMAIN work = Streams /\ DOMAIN buffer = Streams
  BY DEF TakeFlush, StreamsInv
<1>2. /\ X \in Seq(Piece(s)) /\ queue[s] \in Seq(Task)
      /\ queue[s] # <<>> /\ work[s] = [todo |-> <<>>, made |-> 0]
      /\ Fits(s, rows, <<>>, X, queue[s], arrived[s], s \notin lost)
      /\ <<>> \in Seq(Piece(s)) /\ timer \in {"none", "set", "fired"}
      /\ buffer[s] = [text |-> X, timer |-> buffer[s].timer]
  BY <1>1, OneOf, Handed
<1>3. Writes(s, X) /\ buffer' = IF X = <<>> THEN buffer ELSE [buffer EXCEPT ![s] = Flushed(s)]
  BY DEF TakeFlush
<1>4. buffer'[s] = [text |-> <<>>, timer |-> timer]
  <2>1. CASE X = <<>>
    BY <1>2, <1>3, <2>1
  <2>2. CASE X # <<>>
    BY <1>1, <1>3, <2>2 DEF Flushed
  <2>3. QED
    BY <2>1, <2>2
<1> HIDE DEF X, timer
<1>5. Fits(s, rows, <<>>, X, Tail(queue[s]), arrived[s], s \notin lost)
  BY <1>1, <1>2, FlushTaken
<1>6. Fits(s, rows, X, <<>>, Tail(queue[s]), arrived[s], s \notin lost)
  BY <1>5, Released
<1>7. work'[s] = [todo |-> X, made |-> 0]
  <2>1. work'[s] = [work[s] EXCEPT !.todo = X]
    BY <1>1, <1>3 DEF Writes
  <2>2. QED
    BY <1>2, <2>1, Reworked
<1>8. DOMAIN work' = Streams /\ DOMAIN buffer' = Streams
      /\ \A t \in Streams \ {s} : work'[t] = work[t] /\ buffer'[t] = buffer[t]
  BY <1>1, <1>3 DEF Writes
<1>9. QED
  BY <1>1, <1>2, <1>4, <1>6, <1>7, <1>8, TaskTaken

LEMMA RestartKeepsStreams ==
  ASSUME StreamsInv, Restart
  PROVE  StreamsInv'
<1>1. /\ queue' = [s \in Streams |-> <<>>]
      /\ buffer' = [s \in Streams |-> [text |-> <<>>, timer |-> "none"]]
      /\ work' = [s \in Streams |-> [todo |-> <<>>, made |-> 0]]
      /\ lost' = {s \in Streams : arrived[s] > 0}
      /\ arrived' = arrived /\ rows' = rows
  BY DEF Restart, Cut
<1>2. ASSUME NEW s \in Streams
      PROVE  StreamOK(s)'
  <2>1. arrived[s] \in Nat /\ Fits(s, rows, work[s].todo, buffer[s].text, queue[s], arrived[s], s \notin lost)
    BY OneOf
  <2>2. s \notin lost' => arrived[s] = 0
    BY <1>1, <2>1
  <2>3. Fits(s, rows, <<>>, <<>>, <<>>, arrived[s], s \notin lost')
    BY <2>1, <2>2, RowsOnly
  <2>4. Fits(s, rows', <<>>, <<>>, queue'[s], arrived'[s], s \notin lost')
    BY <1>1, <2>3
  <2>5. /\ work'[s] = [todo |-> <<>>, made |-> 0] /\ buffer'[s] = [text |-> <<>>, timer |-> "none"]
        /\ <<>> \in Seq(Piece(s)) /\ 0 \in Nat /\ "none" \in {"none", "set", "fired"}
        /\ arrived'[s] \in Nat /\ queue'[s] \in Seq(Task)
    BY <1>1, <2>1
  <2>6. QED
    BY <2>4, <2>5, StreamBecomes
<1>3. /\ rows' \in Seq(Whole) /\ DOMAIN arrived' = Streams /\ DOMAIN queue' = Streams
      /\ DOMAIN buffer' = Streams /\ DOMAIN work' = Streams
  BY <1>1 DEF StreamsInv
<1>4. QED
  BY <1>2, <1>3 DEF StreamsInv

\* The actions of the page.
PageStep ==
  \/ Reconnect \/ Register \/ Opens \/ Drop \/ RunMade
  \/ \E f \in Fetches : \/ Fetching(f) \/ Refresh(f) \/ FetchFails(f) \/ Operate(f) \/ SetSession(f)
                        \/ \E r \in Runs : Select(f, r)
                        \/ \E op \in {"start", "step"} : Start(f, op)

LEMMA PageLeavesStreams ==
  ASSUME PageStep
  PROVE  UNCHANGED <<scene, streamVars, rows>>
<1>1. CASE Reconnect \/ Register \/ Opens \/ Drop \/ RunMade
  BY <1>1 DEF Reconnect, Register, Opens, Drop, RunMade, Paging
<1>2. ASSUME NEW f \in Fetches, Fetching(f)
      PROVE  UNCHANGED <<scene, streamVars, rows>>
  BY <1>2 DEF Fetching, GotIssue, SessionRun, IssueRun, ListRead, Merge, Selected, Started, Operated,
              SessionReceive, IssueReceive, Receives, Paging
<1>3. ASSUME NEW f \in Fetches, Refresh(f) \/ FetchFails(f) \/ Operate(f) \/ SetSession(f)
      PROVE  UNCHANGED <<scene, streamVars, rows>>
  BY <1>3 DEF Refresh, FetchFails, Operate, SetSession, Paging
<1>4. ASSUME NEW f \in Fetches, NEW r \in Runs, Select(f, r)
      PROVE  UNCHANGED <<scene, streamVars, rows>>
  BY <1>4 DEF Select, Paging
<1>5. ASSUME NEW f \in Fetches, NEW op \in {"start", "step"}, Start(f, op)
      PROVE  UNCHANGED <<scene, streamVars, rows>>
  BY <1>5 DEF Start, Paging
<1>6. QED
  BY <1>1, <1>2, <1>3, <1>4, <1>5 DEF PageStep

LEMMA StreamsStep ==
  ASSUME StreamsInv, [ConsoleNext]_consoleVars
  PROVE  StreamsInv'
<1>1. ASSUME UNCHANGED <<streamVars, rows>>
      PROVE  StreamsInv'
  BY <1>1 DEF StreamsInv, StreamOK, streamVars
<1>2. ASSUME NEW s \in Streams, Flowing(s)
      PROVE  StreamsInv'
  BY <1>2, TakeTextKeepsStreams, TakeOtherKeepsStreams, TakeFlushKeepsStreams, FireKeepsStreams,
     CreateKeepsStreams, TellKeepsStreams DEF Flowing
<1>3. CASE PageStep
  BY <1>1, <1>3, PageLeavesStreams
<1>4. CASE UNCHANGED consoleVars
  BY <1>1, <1>4 DEF consoleVars
<1>5. QED
  BY <1>2, <1>3, <1>4, CreateFailsKeepsStreams, ArriveKeepsStreams, RestartKeepsStreams
     DEF ConsoleNext, PageStep

\* Pieces of the four stages.
LEMMA PieceIs ==
  ASSUME StreamsInv, NEW s \in Streams, NEW p \in Pieces(s)
  PROVE  \/ /\ p.stage = 1 /\ p.at \in Mine(s, rows) /\ p.from = rows[p.at].from /\ p.to = rows[p.at].to
         \/ /\ p.stage = 2 /\ p.at \in DOMAIN work[s].todo
            /\ p.from = work[s].todo[p.at].from /\ p.to = work[s].todo[p.at].to
         \/ /\ p.stage = 3 /\ p.at \in DOMAIN buffer[s].text
            /\ p.from = buffer[s].text[p.at].from /\ p.to = buffer[s].text[p.at].to
         \/ /\ p.stage = 4 /\ p.at \in Asks(queue[s])
            /\ p.from = queue[s][p.at].n /\ p.to = queue[s][p.at].n
BY DEF Pieces, Mine, Asks

LEMMA StreamsImplyUpdatesKept == StreamsInv => UpdatesKept
<1> SUFFICES ASSUME StreamsInv, NEW s \in Streams
             PROVE  /\ \A p, q \in Pieces(s) : Before(p, q) => p.to < q.from
                    /\ s \notin lost => \A n \in 1 .. arrived[s] : \E p \in Pieces(s) : n \in p.from .. p.to
  BY DEF UpdatesKept
<1> DEFINE R == rows
           T == work[s].todo
           X == buffer[s].text
           Q == queue[s]
<1>1. /\ Fits(s, R, T, X, Q, arrived[s], s \notin lost) /\ arrived[s] \in Nat
      /\ R \in Seq(Whole) /\ T \in Seq(Piece(s)) /\ X \in Seq(Piece(s)) /\ Q \in Seq(Task)
  BY OneOf
<1>2. \A p, q \in Pieces(s) : Before(p, q) => p.to < q.from
  <2> SUFFICES ASSUME NEW p \in Pieces(s), NEW q \in Pieces(s), Before(p, q)
               PROVE  p.to < q.from
    OBVIOUS
  <2>1. Ordered(s, R, T, X, Q)
    BY <1>1 DEF Fits
  <2>2. (p.stage = 1 \/ p.stage = 2 \/ p.stage = 3 \/ p.stage = 4)
        /\ (p.stage < q.stage \/ (p.stage = q.stage /\ p.at < q.at))
    BY PieceIs DEF Before
  <2>3. CASE p.stage = 1
    <3>1. p.at \in Mine(s, R) /\ p.to = R[p.at].to
      BY <2>3, PieceIs
    <3>2. QED
      BY <2>1, <2>2, <2>3, <3>1, PieceIs DEF Ordered, OneByOne, Ahead, AheadOfAll
  <2>4. CASE p.stage = 2
    <3>1. p.at \in DOMAIN T /\ p.to = T[p.at].to
      BY <2>4, PieceIs
    <3>2. QED
      BY <2>1, <2>2, <2>4, <3>1, PieceIs DEF Ordered, OneByOne, Ahead, AheadOfAll
  <2>5. CASE p.stage = 3
    <3>1. p.at \in DOMAIN X /\ p.to = X[p.at].to
      BY <2>5, PieceIs
    <3>2. QED
      BY <2>1, <2>2, <2>5, <3>1, PieceIs DEF Ordered, OneByOne, Ahead, AheadOfAll
  <2>6. CASE p.stage = 4
    <3>1. p.at \in Asks(Q) /\ p.to = Q[p.at].n
      BY <2>6, PieceIs
    <3>2. QED
      BY <2>1, <2>2, <2>6, <3>1, PieceIs DEF Ordered, OneByOne, Ahead, AheadOfAll
  <2>7. QED
    BY <2>2, <2>3, <2>4, <2>5, <2>6
<1>3. ASSUME s \notin lost, NEW n \in 1 .. arrived[s]
      PROVE  \E p \in Pieces(s) : n \in p.from .. p.to
  <2>1. Somewhere(s, R, T, X, Q, n)
    BY <1>1, <1>3 DEF Fits
  <2>2. n \in Int
    BY <1>1
  <2>3. ASSUME NEW p \in Pieces(s), p.from \in Int, p.to \in Int, p.from <= n, n <= p.to
        PROVE  \E pp \in Pieces(s) : n \in pp.from .. pp.to
    BY <2>2, <2>3
  <2>4. ASSUME NEW k \in Mine(s, R), R[k].from <= n /\ n <= R[k].to
        PROVE  \E p \in Pieces(s) : n \in p.from .. p.to
    <3> DEFINE p == [stage |-> 1, at |-> k, from |-> R[k].from, to |-> R[k].to]
    <3>1. p \in Pieces(s) /\ p.from = R[k].from /\ p.to = R[k].to
      BY DEF Pieces, Mine
    <3>2. R[k].from \in Int /\ R[k].to \in Int
      BY <1>1, IsSeq, Ints DEF Mine
    <3> HIDE DEF p
    <3>3. QED
      BY <2>3, <2>4, <3>1, <3>2
  <2>5. ASSUME NEW k \in DOMAIN T, T[k].from <= n /\ n <= T[k].to
        PROVE  \E p \in Pieces(s) : n \in p.from .. p.to
    <3> DEFINE p == [stage |-> 2, at |-> k, from |-> T[k].from, to |-> T[k].to]
    <3>1. p \in Pieces(s) /\ p.from = T[k].from /\ p.to = T[k].to
      BY DEF Pieces
    <3>2. T[k].from \in Int /\ T[k].to \in Int
      BY <1>1, IsSeq, Ints DEF Piece
    <3> HIDE DEF p
    <3>3. QED
      BY <2>3, <2>5, <3>1, <3>2
  <2>6. ASSUME NEW k \in DOMAIN X, X[k].from <= n /\ n <= X[k].to
        PROVE  \E p \in Pieces(s) : n \in p.from .. p.to
    <3> DEFINE p == [stage |-> 3, at |-> k, from |-> X[k].from, to |-> X[k].to]
    <3>1. p \in Pieces(s) /\ p.from = X[k].from /\ p.to = X[k].to
      BY DEF Pieces
    <3>2. X[k].from \in Int /\ X[k].to \in Int
      BY <1>1, IsSeq, Ints DEF Piece
    <3> HIDE DEF p
    <3>3. QED
      BY <2>3, <2>6, <3>1, <3>2
  <2>7. ASSUME NEW k \in Asks(Q), Q[k].n = n
        PROVE  \E p \in Pieces(s) : n \in p.from .. p.to
    <3> DEFINE p == [stage |-> 4, at |-> k, from |-> Q[k].n, to |-> Q[k].n]
    <3>1. p \in Pieces(s) /\ p.from = n /\ p.to = n
      BY <2>7 DEF Pieces, Asks
    <3> HIDE DEF p
    <3>2. QED
      BY <2>2, <2>3, <3>1
  <2>8. QED
    BY <2>1, <2>4, <2>5, <2>6, <2>7 DEF Somewhere
<1>4. QED
  BY <1>2, <1>3

\* The updates of an agent reach the Event rows in their order, each once, and none is lost
\* on the way but by a failure (gateway.ts:663).
THEOREM UpdatesKeptHolds == ConsoleSpec => []UpdatesKept
<1>1. ConsoleInit => StreamsInv
  BY StreamsBegin
<1>2. StreamsInv /\ [ConsoleNext]_consoleVars => StreamsInv'
  BY StreamsStep
<1>3. QED
  BY <1>1, <1>2, StreamsImplyUpdatesKept, PTL DEF ConsoleSpec

-----------------------------------------------------------------------------
(* A page: the rows R and those of them not yet told of (M), the socket L    *)
(* and what is on it (W), the events V that are shown of the run r, what is  *)
(* being fetched (F), and the cover C.                                       *)

RunIn(R, k)  == RunOf[R[k].stream]
RowsIn(R, r) == {k \in DOMAIN R : RunIn(R, k) = r}
Small(R, r)  == Cardinality(RowsIn(R, r)) <= ListLimit
Rising(q)    == \A i, j \in DOMAIN q : i < j => q[i] < q[j]
Full(q)      == Len(q) >= ShowLimit

Views == [open : BOOLEAN, run : Int, latest : Int, shown : Seq(Nat), snapshot : Int,
          looked : SUBSET Int]
Calls == [op : {"idle", "refresh", "select", "start", "step", "operate", "switch"},
          at : {"idle", "issue", "run", "list", "merge", "answer"},
          open : BOOLEAN, run : Int, latest : Int, got : Seq(Nat), conn : BOOLEAN]

Known(R, M, W, V, F) ==
  /\ M \subseteq DOMAIN R /\ ToSet(W) \subseteq DOMAIN R /\ ToSet(V) \subseteq DOMAIN R
  /\ \A f \in Fetches : ToSet(F[f].got) \subseteq DOMAIN R

\* Only an unbroken socket makes a list a cover.
Attached(L, F, C) ==
  /\ C # 0 => L = "up"
  /\ \A f \in Fetches : F[f].conn => L = "up"

\* What is shown, and the socket, and the list S that is to come account for the rows from
\* c on, unless there is no room for them.
Reached(R, M, W, V, r, c, S) ==
  ~Full(V) =>
    \A k \in DOMAIN R \ M :
      k >= c /\ RunIn(R, k) = r => k \in S \/ k \in ToSet(V) \/ k \in ToSet(W)

\* A list that is still to be merged accounts, with the socket, for as much as one that is merged.
Covered(R, M, W, V, r, F, C) ==
  /\ C # 0 => Reached(R, M, W, V, r, C, {})
  /\ \A f \in Fetches :
       F[f].at = "merge" /\ F[f].conn /\ F[f].run = r
         => Reached(R, M, W, V, r, CoverOf(F[f].got), ToSet(F[f].got))

\* A list has rows of its run, and while the run is small all of them up to its last.
Read(R, call) ==
  \A a \in ToSet(call.got) :
    /\ RunIn(R, a) = call.run
    /\ Small(R, call.run) =>
         \A b \in DOMAIN R : b < a /\ RunIn(R, b) = call.run => b \in ToSet(call.got)

ListsRead(R, F) == \A f \in Fetches : Rising(F[f].got) /\ (F[f].at = "merge" => Read(R, F[f]))

\* The socket brings the rows of a stream in their order, before the one not yet told of.
Brought(R, M, W) ==
  /\ \A i, j \in DOMAIN W : i < j /\ R[W[i]].stream = R[W[j]].stream => W[i] < W[j]
  /\ \A i \in DOMAIN W, k \in M : R[W[i]].stream = R[k].stream => W[i] < k

\* The rows of a stream are in their order in what is shown, until it has to let go of some.
InOrder(R, q) ==
  \A i, j \in DOMAIN q :
    i < j => /\ q[i] # q[j]
             /\ R[q[i]].stream = R[q[j]].stream /\ Small(R, RunIn(R, q[i])) /\ ~Full(q)
                  => q[i] < q[j]

\* It lacks no row that is still to come before another of its stream.
NoneBehind(R, M, W, q) ==
  ~Full(q) => \A a \in ToSet(q), b \in ToSet(W) \cup M :
    R[a].stream = R[b].stream /\ Small(R, RunIn(R, a)) /\ b < a => b \in ToSet(q)

PageOK(R, M, L, W, V, r, F, C) ==
  /\ L \in {"closed", "handshake", "up"} /\ C \in Nat /\ W \in Seq(Nat) /\ V \in Seq(Nat)
  /\ F \in [Fetches -> Calls]
  /\ Known(R, M, W, V, F) /\ Attached(L, F, C) /\ Covered(R, M, W, V, r, F, C)
  /\ ListsRead(R, F) /\ Brought(R, M, W) /\ InOrder(R, V) /\ NoneBehind(R, M, W, V)

Untold == {work[s].made : s \in Streams} \ {0}

PageInv ==
  /\ view \in Views /\ runs \in Int
  /\ \A s \in Streams : work[s].made # 0 => rows[work[s].made].stream = s
  /\ PageOK(rows, Untold, link, wire, view.shown, view.run, fetch, cover)

\* A finite set of numbers in ascending order.
LEMMA AscendingIs ==
  ASSUME NEW S \in SUBSET Nat, IsFiniteSet(S)
  PROVE  /\ Ascending(S) \in Seq(S)
         /\ Len(Ascending(S)) = Cardinality(S) /\ Cardinality(S) \in Nat
         /\ ToSet(Ascending(S)) = S
         /\ \A i, j \in DOMAIN Ascending(S) : i < j => Ascending(S)[i] < Ascending(S)[j]
<1> DEFINE below(k) == {j \in S : j < k}
           N == Cardinality(S)
           rank == [k \in S |-> Cardinality(below(k)) + 1]
           A == Ascending(S)
<1>1. N \in Nat
  BY FS_CardinalityType
<1>2. ASSUME NEW k \in S
      PROVE  IsFiniteSet(below(k)) /\ Cardinality(below(k)) \in Nat /\ rank[k] \in 1 .. N
  <2>1. IsFiniteSet(S \ {k}) /\ Cardinality(S \ {k}) = N - 1
    BY FS_RemoveElement
  <2>2. below(k) \in SUBSET (S \ {k})
    OBVIOUS
  <2>3. IsFiniteSet(below(k)) /\ Cardinality(below(k)) <= Cardinality(S \ {k})
    BY <2>1, <2>2, FS_Subset
  <2>4. Cardinality(below(k)) \in Nat
    BY <2>3, FS_CardinalityType
  <2>5. QED
    BY <1>1, <2>1, <2>3, <2>4
<1>3. ASSUME NEW k \in S, NEW l \in S, k < l
      PROVE  rank[k] < rank[l]
  <2>1. IsFiniteSet(below(k)) /\ Cardinality(below(k)) \in Nat
        /\ IsFiniteSet(below(l)) /\ Cardinality(below(l)) \in Nat
    BY <1>2
  <2>2. Cardinality(below(k) \cup {k}) = Cardinality(below(k)) + 1
    <3>1. k \notin below(k)
      OBVIOUS
    <3>2. QED
      BY <2>1, <3>1, FS_AddElement
  <2>3. below(k) \cup {k} \in SUBSET below(l)
    <3>1. k \in Int /\ l \in Int /\ \A j \in S : j \in Int
      OBVIOUS
    <3>2. \A j \in below(k) \cup {k} : j \in below(l)
      BY <1>3, <3>1
    <3>3. QED
      BY <3>2
  <2>4. Cardinality(below(k) \cup {k}) <= Cardinality(below(l))
    BY <2>1, <2>3, FS_Subset
  <2>5. QED
    BY <2>1, <2>2, <2>4
<1> HIDE DEF below
<1>4. rank \in Injection(S, 1 .. N)
  <2>1. rank \in [S -> 1 .. N]
    BY <1>2
  <2>2. ASSUME NEW k \in S, NEW l \in S, rank[k] = rank[l]
        PROVE  k = l
    <3>1. rank[k] \in Int /\ rank[l] \in Int /\ k \in Int /\ l \in Int
      BY <1>1, <1>2
    <3>2. k < l \/ l < k \/ k = l
      BY <3>1
    <3> HIDE DEF rank
    <3>3. QED
      BY <1>3, <2>2, <3>1, <3>2
  <2> HIDE DEF rank
  <2>3. QED
    BY <2>1, <2>2 DEF Injection, IsInjective
<1>5. Cardinality(1 .. N) = N /\ IsFiniteSet(1 .. N)
  BY <1>1, FS_Interval
<1>6. rank \in Surjection(S, 1 .. N)
  BY <1>4, <1>5, FS_Injection
<1>7. ASSUME NEW n \in 1 .. N
      PROVE  A[n] \in S /\ rank[A[n]] = n
  <2>1. PICK k \in S : rank[k] = n
    BY <1>6 DEF Surjection
  <2>2. Cardinality({j \in S : j < k}) = n - 1
    BY <1>1, <1>2, <2>1 DEF below
  <2>3. A[n] \in S /\ Cardinality({j \in S : j < A[n]}) = n - 1
    BY <2>2 DEF Ascending
  <2>4. QED
    BY <1>1, <2>3 DEF below
<1>8. DOMAIN A = 1 .. N /\ A \in [1 .. N -> S]
  <2> DEFINE e(n) == CHOOSE k \in S : Cardinality({j \in S : j < k}) = n - 1
  <2>1. A = [n \in 1 .. N |-> e(n)]
    BY DEF Ascending
  <2> HIDE DEF e, A
  <2>2. \A n \in 1 .. N : e(n) \in S
    BY <1>7, <2>1
  <2>3. QED
    BY <2>1, <2>2
<1>s. \A k \in S : k \in Int
  OBVIOUS
<1> HIDE DEF A, rank, N
<1>9. A \in Seq(S) /\ Len(A) = N
  <2>1. A \in Seq(S)
    BY <1>1, <1>8
  <2>2. QED
    BY <1>1, <1>8, <2>1, LenProperties
<1>10. \A i, j \in DOMAIN A : i < j => A[i] < A[j]
  <2> SUFFICES ASSUME NEW i \in 1 .. N, NEW j \in 1 .. N, i < j
               PROVE  A[i] < A[j]
    BY <1>8
  <2>1. A[i] \in S /\ A[j] \in S /\ rank[A[i]] = i /\ rank[A[j]] = j
    BY <1>7
  <2>2. A[i] \in Int /\ A[j] \in Int /\ i \in Int /\ j \in Int
    <3>1. A[i] \in Int /\ A[j] \in Int
      BY <1>s, <2>1
    <3>2. i \in Int /\ j \in Int
      BY <1>1
    <3>3. QED
      BY <3>1, <3>2
  <2>3. A[i] # A[j]
    BY <2>1, <2>2
  <2>4. A[j] < A[i] => rank[A[j]] < rank[A[i]]
    BY <1>3, <2>1
  <2>5. ~(A[j] < A[i])
    BY <2>1, <2>2, <2>4
  <2>6. QED
    BY <2>2, <2>3, <2>5
<1>11. ToSet(A) = S
  <2>1. \A k \in ToSet(A) : k \in S
    BY <1>7, <1>8 DEF ToSet
  <2>2. ASSUME NEW k \in S
        PROVE  k \in ToSet(A)
    <3>1. rank[k] \in 1 .. N
      BY <1>2
    <3>2. A[rank[k]] \in S /\ rank[A[rank[k]]] = rank[k]
      BY <1>7, <3>1
    <3>3. A[rank[k]] = k
      BY <1>4, <3>2 DEF Injection, IsInjective
    <3>4. QED
      BY <1>8, <3>1, <3>3 DEF ToSet
  <2>3. QED
    BY <2>1, <2>2
<1>12. QED
  BY <1>1, <1>9, <1>10, <1>11 DEF A, N

LEMMA RowsAreFinite ==
  ASSUME NEW R \in Seq(Whole), NEW r
  PROVE  /\ RowsIn(R, r) \in SUBSET Nat /\ RowsIn(R, r) \subseteq DOMAIN R /\ \A k \in RowsIn(R, r) : k >= 1
         /\ IsFiniteSet(RowsIn(R, r)) /\ Cardinality(RowsIn(R, r)) \in Nat
<1>1. Len(R) \in Nat /\ DOMAIN R = 1 .. Len(R)
  BY IsSeq
<1>2. IsFiniteSet(1 .. Len(R))
  BY <1>1, FS_Interval
<1>3. RowsIn(R, r) \in SUBSET (1 .. Len(R))
  BY <1>1 DEF RowsIn
<1>4. IsFiniteSet(RowsIn(R, r))
  BY <1>2, <1>3, FS_Subset
<1>5. Cardinality(RowsIn(R, r)) \in Nat
  BY <1>4, FS_CardinalityType
<1>6. QED
  BY <1>1, <1>3, <1>4, <1>5

\* The list of a run: the newest of its rows, all of them if the limit allows.
LEMMA ListedIs ==
  ASSUME rows \in Seq(Whole), NEW r
  PROVE  /\ Listed(r) \in Seq(Nat) /\ ToSet(Listed(r)) \subseteq RowsIn(rows, r) /\ Rising(Listed(r))
         /\ Small(rows, r) => RowsIn(rows, r) \subseteq ToSet(Listed(r))
         /\ \A k \in RowsIn(rows, r) : k >= CoverOf(Listed(r)) => k \in ToSet(Listed(r))
<1> DEFINE S   == RowsIn(rows, r)
           A   == Ascending(S)
           n   == Len(A)
           m   == IF n > ListLimit THEN n - ListLimit + 1 ELSE 1
           got == SubSeq(A, m, n)
<1>1. S \in SUBSET Nat /\ IsFiniteSet(S) /\ \A k \in S : k >= 1 /\ k \in Int
  BY RowsAreFinite
<1>2. A \in Seq(S) /\ n = Cardinality(S) /\ n \in Nat /\ ToSet(A) = S
      /\ \A i, j \in DOMAIN A : i < j => A[i] < A[j]
  BY <1>1, AscendingIs
<1>3. Listed(r) = got
  BY DEF Listed, RowsIn, RunIn, OfRun
<1>4. ListLimit \in Int /\ ListLimit >= 1
  BY LimitsArePositive
<1>l. Small(rows, r) <=> n <= ListLimit
  BY <1>2 DEF Small
<1>5. DOMAIN A = 1 .. n /\ \A i \in 1 .. n : A[i] \in S
  BY <1>2, LenProperties, ElementOfSeq
<1> HIDE DEF S, A, n
<1>6. m \in Int /\ m >= 1 /\ n \in Int
  BY <1>2, <1>4
<1>7. \A i \in m .. n : A[i] \in S
  BY <1>5, <1>6
<1>8. got \in Seq(S) /\ Len(got) = (IF m <= n THEN n - m + 1 ELSE 0)
      /\ \A i \in 1 .. n - m + 1 : got[i] = A[m + i - 1]
  BY <1>6, <1>7, SubSeqProperties
<1>9. DOMAIN got = 1 .. Len(got)
  BY <1>8, LenProperties
<1>10. Rising(got)
  <2> SUFFICES ASSUME NEW i \in DOMAIN got, NEW j \in DOMAIN got, i < j
               PROVE  got[i] < got[j]
    BY DEF Rising
  <2> HIDE DEF got, m
  <2>1. i \in 1 .. n - m + 1 /\ j \in 1 .. n - m + 1 /\ i \in Int /\ j \in Int
    BY <1>6, <1>8, <1>9
  <2>2. m + i - 1 \in 1 .. n /\ m + j - 1 \in 1 .. n /\ m + i - 1 < m + j - 1
    BY <1>6, <2>1
  <2>3. A[m + i - 1] < A[m + j - 1]
    BY <1>2, <1>5, <2>2
  <2>4. QED
    BY <1>8, <2>1, <2>3
<1>11. ToSet(got) \subseteq S /\ got \in Seq(Nat)
  <2>1. \A i \in DOMAIN got : got[i] \in S
    BY <1>8, IsSeq
  <2>2. ToSet(got) \subseteq S
    BY <2>1 DEF ToSet
  <2>3. got \in Seq(Nat)
    BY <1>1, <1>8, SeqMonotonic
  <2>4. QED
    BY <2>2, <2>3
<1>12. CASE n <= ListLimit
  <2>1. m = 1
    BY <1>2, <1>4, <1>12
  <2> HIDE DEF got, m
  <2>2. DOMAIN got = 1 .. n
    BY <1>2, <1>8, <1>9, <2>1
  <2>3. \A i \in 1 .. n : got[i] = A[i]
    BY <1>2, <1>8, <2>1
  <2>4. S \subseteq ToSet(got)
    BY <1>2, <1>5, <2>2, <2>3 DEF ToSet
  <2> QED
    BY <1>1, <1>3, <1>10, <1>11, <2>4 DEF S
<1>13. CASE n > ListLimit
  <2>0. m = n - ListLimit + 1
    BY <1>13
  <2> HIDE DEF m, got
  <2>a. m <= n /\ n - m + 1 = ListLimit
    BY <1>4, <1>6, <2>0
  <2>1. m = n - ListLimit + 1 /\ m <= n /\ Len(got) = ListLimit
    BY <1>8, <2>0, <2>a
  <2>2. CoverOf(got) = A[m]
    <3>1. CoverOf(got) = got[1]
      BY <1>4, <2>1 DEF CoverOf
    <3>2. 1 \in 1 .. n - m + 1 /\ m + 1 - 1 = m
      BY <1>4, <1>6, <2>1
    <3>3. got[1] = A[m + 1 - 1]
      BY <1>8, <3>2
    <3>4. QED
      BY <3>1, <3>2, <3>3
  <2>3. ASSUME NEW k \in S, k >= CoverOf(got)
        PROVE  k \in ToSet(got)
    <3>1. PICK i \in 1 .. n : A[i] = k
      BY <1>2, <1>5 DEF ToSet
    <3>2. A[m] \in Int /\ k \in Int /\ i \in Int /\ m \in 1 .. n
      <4>1. m \in 1 .. n /\ i \in Int
        BY <1>6, <2>1
      <4>2. QED
        BY <1>1, <1>5, <4>1
    <3>3. i >= m
      <4>1. i < m => A[i] < A[m]
        BY <1>2, <1>5, <3>2
      <4>2. QED
        BY <1>6, <2>2, <2>3, <3>1, <3>2, <4>1
    <3>4. i - m + 1 \in 1 .. n - m + 1 /\ m + (i - m + 1) - 1 = i
      BY <1>2, <1>6, <3>2, <3>3
    <3>5. got[i - m + 1] = A[i]
      BY <1>8, <3>4
    <3>6. i - m + 1 \in DOMAIN got
      BY <1>8, <1>9, <2>1, <3>4
    <3>7. QED
      BY <3>1, <3>5, <3>6 DEF ToSet
  <2>4. ~Small(rows, r)
    BY <1>4, <1>6, <1>13, <1>l
  <2>5. QED
    BY <1>3, <1>10, <1>11, <2>3, <2>4 DEF S
<1>14. QED
  BY <1>4, <1>6, <1>12, <1>13

\* What a fetch may become that reads and merges no list.
Fresh(R, L, call) ==
  /\ call \in Calls /\ call.at # "merge" /\ Rising(call.got) /\ ToSet(call.got) \subseteq DOMAIN R
  /\ call.conn => L = "up"

\* Fetches that begin, go on, or forget that the socket was in place.
Renewed(R, L, F, F2) ==
  /\ F2 \in [Fetches -> Calls]
  /\ \A f \in Fetches :
       \/ Fresh(R, L, F2[f])
       \/ /\ F2[f].at = F[f].at /\ F2[f].run = F[f].run /\ F2[f].got = F[f].got
          /\ F2[f].conn => F[f].conn

LEMMA RenewedLists ==
  ASSUME NEW R, NEW L, NEW F, NEW F2, ListsRead(R, F), Renewed(R, L, F, F2)
  PROVE  ListsRead(R, F2)
<1> SUFFICES ASSUME NEW f \in Fetches
             PROVE  Rising(F2[f].got) /\ (F2[f].at = "merge" => Read(R, F2[f]))
  BY DEF ListsRead
<1>1. CASE Fresh(R, L, F2[f])
  BY <1>1 DEF Fresh
<1>2. CASE F2[f].at = F[f].at /\ F2[f].run = F[f].run /\ F2[f].got = F[f].got
  BY <1>2 DEF ListsRead, Read
<1>3. QED
  BY <1>1, <1>2 DEF Renewed

LEMMA RenewedAttached ==
  ASSUME NEW R, NEW L, NEW F, NEW F2, NEW L2, NEW C, Attached(L, F, C), Renewed(R, L, F, F2),
         L = "up" => L2 = "up"
  PROVE  Attached(L2, F2, C)
BY DEF Attached, Renewed, Fresh

LEMMA ReachedStill ==
  ASSUME NEW R, NEW M, NEW W, NEW V, NEW r, NEW c, NEW S, NEW W2, NEW V2,
         Reached(R, M, W, V, r, c, S), Full(V) => Full(V2),
         \A k \in DOMAIN R : RunIn(R, k) = r /\ (k \in ToSet(V) \/ k \in ToSet(W))
                               => k \in ToSet(V2) \/ k \in ToSet(W2)
  PROVE  Reached(R, M, W2, V2, r, c, S)
BY DEF Reached

LEMMA RenewedCovered ==
  ASSUME NEW R, NEW M, NEW L, NEW W, NEW V, NEW r, NEW F, NEW C, NEW W2, NEW V2, NEW F2,
         Covered(R, M, W, V, r, F, C), Renewed(R, L, F, F2), Full(V) => Full(V2),
         \A k \in DOMAIN R : RunIn(R, k) = r /\ (k \in ToSet(V) \/ k \in ToSet(W))
                               => k \in ToSet(V2) \/ k \in ToSet(W2)
  PROVE  Covered(R, M, W2, V2, r, F2, C)
<1>1. C # 0 => Reached(R, M, W2, V2, r, C, {})
  BY ReachedStill DEF Covered
<1>2. ASSUME NEW f \in Fetches, F2[f].at = "merge", F2[f].conn, F2[f].run = r
      PROVE  Reached(R, M, W2, V2, r, CoverOf(F2[f].got), ToSet(F2[f].got))
  <2>1. F[f].at = "merge" /\ F[f].conn /\ F[f].run = r /\ F2[f].got = F[f].got
    BY <1>2 DEF Renewed, Fresh
  <2>2. Reached(R, M, W, V, r, CoverOf(F2[f].got), ToSet(F2[f].got))
    BY <2>1 DEF Covered
  <2>3. QED
    BY <2>2, ReachedStill
<1>3. QED
  BY <1>1, <1>2 DEF Covered

\* The page goes on with what it shows.
LEMMA PageKept ==
  ASSUME NEW R, NEW M, NEW L, NEW W, NEW V, NEW r, NEW F, NEW C, NEW L2, NEW F2,
         PageOK(R, M, L, W, V, r, F, C), Renewed(R, L, F, F2),
         L2 \in {"closed", "handshake", "up"}, L = "up" => L2 = "up"
  PROVE  PageOK(R, M, L2, W, V, r, F2, C)
<1>1. Known(R, M, W, V, F2)
  BY DEF PageOK, Known, Renewed, Fresh
<1>2. Attached(L2, F2, C)
  BY RenewedAttached DEF PageOK
<1>3. Covered(R, M, W, V, r, F2, C)
  BY RenewedCovered DEF PageOK
<1>4. ListsRead(R, F2)
  BY RenewedLists DEF PageOK
<1>5. F2 \in [Fetches -> Calls]
  BY DEF Renewed
<1>6. QED
  BY <1>1, <1>2, <1>3, <1>4, <1>5 DEF PageOK

\* The page turns to another run or to other events; its lists are no covers any more.
LEMMA PageTurned ==
  ASSUME NEW R, NEW M, NEW L, NEW W, NEW V, NEW r, NEW F, NEW C, NEW F2, NEW V2 \in Seq(Nat), NEW r2,
         PageOK(R, M, L, W, V, r, F, C), Renewed(R, L, F, F2),
         \A f \in Fetches : F2[f].conn => F2[f].at # "merge",
         ToSet(V2) \subseteq DOMAIN R, InOrder(R, V2), NoneBehind(R, M, W, V2)
  PROVE  PageOK(R, M, L, W, V2, r2, F2, 0)
<1>1. Known(R, M, W, V2, F2)
  BY DEF PageOK, Known, Renewed, Fresh
<1>2. Attached(L, F2, 0)
  BY RenewedAttached DEF PageOK, Attached
<1>3. Covered(R, M, W, V2, r2, F2, 0)
  BY DEF Covered
<1>4. ListsRead(R, F2)
  BY RenewedLists DEF PageOK
<1>5. F2 \in [Fetches -> Calls]
  BY DEF Renewed
<1>6. QED
  BY <1>1, <1>2, <1>3, <1>4, <1>5 DEF PageOK

LEMMA Nothing ==
  /\ <<>> \in Seq(Nat) /\ ToSet(<<>>) = {} /\ DOMAIN <<>> = {}
BY DEF ToSet

LEMMA EmptyIsFine ==
  ASSUME NEW R, NEW M, NEW W
  PROVE  InOrder(R, <<>>) /\ NoneBehind(R, M, W, <<>>) /\ Rising(<<>>) /\ ToSet(<<>>) \subseteq DOMAIN R
BY Nothing DEF InOrder, NoneBehind, Rising

\* A list that was read can be shown alone.
LEMMA ListIsFine ==
  ASSUME NEW R, NEW M, NEW L, NEW W, NEW V, NEW r, NEW F, NEW C, NEW f \in Fetches,
         PageOK(R, M, L, W, V, r, F, C), F[f].at = "merge"
  PROVE  /\ F[f].got \in Seq(Nat) /\ ToSet(F[f].got) \subseteq DOMAIN R
         /\ InOrder(R, F[f].got) /\ NoneBehind(R, M, W, F[f].got)
<1> DEFINE q == F[f].got
<1>1. q \in Seq(Nat) /\ ToSet(q) \subseteq DOMAIN R /\ Rising(q) /\ Read(R, F[f])
  BY DEF PageOK, Known, ListsRead, Calls
<1>2. \A i \in DOMAIN q : q[i] \in Nat
  BY <1>1, IsSeq
<1>3. InOrder(R, q)
  BY <1>1, <1>2 DEF InOrder, Rising
<1>4. M \subseteq DOMAIN R /\ ToSet(W) \subseteq DOMAIN R
  BY DEF PageOK, Known
<1>5. NoneBehind(R, M, W, q)
  <2> SUFFICES ASSUME NEW a \in ToSet(q), NEW b \in DOMAIN R, R[a].stream = R[b].stream,
                      Small(R, RunIn(R, a)), b < a
               PROVE  b \in ToSet(q)
    BY <1>4 DEF NoneBehind
  <2>1. RunIn(R, a) = F[f].run /\ RunIn(R, b) = F[f].run
    BY <1>1 DEF Read, RunIn
  <2>2. QED
    BY <1>1, <2>1 DEF Read
<1>6. QED
  BY <1>1, <1>3, <1>5

\* The socket is lost, and with it what is on it.
LEMMA PageCut ==
  ASSUME NEW R, NEW M, NEW L, NEW W, NEW V, NEW r, NEW F, NEW C, NEW F2, NEW M2, NEW L2,
         PageOK(R, M, L, W, V, r, F, C), Renewed(R, L, F, F2), \A f \in Fetches : ~F2[f].conn,
         M2 \subseteq M, L2 \in {"closed", "handshake", "up"}
  PROVE  PageOK(R, M2, L2, <<>>, V, r, F2, 0)
<1>1. Known(R, M2, <<>>, V, F2)
  BY Nothing DEF PageOK, Known, Renewed, Fresh
<1>2. Attached(L2, F2, 0)
  BY DEF Attached
<1>3. Covered(R, M2, <<>>, V, r, F2, 0)
  BY DEF Covered
<1>4. ListsRead(R, F2)
  BY RenewedLists DEF PageOK
<1>5. F2 \in [Fetches -> Calls]
  BY DEF Renewed
<1>6. Brought(R, M2, <<>>)
  BY Nothing DEF Brought
<1>7. NoneBehind(R, M2, <<>>, V)
  BY Nothing DEF PageOK, NoneBehind
<1>8. QED
  BY <1>1, <1>2, <1>3, <1>4, <1>5, <1>6, <1>7, Nothing DEF PageOK

\* A list is read: it is a cover if the socket is in place.
LEMMA PageReads ==
  ASSUME NEW R \in Seq(Whole), NEW M, NEW L, NEW W, NEW V, NEW r, NEW F, NEW C, NEW f \in Fetches,
         NEW call \in Calls, PageOK(R, M, L, W, V, r, F, C),
         call.conn => L = "up",
         ToSet(call.got) \subseteq RowsIn(R, call.run), Rising(call.got),
         Small(R, call.run) => RowsIn(R, call.run) \subseteq ToSet(call.got),
         \A k \in RowsIn(R, call.run) : k >= CoverOf(call.got) => k \in ToSet(call.got)
  PROVE  PageOK(R, M, L, W, V, r, [F EXCEPT ![f] = call], C)
<1> DEFINE F2 == [F EXCEPT ![f] = call]
<1>1. F2 \in [Fetches -> Calls] /\ F2[f] = call /\ \A g \in Fetches : g # f => F2[g] = F[g]
  BY DEF PageOK
<1> HIDE DEF F2
<1>2. Known(R, M, W, V, F2)
  BY <1>1 DEF PageOK, Known, RowsIn
<1>3. Attached(L, F2, C)
  BY <1>1 DEF PageOK, Attached
<1>4. Covered(R, M, W, V, r, F2, C)
  <2>1. call.run = r => Reached(R, M, W, V, r, CoverOf(call.got), ToSet(call.got))
    BY DEF Reached, RowsIn
  <2>2. QED
    BY <1>1, <2>1 DEF PageOK, Covered
<1>5. Read(R, call)
  BY DEF Read, RowsIn
<1>6. ListsRead(R, F2)
  BY <1>1, <1>5 DEF PageOK, ListsRead
<1>7. PageOK(R, M, L, W, V, r, F2, C)
  BY <1>1, <1>2, <1>3, <1>4, <1>6 DEF PageOK
<1>8. QED
  BY <1>7 DEF F2

\* A list is merged into what is shown.
LEMMA PageMerges ==
  ASSUME NEW R \in Seq(Whole), NEW M, NEW L, NEW W, NEW V, NEW r, NEW F, NEW C, NEW f \in Fetches,
         NEW V2 \in Seq(Nat), NEW F2, NEW C2 \in Nat,
         PageOK(R, M, L, W, V, r, F, C), Renewed(R, L, F, F2),
         F[f].at = "merge", ToSet(V2) = ToSet(V) \cup ToSet(F[f].got),
         Full(V) => Full(V2), InOrder(R, V2),
         C2 = C \/ (F[f].conn /\ F[f].run = r /\ C2 = CoverOf(F[f].got))
  PROVE  PageOK(R, M, L, W, V2, r, F2, C2)
<1>1. F2 \in [Fetches -> Calls]
  BY DEF Renewed
<1>2. Known(R, M, W, V2, F2)
  BY DEF PageOK, Known, Renewed, Fresh
<1>3. Attached(L, F2, C2)
  BY DEF PageOK, Attached, Renewed, Fresh
<1>4. Covered(R, M, W, V2, r, F2, C)
  BY RenewedCovered DEF PageOK
<1>5. F[f].conn /\ F[f].run = r => Reached(R, M, W, V2, r, CoverOf(F[f].got), {})
  BY DEF PageOK, Covered, Reached
<1>6. Covered(R, M, W, V2, r, F2, C2)
  BY <1>4, <1>5 DEF Covered
<1>7. ListsRead(R, F2)
  BY RenewedLists DEF PageOK
<1>8. NoneBehind(R, M, W, V2)
  <2> SUFFICES ASSUME ~Full(V2), NEW a \in ToSet(V2), NEW b \in ToSet(W) \cup M,
                      R[a].stream = R[b].stream, Small(R, RunIn(R, a)), b < a
               PROVE  b \in ToSet(V2)
    BY DEF NoneBehind
  <2>1. NoneBehind(R, M, W, V) /\ Read(R, F[f])
    BY DEF PageOK, ListsRead
  <2>2. CASE a \in ToSet(V)
    BY <2>1, <2>2 DEF NoneBehind
  <2>3. CASE a \in ToSet(F[f].got)
    <3>1. b \in DOMAIN R /\ RunIn(R, a) = F[f].run /\ RunIn(R, b) = F[f].run
      BY <2>1, <2>3 DEF Read, RunIn, PageOK, Known
    <3>2. QED
      BY <2>1, <2>3, <3>1 DEF Read
  <2>4. QED
    BY <2>2, <2>3
<1>9. QED
  BY <1>1, <1>2, <1>3, <1>6, <1>7, <1>8 DEF PageOK

\* What is let go of for want of room leaves the page full.
LEMMA NewestIs ==
  ASSUME NEW q \in Seq(Nat)
  PROVE  \/ Newest(q) = q
         \/ /\ Newest(q) \in Seq(Nat) /\ Full(Newest(q)) /\ ToSet(Newest(q)) \subseteq ToSet(q)
            /\ (\A i, j \in DOMAIN q : i < j => q[i] # q[j]) =>
                 \A i, j \in DOMAIN Newest(q) : i < j => Newest(q)[i] # Newest(q)[j]
<1> DEFINE n == Len(q)
           m == n - ShowLimit + 1
           p == SubSeq(q, m, n)
<1>1. CASE ~(n > ShowLimit)
  BY <1>1 DEF Newest
<1>2. CASE n > ShowLimit
  <2>1. Newest(q) = p
    BY <1>2 DEF Newest
  <2>2. n \in Nat /\ DOMAIN q = 1 .. n /\ \A i \in DOMAIN q : q[i] \in Nat
    BY IsSeq
  <2>3. ShowLimit \in Int /\ ShowLimit >= 1
    BY LimitsArePositive
  <2> HIDE DEF n
  <2>4. m \in Int /\ m >= 1 /\ m <= n /\ n - m + 1 = ShowLimit /\ n \in Int
    BY <1>2, <2>2, <2>3
  <2> HIDE DEF m
  <2>5. \A i \in m .. n : q[i] \in Nat
    BY <2>2, <2>4
  <2>6. p \in Seq(Nat) /\ Len(p) = n - m + 1 /\ \A i \in 1 .. n - m + 1 : p[i] = q[m + i - 1]
    BY <2>4, <2>5, SubSeqProperties
  <2>7. DOMAIN p = 1 .. ShowLimit
    BY <2>4, <2>6, IsSeq
  <2> HIDE DEF p
  <2>8. \A i \in DOMAIN p : /\ m + i - 1 \in DOMAIN q /\ p[i] = q[m + i - 1] /\ i \in Int
    BY <2>2, <2>4, <2>6, <2>7
  <2>9. ToSet(p) \subseteq ToSet(q)
    BY <2>8 DEF ToSet
  <2>10. ASSUME \A i, j \in DOMAIN q : i < j => q[i] # q[j],
                NEW i \in DOMAIN p, NEW j \in DOMAIN p, i < j
         PROVE  p[i] # p[j]
    <3>1. m + i - 1 < m + j - 1
      BY <2>4, <2>8, <2>10
    <3>2. QED
      BY <2>8, <2>10, <3>1
  <2>11. Len(p) >= ShowLimit
    BY <2>3, <2>4, <2>6
  <2>12. QED
    BY <2>1, <2>6, <2>9, <2>10, <2>11 DEF Full
<1>3. QED
  BY <1>1, <1>2

LEMMA PageNewest ==
  ASSUME NEW R, NEW M, NEW L, NEW W, NEW V, NEW r, NEW F, NEW C, PageOK(R, M, L, W, V, r, F, C)
  PROVE  PageOK(R, M, L, W, Newest(V), r, F, C)
<1> DEFINE V2 == Newest(V)
<1>1. V \in Seq(Nat) /\ \A i, j \in DOMAIN V : i < j => V[i] # V[j]
  BY DEF PageOK, InOrder
<1>2. V2 = V \/ /\ V2 \in Seq(Nat) /\ Full(V2) /\ ToSet(V2) \subseteq ToSet(V)
                /\ \A i, j \in DOMAIN V2 : i < j => V2[i] # V2[j]
  BY <1>1, NewestIs
<1> HIDE DEF V2
<1>3. CASE V2 = V
  BY <1>3 DEF V2
<1>4. CASE /\ V2 \in Seq(Nat) /\ Full(V2) /\ ToSet(V2) \subseteq ToSet(V)
           /\ \A i, j \in DOMAIN V2 : i < j => V2[i] # V2[j]
  <2>1. Known(R, M, W, V2, F)
    BY <1>4 DEF PageOK, Known
  <2>2. Covered(R, M, W, V2, r, F, C)
    BY <1>4 DEF Covered, Reached
  <2>3. InOrder(R, V2) /\ NoneBehind(R, M, W, V2)
    BY <1>4 DEF InOrder, NoneBehind
  <2>4. PageOK(R, M, L, W, V2, r, F, C)
    BY <1>4, <2>1, <2>2, <2>3 DEF PageOK
  <2>5. QED
    BY <2>4 DEF V2
<1>5. QED
  BY <1>2, <1>3, <1>4

LEMMA ItemsOf ==
  ASSUME NEW S, NEW q \in Seq(S)
  PROVE  ToSet(q) \subseteq S
BY IsSeq DEF ToSet

LEMMA InTail ==
  ASSUME NEW q \in Seq(Nat), q # <<>>
  PROVE  /\ ToSet(q) = ToSet(Tail(q)) \cup {Head(q)} /\ Tail(q) \in Seq(Nat)
         /\ Head(q) \in Nat
<1>1. DOMAIN q = 1 .. Len(q) /\ Len(q) \in Nat
  BY IsSeq
<1>2. /\ 1 \in DOMAIN q /\ Head(q) = q[1] /\ q[1] \in Nat /\ Tail(q) \in Seq(Nat)
      /\ DOMAIN Tail(q) = 1 .. Len(q) - 1
      /\ \A i \in DOMAIN Tail(q) : i + 1 \in DOMAIN q /\ Tail(q)[i] = q[i + 1]
  BY OffHead
<1>3. \A i \in DOMAIN q : i = 1 \/ (i - 1 \in DOMAIN Tail(q) /\ Tail(q)[i - 1] = q[i])
  BY <1>1, <1>2
<1>4. ASSUME NEW i \in DOMAIN q
      PROVE  q[i] \in ToSet(Tail(q)) \cup {Head(q)}
  <2>1. CASE i = 1
    BY <1>2, <2>1
  <2>2. CASE i - 1 \in DOMAIN Tail(q) /\ Tail(q)[i - 1] = q[i]
    BY <2>2 DEF ToSet
  <2>3. QED
    BY <1>3, <2>1, <2>2
<1>5. ToSet(Tail(q)) \cup {Head(q)} \subseteq ToSet(q)
  BY <1>2 DEF ToSet
<1>6. ToSet(q) \subseteq ToSet(Tail(q)) \cup {Head(q)}
  BY <1>4 DEF ToSet
<1>7. QED
  BY <1>2, <1>5, <1>6

\* The next row comes over the socket: it is shown, or of another run, or here already.
LEMMA PageReceives ==
  ASSUME NEW R \in Seq(Whole), NEW M, NEW L, NEW W, NEW V, NEW r, NEW F, NEW C,
         NEW V2, NEW F2, PageOK(R, M, L, W, V, r, F, C), Renewed(R, L, F, F2),
         M \subseteq Nat, W # <<>>,
         \/ V2 = V /\ (Head(W) \in ToSet(V) \/ RunIn(R, Head(W)) # r)
         \/ V2 = Append(V, Head(W)) /\ Head(W) \notin ToSet(V)
  PROVE  PageOK(R, M, L, Tail(W), V2, r, F2, C)
<1> DEFINE k == Head(W)
           W2 == Tail(W)
<1>1. W \in Seq(Nat) /\ V \in Seq(Nat) /\ Known(R, M, W, V, F) /\ Brought(R, M, W)
      /\ InOrder(R, V) /\ NoneBehind(R, M, W, V)
  BY DEF PageOK
<1>2. ToSet(W) = ToSet(W2) \cup {k} /\ W2 \in Seq(Nat) /\ k \in Nat
  BY <1>1, InTail
<1>3. /\ 1 \in DOMAIN W /\ k = W[1] /\ DOMAIN W2 = 1 .. Len(W) - 1
      /\ \A i \in DOMAIN W2 : i + 1 \in DOMAIN W /\ W2[i] = W[i + 1] /\ i \in Int /\ 1 < i + 1
  <2>1. Len(W) \in Nat
    BY <1>1, IsSeq
  <2>2. QED
    BY <1>1, <2>1, OffHead
<1> HIDE DEF k, W2
<1>4. /\ V2 \in Seq(Nat)
      /\ ToSet(V2) \in {ToSet(V), ToSet(V) \cup {k}}
      /\ ToSet(V) \subseteq ToSet(V2)
      /\ k \in ToSet(V2) \/ RunIn(R, k) # r
      /\ Full(V) => Full(V2)
  <2>1. CASE V2 = V /\ (k \in ToSet(V) \/ RunIn(R, k) # r)
    BY <1>1, <2>1
  <2>2. CASE V2 = Append(V, k)
    <3>1. /\ V2 \in Seq(Nat) /\ DOMAIN V2 = 1 .. Len(V) + 1 /\ V2[Len(V) + 1] = k
          /\ \A i \in DOMAIN V : V2[i] = V[i]
      BY <1>1, <1>2, <2>2, AtEnd
    <3>2. DOMAIN V = 1 .. Len(V) /\ Len(V) \in Nat
      BY <1>1, IsSeq
    <3>f. Full(V) => Full(V2)
      <4>1. Len(V2) \in Nat /\ DOMAIN V2 = 1 .. Len(V2)
        BY <3>1, IsSeq
      <4>2. Len(V2) = Len(V) + 1
        BY <1>1, <1>2, <2>2, AppendProperties
      <4>3. ShowLimit \in Int
        BY LimitsArePositive
      <4>4. QED
        BY <3>2, <4>2, <4>3 DEF Full
    <3>3. ToSet(V2) = ToSet(V) \cup {k}
      <4>1. \A i \in DOMAIN V2 : i \in DOMAIN V \/ i = Len(V) + 1
        BY <3>1, <3>2
      <4>2. DOMAIN V \subseteq DOMAIN V2 /\ Len(V) + 1 \in DOMAIN V2
        BY <3>1, <3>2
      <4>3. QED
        BY <3>1, <4>1, <4>2 DEF ToSet
    <3>4. QED
      BY <3>1, <3>3, <3>f
  <2>3. QED
    BY <2>1, <2>2 DEF k
<1>5. Known(R, M, W2, V2, F2)
  BY <1>1, <1>2, <1>4 DEF Known, Renewed, Fresh
<1>6. Attached(L, F2, C)
  BY RenewedAttached DEF PageOK
<1>7. Covered(R, M, W2, V2, r, F2, C)
  <2>1. \A j \in DOMAIN R : RunIn(R, j) = r /\ (j \in ToSet(V) \/ j \in ToSet(W))
                               => j \in ToSet(V2) \/ j \in ToSet(W2)
    BY <1>2, <1>4
  <2>2. QED
    BY <1>4, <2>1, RenewedCovered DEF PageOK
<1>8. ListsRead(R, F2) /\ F2 \in [Fetches -> Calls]
  BY RenewedLists DEF PageOK, Renewed
<1>9. Brought(R, M, W2)
  <2>1. ASSUME NEW i \in DOMAIN W2, NEW j \in DOMAIN W2, i < j, R[W2[i]].stream = R[W2[j]].stream
        PROVE  W2[i] < W2[j]
    <3>1. i + 1 \in DOMAIN W /\ j + 1 \in DOMAIN W /\ i + 1 < j + 1
          /\ W2[i] = W[i + 1] /\ W2[j] = W[j + 1]
      BY <1>3, <2>1
    <3>2. QED
      BY <1>1, <2>1, <3>1 DEF Brought
  <2>2. ASSUME NEW i \in DOMAIN W2, NEW b \in M, R[W2[i]].stream = R[b].stream
        PROVE  W2[i] < b
    BY <1>1, <1>3, <2>2 DEF Brought
  <2>3. QED
    BY <2>1, <2>2 DEF Brought
<1>n. \A b \in ToSet(W2) \cup M : b \in Nat
  <2>1. ToSet(W2) \subseteq Nat
    BY <1>2, ItemsOf
  <2>2. QED
    BY <2>1
<1>10. \A b \in ToSet(W2) \cup M : R[b].stream = R[k].stream => k <= b
  <2>1. ASSUME NEW b \in ToSet(W2), R[b].stream = R[k].stream
        PROVE  k < b
    <3>1. PICK i \in DOMAIN W2 : W2[i] = b
      BY DEF ToSet
    <3>2. QED
      BY <1>1, <1>3, <2>1, <3>1 DEF Brought
  <2>2. ASSUME NEW b \in M, R[b].stream = R[k].stream
        PROVE  k < b
    BY <1>1, <1>3, <2>2 DEF Brought
  <2>3. QED
    BY <1>2, <1>n, <2>1, <2>2
<1>11. NoneBehind(R, M, W2, V2)
  <2> SUFFICES ASSUME ~Full(V2), NEW a \in ToSet(V2), NEW b \in ToSet(W2) \cup M, R[a].stream = R[b].stream,
                      Small(R, RunIn(R, a)), b < a
               PROVE  b \in ToSet(V2)
    BY DEF NoneBehind
  <2>1. CASE a \in ToSet(V)
    BY <1>1, <1>2, <1>4, <2>1 DEF NoneBehind
  <2>2. CASE a = k
    <3>1. k <= b
      BY <1>10, <2>2
    <3>2. b \in Int /\ k \in Int
      BY <1>2, <1>n
    <3>3. QED
      BY <2>2, <3>1, <3>2
  <2>3. QED
    BY <1>4, <2>1, <2>2
<1>12. InOrder(R, V2)
  <2>1. CASE V2 = V
    BY <1>1, <2>1
  <2>2. CASE V2 = Append(V, k) /\ k \notin ToSet(V)
    <3>1. /\ DOMAIN V2 = 1 .. Len(V) + 1 /\ V2[Len(V) + 1] = k
          /\ \A i \in DOMAIN V : V2[i] = V[i]
          /\ DOMAIN V = 1 .. Len(V) /\ Len(V) \in Nat /\ \A i \in DOMAIN V : V[i] \in Nat
      BY <1>1, <1>2, <2>2, AtEnd, IsSeq
    <3>2. ASSUME NEW i \in DOMAIN V2, NEW j \in DOMAIN V2, i < j
          PROVE  /\ V2[i] # V2[j]
                 /\ R[V2[i]].stream = R[V2[j]].stream /\ Small(R, RunIn(R, V2[i])) /\ ~Full(V2)
                      => V2[i] < V2[j]
      <4>1. i \in DOMAIN V /\ (j \in DOMAIN V \/ j = Len(V) + 1)
        BY <3>1, <3>2
      <4>2. CASE j \in DOMAIN V
        BY <1>1, <1>4, <3>1, <3>2, <4>1, <4>2 DEF InOrder
      <4>3. CASE j = Len(V) + 1
        <5>1. V2[i] = V[i] /\ V2[j] = k /\ V[i] \in ToSet(V) /\ V[i] \in Nat
          BY <3>1, <4>1, <4>3 DEF ToSet
        <5>2. R[V[i]].stream = R[k].stream /\ Small(R, RunIn(R, V[i])) /\ ~Full(V2) => ~(k < V[i])
          BY <1>1, <1>2, <1>4, <2>2, <5>1 DEF NoneBehind
        <5>3. V[i] # k
          BY <2>2, <5>1
        <5>4. QED
          BY <1>2, <5>1, <5>2, <5>3
      <4>4. QED
        BY <4>1, <4>2, <4>3
    <3>3. QED
      BY <3>2 DEF InOrder
  <2>3. QED
    BY <2>1, <2>2 DEF k
<1>13. L \in {"closed", "handshake", "up"} /\ C \in Nat
  BY DEF PageOK
<1>14. PageOK(R, M, L, W2, V2, r, F2, C)
  BY <1>2, <1>4, <1>5, <1>6, <1>7, <1>8, <1>9, <1>11, <1>12, <1>13 DEF PageOK
<1>15. QED
  BY <1>14 DEF W2

\* A row is written, of which the page cannot know yet.
LEMMA PageWritten ==
  ASSUME NEW R \in Seq(Whole), NEW M, NEW L, NEW W, NEW V, NEW r, NEW F, NEW C, NEW row \in Whole,
         PageOK(R, M, L, W, V, r, F, C)
  PROVE  PageOK(Append(R, row), M \cup {Len(R) + 1}, L, W, V, r, F, C)
<1> DEFINE R2 == Append(R, row)
           n  == Len(R) + 1
           M2 == M \cup {n}
<1>1. /\ DOMAIN R2 = 1 .. n /\ DOMAIN R = 1 .. Len(R) /\ Len(R) \in Nat
      /\ \A i \in DOMAIN R : R2[i] = R[i]
      /\ R2 \in Seq(Whole)
  BY AtEnd, IsSeq
<1>2. Known(R, M, W, V, F)
  BY DEF PageOK
<1> HIDE DEF R2
<1>3. DOMAIN R2 = DOMAIN R \cup {n} /\ \A k \in DOMAIN R : k < n /\ k \in Int /\ n \in Int
  BY <1>1
<1>4. \A k \in DOMAIN R : RunIn(R2, k) = RunIn(R, k) /\ R2[k] = R[k]
  BY <1>1 DEF RunIn
<1>5. ASSUME NEW x, Small(R2, x)
      PROVE  Small(R, x)
  <2>1. RowsIn(R, x) \in SUBSET RowsIn(R2, x)
    BY <1>3, <1>4 DEF RowsIn
  <2>2. IsFiniteSet(RowsIn(R2, x)) /\ Cardinality(RowsIn(R2, x)) \in Nat
        /\ Cardinality(RowsIn(R, x)) \in Nat
    BY <1>1, RowsAreFinite
  <2>3. Cardinality(RowsIn(R, x)) <= Cardinality(RowsIn(R2, x))
    BY <2>1, <2>2, FS_Subset
  <2>4. ListLimit \in Nat
    BY LimitsArePositive
  <2>5. QED
    BY <1>5, <2>2, <2>3, <2>4 DEF Small
<1> HIDE DEF n
<1>6. Known(R2, M2, W, V, F)
  BY <1>2, <1>3 DEF Known
<1>7. Covered(R2, M2, W, V, r, F, C)
  <2>1. ASSUME NEW c, NEW S, Reached(R, M, W, V, r, c, S)
        PROVE  Reached(R2, M2, W, V, r, c, S)
    BY <1>3, <1>4, <2>1 DEF Reached
  <2>2. QED
    BY <2>1 DEF PageOK, Covered
<1>8. ListsRead(R2, F)
  <2> SUFFICES ASSUME NEW f \in Fetches, F[f].at = "merge"
               PROVE  Read(R2, F[f])
    BY DEF PageOK, ListsRead
  <2>1. Read(R, F[f]) /\ ToSet(F[f].got) \subseteq DOMAIN R
    BY <1>2 DEF PageOK, ListsRead, Known
  <2>2. \A a \in ToSet(F[f].got) : RunIn(R2, a) = F[f].run
    BY <1>4, <2>1 DEF Read
  <2>3. ASSUME NEW a \in ToSet(F[f].got), Small(R2, F[f].run), NEW b \in DOMAIN R2, b < a,
               RunIn(R2, b) = F[f].run
        PROVE  b \in ToSet(F[f].got)
    <3>1. b \in DOMAIN R
      BY <1>3, <2>1, <2>3
    <3>2. QED
      BY <1>4, <1>5, <2>1, <2>3, <3>1 DEF Read
  <2>4. QED
    BY <2>2, <2>3 DEF Read
<1>9. Brought(R2, M2, W)
  <2>1. \A i \in DOMAIN W : W[i] \in DOMAIN R
    BY <1>2 DEF Known, ToSet
  <2>2. \A i, j \in DOMAIN W : i < j /\ R2[W[i]].stream = R2[W[j]].stream => W[i] < W[j]
    BY <1>4, <2>1 DEF PageOK, Brought
  <2>3. ASSUME NEW i \in DOMAIN W, NEW k \in M2, R2[W[i]].stream = R2[k].stream
        PROVE  W[i] < k
    <3>1. CASE k = n
      BY <1>3, <2>1, <3>1
    <3>2. CASE k \in M
      BY <1>2, <1>4, <2>1, <2>3, <3>2 DEF PageOK, Brought, Known
    <3>3. QED
      BY <3>1, <3>2
  <2>4. QED
    BY <2>2, <2>3 DEF Brought
<1>10. InOrder(R2, V)
  <2>1. \A i \in DOMAIN V : V[i] \in DOMAIN R
    BY <1>2 DEF Known, ToSet
  <2>2. QED
    BY <1>4, <1>5, <2>1 DEF PageOK, InOrder
<1>11. NoneBehind(R2, M2, W, V)
  <2> SUFFICES ASSUME ~Full(V), NEW a \in ToSet(V), NEW b \in ToSet(W) \cup M2, R2[a].stream = R2[b].stream,
                      Small(R2, RunIn(R2, a)), b < a
               PROVE  b \in ToSet(V)
    BY DEF NoneBehind
  <2>1. a \in DOMAIN R /\ b \in DOMAIN R2
    BY <1>2, <1>3, <1>6 DEF Known
  <2>2. b # n
    BY <1>3, <2>1
  <2>3. b \in DOMAIN R /\ b \in ToSet(W) \cup M
    BY <1>3, <2>1, <2>2
  <2>4. QED
    BY <1>4, <1>5, <2>1, <2>3 DEF PageOK, NoneBehind
<1>12. PageOK(R2, M2, L, W, V, r, F, C)
  BY <1>6, <1>7, <1>8, <1>9, <1>10, <1>11 DEF PageOK
<1>13. QED
  BY <1>12 DEF R2, n

\* The browsers are told of a row.
LEMMA PageTold ==
  ASSUME NEW R \in Seq(Whole), NEW M, NEW L, NEW W, NEW V, NEW r, NEW F, NEW C, NEW k \in M,
         PageOK(R, M, L, W, V, r, F, C),
         \A j \in M \ {k} : R[j].stream # R[k].stream
  PROVE  PageOK(R, M \ {k}, L, IF L = "up" THEN Append(W, k) ELSE W, V, r, F, C)
<1> DEFINE M2 == M \ {k}
           W2 == IF L = "up" THEN Append(W, k) ELSE W
<1>1. W \in Seq(Nat) /\ Known(R, M, W, V, F) /\ Brought(R, M, W) /\ NoneBehind(R, M, W, V)
  BY DEF PageOK
<1>2. k \in DOMAIN R /\ k \in Nat
  BY <1>1, IsSeq DEF Known
<1>3. CASE L = "up"
  <2>1. W2 = Append(W, k)
    BY <1>3
  <2>2. /\ W2 \in Seq(Nat) /\ DOMAIN W2 = 1 .. Len(W) + 1 /\ W2[Len(W) + 1] = k
        /\ \A i \in DOMAIN W : W2[i] = W[i]
        /\ DOMAIN W = 1 .. Len(W) /\ Len(W) \in Nat
    BY <1>1, <1>2, <2>1, AtEnd, IsSeq
  <2> HIDE DEF W2
  <2>3. \A i \in DOMAIN W2 : i \in DOMAIN W \/ i = Len(W) + 1
    BY <2>2
  <2>4. ToSet(W2) = ToSet(W) \cup {k}
    <3>1. ToSet(W2) \subseteq ToSet(W) \cup {k}
      BY <2>2, <2>3 DEF ToSet
    <3>2. DOMAIN W \subseteq DOMAIN W2 /\ Len(W) + 1 \in DOMAIN W2
      BY <2>2
    <3>3. ToSet(W) \cup {k} \subseteq ToSet(W2)
      BY <2>2, <3>2 DEF ToSet
    <3>4. QED
      BY <3>1, <3>3
  <2>5. Known(R, M2, W2, V, F)
    BY <1>1, <1>2, <2>4 DEF Known
  <2>6. Covered(R, M2, W2, V, r, F, C)
    <3>1. ASSUME NEW c, NEW S, Reached(R, M, W, V, r, c, S)
          PROVE  Reached(R, M2, W2, V, r, c, S)
      BY <2>4, <3>1 DEF Reached
    <3>2. QED
      BY <3>1 DEF PageOK, Covered
  <2>7. Brought(R, M2, W2)
    <3>1. ASSUME NEW i \in DOMAIN W2, NEW j \in DOMAIN W2, i < j, R[W2[i]].stream = R[W2[j]].stream
          PROVE  W2[i] < W2[j]
      <4>1. i \in DOMAIN W
        BY <2>2, <2>3, <3>1
      <4>2. CASE j \in DOMAIN W
        BY <1>1, <2>2, <3>1, <4>1, <4>2 DEF Brought
      <4>3. CASE j = Len(W) + 1
        BY <1>1, <2>2, <3>1, <4>1, <4>3 DEF Brought
      <4>4. QED
        BY <2>3, <4>2, <4>3
    <3>2. ASSUME NEW i \in DOMAIN W2, NEW j \in M2, R[W2[i]].stream = R[j].stream
          PROVE  W2[i] < j
      <4>1. CASE i \in DOMAIN W
        BY <1>1, <2>2, <3>2, <4>1 DEF Brought
      <4>2. CASE i = Len(W) + 1
        BY <2>2, <3>2, <4>2
      <4>3. QED
        BY <2>3, <4>1, <4>2
    <3>3. QED
      BY <3>1, <3>2 DEF Brought
  <2>8. NoneBehind(R, M2, W2, V)
    BY <1>1, <2>4 DEF NoneBehind
  <2>9. PageOK(R, M2, L, W2, V, r, F, C)
    BY <2>2, <2>5, <2>6, <2>7, <2>8 DEF PageOK
  <2>10. QED
    BY <2>9 DEF W2
<1>4. CASE L # "up"
  <2>1. C = 0 /\ \A f \in Fetches : ~F[f].conn
    BY <1>4 DEF PageOK, Attached, Calls
  <2>2. Covered(R, M2, W, V, r, F, C)
    BY <2>1 DEF Covered
  <2>3. Known(R, M2, W, V, F) /\ Brought(R, M2, W) /\ NoneBehind(R, M2, W, V)
    BY <1>1 DEF Known, Brought, NoneBehind
  <2>4. PageOK(R, M2, L, W, V, r, F, C)
    BY <2>2, <2>3 DEF PageOK
  <2>5. QED
    BY <1>4, <2>4
<1>5. QED
  BY <1>3, <1>4

-----------------------------------------------------------------------------
(* What the actions do to the fetches                                        *)

LEMMA OneCall ==
  ASSUME NEW R, NEW L, NEW F \in [Fetches -> Calls], NEW f \in Fetches, NEW call, Fresh(R, L, call)
  PROVE  Renewed(R, L, F, [F EXCEPT ![f] = call])
BY DEF Renewed, Fresh

LEMMA SameCalls ==
  ASSUME NEW R, NEW L, NEW F \in [Fetches -> Calls]
  PROVE  Renewed(R, L, F, F)
BY DEF Renewed

LEMMA SpoiltCalls ==
  ASSUME NEW R, NEW L, NEW F \in [Fetches -> Calls]
  PROVE  /\ Renewed(R, L, F, Spoilt(F)) /\ Spoilt(F) \in [Fetches -> Calls]
         /\ \A f \in Fetches : ~Spoilt(F)[f].conn
BY DEF Renewed, Spoilt, Calls

LEMMA TurnedCall ==
  ASSUME NEW R, NEW L, NEW F \in [Fetches -> Calls], NEW f \in Fetches, NEW call, Fresh(R, L, call)
  PROVE  /\ Renewed(R, L, F, [Spoilt(F) EXCEPT ![f] = call])
         /\ \A g \in Fetches : [Spoilt(F) EXCEPT ![f] = call][g].conn
                                 => [Spoilt(F) EXCEPT ![f] = call][g].at # "merge"
<1> DEFINE G == Spoilt(F)
           F2 == [G EXCEPT ![f] = call]
<1>1. G \in [Fetches -> Calls] /\ Renewed(R, L, F, G) /\ \A g \in Fetches : ~G[g].conn
  BY SpoiltCalls
<1> HIDE DEF G
<1>2. F2 \in [Fetches -> Calls] /\ F2[f] = call /\ \A g \in Fetches : g # f => F2[g] = G[g]
  BY <1>1 DEF Fresh
<1> HIDE DEF F2
<1>3. Renewed(R, L, F, F2)
  BY <1>1, <1>2 DEF Renewed
<1>4. \A g \in Fetches : F2[g].conn => F2[g].at # "merge"
  BY <1>1, <1>2 DEF Fresh
<1>5. QED
  BY <1>3, <1>4 DEF F2, G

LEMMA BeginsFresh ==
  ASSUME view \in Views, NEW R, NEW L
  PROVE  /\ Fresh(R, L, IdleFetch) /\ Fresh(R, L, Begun)
         /\ \A run \in Int : Fresh(R, L, [Begun EXCEPT !.run = run])
         /\ \A op \in {"select", "start", "step", "operate", "switch"}, run \in Int,
               at \in {"list", "answer", "run"} :
              Fresh(R, L, [IdleFetch EXCEPT !.op = op, !.at = at, !.run = run])
         /\ Fresh(R, L, [IdleFetch EXCEPT !.op = "operate", !.at = "answer"])
<1>1. <<>> \in Seq(Nat) /\ Rising(<<>>) /\ ToSet(<<>>) \subseteq DOMAIN R
  BY Nothing, EmptyIsFine
<1>2. IdleFetch \in Calls /\ IdleFetch.got = <<>> /\ ~IdleFetch.conn /\ IdleFetch.at = "idle"
  BY <1>1 DEF IdleFetch, Calls
<1>3. Begun \in Calls /\ Begun.got = <<>> /\ ~Begun.conn /\ Begun.at # "merge"
  <2> DEFINE at == IF scene.page = "session" THEN "run" ELSE "issue"
             open == view.open
             run == view.run
  <2>1. at \in {"run", "issue"} /\ open \in BOOLEAN /\ run \in Int
    BY DEF Views
  <2>2. Begun = [IdleFetch EXCEPT !.op = "refresh", !.open = open, !.run = run, !.at = at]
    BY DEF Begun
  <2> HIDE DEF at, open, run
  <2>3. QED
    BY <1>2, <2>1, <2>2 DEF Calls
<1>4. ASSUME NEW call \in Calls, call.got = <<>>, ~call.conn, call.at # "merge"
      PROVE  Fresh(R, L, call)
  BY <1>1, <1>4 DEF Fresh
<1>5. ASSUME NEW run \in Int
      PROVE  Fresh(R, L, [Begun EXCEPT !.run = run])
  <2> DEFINE call == [Begun EXCEPT !.run = run]
  <2>1. call \in Calls /\ call.got = <<>> /\ ~call.conn /\ call.at # "merge"
    BY <1>3 DEF Calls
  <2>2. QED
    BY <1>4, <2>1
<1>6. ASSUME NEW op \in {"select", "start", "step", "operate", "switch"}, NEW run \in Int,
             NEW at \in {"list", "answer", "run"}
      PROVE  Fresh(R, L, [IdleFetch EXCEPT !.op = op, !.at = at, !.run = run])
  <2> DEFINE call == [IdleFetch EXCEPT !.op = op, !.at = at, !.run = run]
  <2>1. call \in Calls /\ call.got = <<>> /\ ~call.conn /\ call.at # "merge"
    BY <1>2 DEF Calls
  <2>2. QED
    BY <1>4, <2>1
<1>7. Fresh(R, L, [IdleFetch EXCEPT !.op = "operate", !.at = "answer"])
  <2> DEFINE call == [IdleFetch EXCEPT !.op = "operate", !.at = "answer"]
  <2>1. call \in Calls /\ call.got = <<>> /\ ~call.conn /\ call.at # "merge"
    BY <1>2 DEF Calls
  <2>2. QED
    BY <1>4, <2>1
<1>8. QED
  BY <1>2, <1>3, <1>4, <1>5, <1>6, <1>7

\* A fetch goes on with what it has.
LEMMA GoesOn ==
  ASSUME PageInv, NEW f \in Fetches, NEW call \in Calls, call.at # "merge",
         call.got = fetch[f].got, call.conn => fetch[f].conn
  PROVE  Fresh(rows, link, call)
BY DEF PageInv, PageOK, Known, ListsRead, Attached, Fresh

-----------------------------------------------------------------------------
(* The invariant of the page                                                 *)

LEMMA PageParts ==
  ASSUME PageInv
  PROVE  /\ view \in Views /\ runs \in Int /\ fetch \in [Fetches -> Calls] /\ wire \in Seq(Nat)
         /\ link \in {"closed", "handshake", "up"} /\ cover \in Nat
         /\ view.shown \in Seq(Nat) /\ view.run \in Int
         /\ ToSet(view.shown) \subseteq DOMAIN rows
         /\ InOrder(rows, view.shown) /\ NoneBehind(rows, Untold, wire, view.shown)
         /\ PageOK(rows, Untold, link, wire, view.shown, view.run, fetch, cover)
BY DEF PageInv, PageOK, Known, Views

\* A step of the page leaves the streams alone.
LEMMA PageTo ==
  ASSUME PageInv, UNCHANGED <<rows, work>>, view' \in Views, runs' \in Int,
         PageOK(rows, Untold, link', wire', view'.shown, view'.run, fetch', cover')
  PROVE  PageInv'
<1>1. Untold' = Untold
  BY DEF Untold
<1>2. \A s \in Streams : work'[s].made # 0 => rows'[work'[s].made].stream = s
  BY DEF PageInv
<1>3. QED
  BY <1>1, <1>2 DEF PageInv

\* The page goes on with the run and the events it shows.
LEMMA ShowsTheSame ==
  ASSUME PageInv, UNCHANGED <<rows, work, wire, cover>>, view' \in Views, runs' \in Int,
         view'.shown = view.shown, view'.run = view.run,
         link' \in {"closed", "handshake", "up"}, link = "up" => link' = "up",
         Renewed(rows, link, fetch, fetch')
  PROVE  PageInv'
<1>1. PageOK(rows, Untold, link', wire, view.shown, view.run, fetch', cover)
  BY PageParts, PageKept
<1>2. QED
  BY <1>1, PageTo

\* It turns to another run or to other events.
LEMMA ShowsAnother ==
  ASSUME PageInv, UNCHANGED <<rows, work, wire, link>>, view' \in Views, runs' \in Int,
         NEW f \in Fetches, NEW call, Fresh(rows, link, call), Turns(f, call), fetch \in [Fetches -> Calls],
         ToSet(view'.shown) \subseteq DOMAIN rows,
         InOrder(rows, view'.shown), NoneBehind(rows, Untold, wire, view'.shown)
  PROVE  PageInv'
<1>1. cover' = 0 /\ fetch' = [Spoilt(fetch) EXCEPT ![f] = call]
  BY DEF Turns
<1>2. Renewed(rows, link, fetch, fetch') /\ \A g \in Fetches : fetch'[g].conn => fetch'[g].at # "merge"
  BY <1>1, TurnedCall
<1>3. view'.shown \in Seq(Nat)
  BY DEF Views
<1>4. PageOK(rows, Untold, link, wire, view'.shown, view'.run, fetch', 0)
  BY <1>2, <1>3, PageParts, PageTurned
<1>5. QED
  BY <1>1, <1>4, PageTo

LEMMA ReconnectKeepsPage ==
  ASSUME PageInv, Reconnect \/ Register \/ Opens
  PROVE  PageInv'
<1>1. /\ UNCHANGED <<rows, work, wire, cover, runs, fetch>>
      /\ link' \in {"closed", "handshake", "up"} /\ (link = "up" => link' = "up")
  BY PageParts DEF Reconnect, Register, Opens, streamVars, pageVars
<1>2. view' \in Views /\ view'.shown = view.shown /\ view'.run = view.run
  BY PageParts DEF Reconnect, Register, Opens, pageVars, Views
<1>3. Renewed(rows, link, fetch, fetch')
  BY <1>1, PageParts, SameCalls
<1>4. runs' \in Int
  BY <1>1, PageParts
<1>5. QED
  BY <1>1, <1>2, <1>3, <1>4, ShowsTheSame

LEMMA CutKeepsPage ==
  ASSUME PageInv, Cut, UNCHANGED <<rows, runs>>,
         \A s \in Streams : work'[s].made \in {work[s].made, 0}
  PROVE  PageInv'
<1>1. /\ link' = "closed" /\ wire' = <<>> /\ cover' = 0 /\ fetch' = Spoilt(fetch)
      /\ view' = [view EXCEPT !.open = FALSE]
  BY DEF Cut
<1>2. view' \in Views /\ view'.shown = view.shown /\ view'.run = view.run
  BY <1>1, PageParts DEF Views
<1>3. Renewed(rows, link, fetch, fetch') /\ \A f \in Fetches : ~fetch'[f].conn
  BY <1>1, PageParts, SpoiltCalls
<1>4. Untold' \subseteq Untold
  BY DEF Untold
<1>5. PageOK(rows, Untold', "closed", <<>>, view.shown, view.run, fetch', 0)
  BY <1>3, <1>4, PageParts, PageCut
<1>6. \A s \in Streams : work'[s].made # 0 => rows'[work'[s].made].stream = s
  BY DEF PageInv
<1>7. runs' \in Int
  BY PageParts
<1>8. QED
  BY <1>1, <1>2, <1>5, <1>6, <1>7 DEF PageInv

\* A fetch begins, goes on or ends, and nothing that is shown changes.
LEMMA FetchKeepsPage ==
  ASSUME PageInv, NEW f \in Fetches, NEW call, Becomes(f, call), Fresh(rows, link, call),
         UNCHANGED <<rows, work, wire, cover, link>>, runs' \in Int,
         view' \in Views, view'.shown = view.shown, view'.run = view.run
  PROVE  PageInv'
<1>1. Renewed(rows, link, fetch, fetch')
  BY PageParts, OneCall DEF Becomes
<1>2. link' \in {"closed", "handshake", "up"}
  BY PageParts
<1>3. QED
  BY <1>1, <1>2, ShowsTheSame

LEMMA RefreshKeepsPage ==
  ASSUME PageInv, NEW f \in Fetches, Refresh(f)
  PROVE  PageInv'
<1>1. /\ Becomes(f, Begun) /\ UNCHANGED <<rows, work, wire, cover, link, runs, view>>
  BY DEF Refresh, Paging, streamVars
<1>2. QED
  BY <1>1, PageParts, BeginsFresh, FetchKeepsPage

LEMMA GotIssueKeepsPage ==
  ASSUME PageInv, NEW f \in Fetches, GotIssue(f)
  PROVE  PageInv'
<1> DEFINE wanted == IF view.run # 0 THEN view.run ELSE runs
<1>1. UNCHANGED <<rows, work, wire, link, runs>> /\ fetch[f] \in Calls /\ fetch[f].at = "issue"
      /\ wanted \in Int /\ runs' \in Int /\ runs \in Int /\ view \in Views
  BY PageParts DEF GotIssue, Paging, streamVars
<1>2. CASE wanted # 0
  <2> DEFINE call == [fetch[f] EXCEPT !.at = "run", !.run = wanted, !.latest = runs]
  <2>1. Becomes(f, call) /\ view' = [view EXCEPT !.latest = runs] /\ cover' = cover
    BY <1>2 DEF GotIssue
  <2>2. call \in Calls /\ call.at # "merge" /\ call.got = fetch[f].got /\ (call.conn => fetch[f].conn)
    BY <1>1 DEF Calls
  <2>3. view' \in Views /\ view'.shown = view.shown /\ view'.run = view.run
    BY <1>1, <2>1 DEF Views
  <2> HIDE DEF call
  <2>4. Fresh(rows, link, call)
    BY <2>2, GoesOn
  <2>5. QED
    BY <1>1, <2>1, <2>3, <2>4, FetchKeepsPage
<1>3. CASE ~(wanted # 0)
  <2>1. Turns(f, IdleFetch) /\ view' = [view EXCEPT !.latest = runs, !.shown = <<>>, !.snapshot = 0]
    BY <1>3 DEF GotIssue
  <2> DEFINE none == <<>>
  <2>2. none \in Seq(Nat) /\ 0 \in Int /\ view' = [view EXCEPT !.latest = runs, !.shown = none, !.snapshot = 0]
    BY <2>1, Nothing
  <2> HIDE DEF none
  <2>3. view' \in Views /\ view'.shown = none
    BY <1>1, <2>2 DEF Views
  <2>4. Fresh(rows, link, IdleFetch)
    BY <1>1, BeginsFresh
  <2>5. view'.shown = <<>>
    BY <2>3 DEF none
  <2>6. QED
    BY <1>1, <2>1, <2>3, <2>4, <2>5, EmptyIsFine, PageParts, ShowsAnother
<1>4. QED
  BY <1>2, <1>3

LEMMA SessionRunKeepsPage ==
  ASSUME PageInv, NEW f \in Fetches, SessionRun(f)
  PROVE  PageInv'
<1> DEFINE call == [fetch[f] EXCEPT !.at = "list"]
<1>1. UNCHANGED <<rows, work, wire, cover, link, runs, view>> /\ fetch[f] \in Calls
      /\ (Becomes(f, call) \/ Becomes(f, IdleFetch))
  BY PageParts DEF SessionRun, Paging, streamVars, Done
<1>2. call \in Calls /\ call.at # "merge" /\ call.got = fetch[f].got /\ (call.conn => fetch[f].conn)
  BY <1>1 DEF Calls
<1> HIDE DEF call
<1>3. Fresh(rows, link, call) /\ Fresh(rows, link, IdleFetch)
  BY <1>2, GoesOn, BeginsFresh, PageParts
<1>4. QED
  BY <1>1, <1>3, PageParts, FetchKeepsPage

LEMMA IssueRunKeepsPage ==
  ASSUME PageInv, NEW f \in Fetches, IssueRun(f)
  PROVE  PageInv'
<1> DEFINE state == fetch[f]
           open  == IF state.op = "refresh" THEN state.open ELSE view.open
           lists == ~open \/ view.snapshot # state.run
           next  == IF lists THEN [state EXCEPT !.at = "list"] ELSE IdleFetch
           clear == lists \/ state.op = "switch"
<1>1. UNCHANGED <<rows, work, wire, link, runs>> /\ state \in Calls /\ view \in Views /\ runs' \in Int
  BY PageParts DEF IssueRun, Paging, streamVars
<1>2. /\ view' = [view EXCEPT !.run = state.run, !.shown = IF clear THEN <<>> ELSE view.shown]
      /\ IF clear \/ view.run # state.run THEN Turns(f, next) ELSE Becomes(f, next) /\ cover' = cover
  BY <1>1 DEF IssueRun, Views
<1>3. state.run \in Int /\ view.shown \in Seq(Nat)
  BY <1>1 DEF Calls, Views
<1>4. Fresh(rows, link, next)
  <2> DEFINE call == [state EXCEPT !.at = "list"]
  <2>1. call \in Calls /\ call.at # "merge" /\ call.got = fetch[f].got /\ (call.conn => fetch[f].conn)
    BY <1>1 DEF Calls
  <2> HIDE DEF call
  <2>2. Fresh(rows, link, call) /\ Fresh(rows, link, IdleFetch)
    BY <2>1, <1>1, GoesOn, BeginsFresh
  <2>3. next = call \/ next = IdleFetch
    BY DEF call
  <2>4. QED
    BY <2>2, <2>3
<1> HIDE DEF next, clear
<1>5. view' \in Views /\ view'.run = state.run /\ view'.shown = (IF clear THEN <<>> ELSE view.shown)
  BY <1>1, <1>2, <1>3, Nothing DEF Views
<1>6. CASE clear \/ view.run # state.run
  <2>1. /\ ToSet(view'.shown) \subseteq DOMAIN rows /\ InOrder(rows, view'.shown)
        /\ NoneBehind(rows, Untold, wire, view'.shown)
    BY <1>5, EmptyIsFine, PageParts
  <2>2. QED
    BY <1>1, <1>2, <1>4, <1>5, <1>6, <2>1, PageParts, ShowsAnother
<1>7. CASE ~(clear \/ view.run # state.run)
  <2>1. Becomes(f, next) /\ cover' = cover /\ view'.shown = view.shown /\ view'.run = view.run
    BY <1>2, <1>5, <1>7
  <2>2. QED
    BY <1>1, <1>4, <1>5, <2>1, FetchKeepsPage
<1>8. QED
  BY <1>6, <1>7

LEMMA ListReadKeepsPage ==
  ASSUME PageInv, rows \in Seq(Whole), NEW f \in Fetches, ListRead(f)
  PROVE  PageInv'
<1> DEFINE got  == Listed(fetch[f].run)
           conn == (link = "up")
           call == [fetch[f] EXCEPT !.at = "merge", !.got = got, !.conn = conn]
<1>1. UNCHANGED <<rows, work, wire, cover, link, runs, view>> /\ fetch[f] \in Calls
      /\ fetch' = [fetch EXCEPT ![f] = call]
  BY PageParts DEF ListRead, Paging, streamVars, Becomes
<1>2. /\ got \in Seq(Nat) /\ ToSet(got) \subseteq RowsIn(rows, fetch[f].run) /\ Rising(got)
      /\ Small(rows, fetch[f].run) => RowsIn(rows, fetch[f].run) \subseteq ToSet(got)
      /\ \A k \in RowsIn(rows, fetch[f].run) : k >= CoverOf(got) => k \in ToSet(got)
  BY ListedIs
<1>3. conn \in BOOLEAN /\ (conn => link = "up")
  OBVIOUS
<1> HIDE DEF got, conn
<1>4. call \in Calls /\ call.run = fetch[f].run /\ call.got = got /\ call.conn = conn
  BY <1>1, <1>2, <1>3 DEF Calls
<1> HIDE DEF call
<1>5. PageOK(rows, Untold, link, wire, view.shown, view.run, [fetch EXCEPT ![f] = call], cover)
  <2>1. /\ call.conn => link = "up"
        /\ ToSet(call.got) \subseteq RowsIn(rows, call.run) /\ Rising(call.got)
        /\ Small(rows, call.run) => RowsIn(rows, call.run) \subseteq ToSet(call.got)
        /\ \A k \in RowsIn(rows, call.run) : k >= CoverOf(call.got) => k \in ToSet(call.got)
    BY <1>2, <1>3, <1>4
  <2>2. QED
    BY <1>4, <2>1, PageParts, PageReads
<1>6. QED
  BY <1>1, <1>5, PageParts, PageTo

\* A sequence without repetitions has as many elements as it is long.
LEMMA AsManyAs ==
  ASSUME NEW q \in Seq(Nat), \A i, j \in DOMAIN q : i < j => q[i] # q[j]
  PROVE  Cardinality(ToSet(q)) = Len(q)
<1>1. DOMAIN q = 1 .. Len(q) /\ Len(q) \in Nat /\ q \in [1 .. Len(q) -> Nat]
  BY IsSeq
<1>2. ASSUME NEW i \in 1 .. Len(q), NEW j \in 1 .. Len(q), q[i] = q[j]
      PROVE  i = j
  <2>1. ~(i < j) /\ ~(j < i)
    BY <1>1, <1>2
  <2>2. i \in Int /\ j \in Int
    BY <1>1
  <2>3. QED
    BY <2>1, <2>2
<1>3. q \in [1 .. Len(q) -> ToSet(q)] /\ \A x \in ToSet(q) : \E i \in 1 .. Len(q) : q[i] = x
  BY <1>1 DEF ToSet
<1>4. q \in Bijection(1 .. Len(q), ToSet(q))
  BY <1>2, <1>3 DEF Bijection, Injection, IsInjective, Surjection
<1>5. IsFiniteSet(1 .. Len(q)) /\ Cardinality(1 .. Len(q)) = Len(q)
  <2>1. Len(q) \in Int /\ 1 \in Int
    BY <1>1
  <2>2. IsFiniteSet(1 .. Len(q)) /\ Cardinality(1 .. Len(q)) = IF 1 > Len(q) THEN 0 ELSE Len(q) - 1 + 1
    BY <2>1, FS_Interval
  <2>3. (IF 1 > Len(q) THEN 0 ELSE Len(q) - 1 + 1) = Len(q)
    BY <1>1
  <2>4. QED
    BY <2>2, <2>3
<1>6. ExistsBijection(1 .. Len(q), ToSet(q))
  BY <1>4 DEF ExistsBijection
<1>7. QED
  BY <1>5, <1>6, FS_Bijection

\* A list is merged with what is shown, and what is too much is let go of.
LEMMA MergeKeepsPage ==
  ASSUME PageInv, rows \in Seq(Whole), NEW f \in Fetches, Merge(f)
  PROVE  PageInv'
<1> DEFINE state == fetch[f]
           V2 == Merged(view.shown, state.got)
           V1 == IF state.got = <<>> THEN view.shown
                 ELSE Ascending(ToSet(view.shown) \cup ToSet(state.got))
           C2 == IF state.conn /\ view.run = state.run THEN CoverOf(state.got) ELSE cover
<1>1. /\ UNCHANGED <<rows, work, wire, link, runs>> /\ state \in Calls /\ view \in Views
      /\ state.at = "merge" /\ cover' = C2 /\ fetch' = [fetch EXCEPT ![f] = IdleFetch]
      /\ view' = [view EXCEPT !.shown = V2, !.snapshot = state.run]
  BY PageParts DEF Merge, Paging, streamVars, Done, Becomes, Views
<1>2. state.got \in Seq(Nat) /\ ToSet(state.got) \subseteq DOMAIN rows /\ ToSet(view.shown) \subseteq DOMAIN rows
      /\ state.run \in Int
  BY <1>1, PageParts, ListIsFine DEF Calls
<1>3. V1 \in Seq(Nat) /\ InOrder(rows, V1) /\ ToSet(V1) = ToSet(view.shown) \cup ToSet(state.got)
      /\ (Full(view.shown) => Full(V1))
  <2>0. CASE state.got = <<>>
    <3>1. V1 = view.shown /\ ToSet(state.got) = {}
      BY <2>0, Nothing
    <3> HIDE DEF V1
    <3>2. QED
      BY <3>1, PageParts
  <2>n. CASE state.got # <<>>
    <3> DEFINE S == ToSet(view.shown) \cup ToSet(state.got)
    <3>1. DOMAIN rows = 1 .. Len(rows) /\ Len(rows) \in Nat
      BY IsSeq
    <3>2. S \in SUBSET (1 .. Len(rows)) /\ S \in SUBSET Nat
      BY <1>2, <3>1
    <3>i. IsFiniteSet(1 .. Len(rows))
      BY <3>1, FS_Interval
    <3>s. ToSet(view.shown) \in SUBSET S
      OBVIOUS
    <3>3. IsFiniteSet(S) /\ S \in SUBSET Nat
      <4> HIDE DEF S
      <4>1. QED
        BY <3>2, <3>i, FS_Subset
    <3>4. V1 = Ascending(S)
      BY <2>n
    <3> HIDE DEF S, V1
    <3>5. V1 \in Seq(S) /\ ToSet(V1) = S /\ \A i, j \in DOMAIN V1 : i < j => V1[i] < V1[j]
      BY <3>3, <3>4, AscendingIs
    <3>6. V1 \in Seq(Nat)
      BY <3>3, <3>5, SeqMonotonic
    <3>7. InOrder(rows, V1)
      <4>1. \A i \in DOMAIN V1 : V1[i] \in Int
        BY <3>6, IsSeq
      <4>2. QED
        BY <3>5, <4>1 DEF InOrder
    <3>8. Full(view.shown) => Full(V1)
      <4>1. Len(V1) = Cardinality(S) /\ Cardinality(S) \in Nat
        BY <3>3, <3>4, AscendingIs
      <4>2. /\ view.shown \in Seq(Nat)
            /\ \A i, j \in DOMAIN view.shown : i < j => view.shown[i] # view.shown[j]
        BY PageParts DEF InOrder
      <4>3. Cardinality(ToSet(view.shown)) = Len(view.shown)
        BY <4>2, AsManyAs
      <4>4. Cardinality(ToSet(view.shown)) <= Cardinality(S)
        BY <3>3, <3>s, FS_Subset
      <4>5. Len(view.shown) \in Nat /\ ShowLimit \in Int
        BY <4>2, IsSeq, LimitsArePositive
      <4>6. QED
        BY <4>1, <4>3, <4>4, <4>5 DEF Full
    <3>9. QED
      BY <3>5, <3>6, <3>7, <3>8 DEF S
  <2>9. QED
    BY <2>0, <2>n
<1>w. V2 = V1 \/ V2 = Newest(V1)
  BY DEF Merged
<1> HIDE DEF V1
<1>x. V2 \in Seq(Nat)
  BY <1>3, <1>w, NewestIs
<1> HIDE DEF V2
<1>4. C2 \in Nat
  <2>1. CoverOf(state.got) \in Nat
    <3>1. CASE Len(state.got) < ListLimit
      BY <3>1 DEF CoverOf
    <3>2. CASE ~(Len(state.got) < ListLimit)
      <4>1. 1 \in DOMAIN state.got
        BY <1>2, <3>2, IsSeq, LimitsArePositive
      <4>2. state.got[1] \in Nat
        BY <1>2, <4>1, IsSeq
      <4>3. QED
        BY <3>2, <4>2 DEF CoverOf
    <3>3. QED
      BY <3>1, <3>2
  <2>2. QED
    BY <2>1, PageParts
<1>5. C2 = cover \/ (state.conn /\ state.run = view.run /\ C2 = CoverOf(state.got))
  OBVIOUS
<1>6. view' \in Views /\ view'.shown = V2 /\ view'.run = view.run
  BY <1>1, <1>2, <1>x DEF Views
<1>7. Renewed(rows, link, fetch, fetch')
  BY <1>1, PageParts, BeginsFresh, OneCall
<1> HIDE DEF C2
<1>8. PageOK(rows, Untold, link, wire, V2, view.run, fetch', C2)
  <2>1. PageOK(rows, Untold, link, wire, V1, view.run, fetch', C2)
    BY <1>1, <1>3, <1>4, <1>5, <1>7, PageParts, PageMerges
  <2>2. QED
    BY <1>w, <2>1, PageNewest
<1>9. QED
  BY <1>1, <1>6, <1>8, PageParts, PageTo

\* The fetches that a click begins.
LEMMA ClicksKeepPage ==
  ASSUME PageInv, NEW f \in Fetches,
         \/ Operate(f) \/ SetSession(f) \/ Operated(f)
         \/ \E r \in Runs : Select(f, r)
         \/ \E op \in {"start", "step"} : Start(f, op)
  PROVE  PageInv'
<1>1. ASSUME Operate(f) \/ SetSession(f)
      PROVE  PageInv'
  <2>1. /\ Becomes(f, [IdleFetch EXCEPT !.op = "operate", !.at = "answer"])
        /\ UNCHANGED <<rows, work, wire, cover, link, runs, view>>
    BY <1>1 DEF Operate, SetSession, Paging, streamVars
  <2>2. QED
    BY <2>1, PageParts, BeginsFresh, FetchKeepsPage
<1>2. ASSUME Operated(f)
      PROVE  PageInv'
  <2>1. Becomes(f, Begun) /\ UNCHANGED <<rows, work, wire, cover, link, runs, view>>
    BY <1>2 DEF Operated, Paging, streamVars
  <2>2. QED
    BY <2>1, PageParts, BeginsFresh, FetchKeepsPage
<1>3. ASSUME NEW r \in Runs, Select(f, r)
      PROVE  PageInv'
  <2>1. /\ Becomes(f, [IdleFetch EXCEPT !.op = "select", !.at = "list", !.run = r])
        /\ UNCHANGED <<rows, work, wire, cover, link, runs, view>>
    BY <1>3 DEF Select, Paging, streamVars
  <2>2. r \in Int
    BY StreamsHaveRuns DEF Runs
  <2>3. Fresh(rows, link, [IdleFetch EXCEPT !.op = "select", !.at = "list", !.run = r])
    BY <2>2, PageParts, BeginsFresh
  <2>4. QED
    BY <2>1, <2>3, PageParts, FetchKeepsPage
<1>4. ASSUME NEW op \in {"start", "step"}, Start(f, op)
      PROVE  PageInv'
  <2>1. /\ Becomes(f, [IdleFetch EXCEPT !.op = op, !.at = "answer", !.run = runs + 1])
        /\ UNCHANGED <<rows, work, wire, cover, link, view>> /\ runs' = runs + 1
    BY <1>4 DEF Start, Paging, streamVars
  <2>2. runs + 1 \in Int
    BY PageParts
  <2>3. Fresh(rows, link, [IdleFetch EXCEPT !.op = op, !.at = "answer", !.run = runs + 1])
    BY <2>2, PageParts, BeginsFresh
  <2>4. QED
    BY <2>1, <2>2, <2>3, PageParts, FetchKeepsPage
<1>5. QED
  BY <1>1, <1>2, <1>3, <1>4

LEMMA SelectedKeepsPage ==
  ASSUME PageInv, NEW f \in Fetches, Selected(f)
  PROVE  PageInv'
<1>1. UNCHANGED <<rows, work, wire, link, runs>> /\ fetch[f] \in Calls /\ fetch[f].at = "merge"
      /\ Turns(f, IdleFetch) /\ view' = [view EXCEPT !.run = fetch[f].run, !.shown = fetch[f].got]
  BY PageParts DEF Selected, Paging, streamVars
<1>2. /\ fetch[f].got \in Seq(Nat) /\ ToSet(fetch[f].got) \subseteq DOMAIN rows
      /\ InOrder(rows, fetch[f].got) /\ NoneBehind(rows, Untold, wire, fetch[f].got)
      /\ fetch[f].run \in Int
  BY <1>1, PageParts, ListIsFine DEF Calls
<1>3. view' \in Views /\ view'.shown = fetch[f].got
  BY <1>1, <1>2, PageParts DEF Views
<1>4. Fresh(rows, link, IdleFetch)
  BY PageParts, BeginsFresh
<1>5. QED
  BY <1>1, <1>2, <1>3, <1>4, PageParts, ShowsAnother

LEMMA StartedKeepsPage ==
  ASSUME PageInv, NEW f \in Fetches, Started(f)
  PROVE  PageInv'
<1> DEFINE run == fetch[f].run
           V2 == IF fetch[f].op = "start" THEN <<>> ELSE view.shown
<1>1. UNCHANGED <<rows, work, wire, link, runs>> /\ fetch[f] \in Calls /\ view \in Views
      /\ Turns(f, [Begun EXCEPT !.run = run]) /\ view' = [view EXCEPT !.run = run, !.shown = V2]
  BY PageParts DEF Started, Paging, streamVars, Views
<1>2. run \in Int /\ V2 \in Seq(Nat)
  BY <1>1, Nothing DEF Calls, Views
<1>3. /\ ToSet(V2) \subseteq DOMAIN rows /\ InOrder(rows, V2) /\ NoneBehind(rows, Untold, wire, V2)
  BY EmptyIsFine, PageParts
<1> HIDE DEF run, V2
<1>4. view' \in Views /\ view'.shown = V2
  BY <1>1, <1>2 DEF Views
<1>5. Fresh(rows, link, [Begun EXCEPT !.run = run])
  BY <1>1, <1>2, BeginsFresh
<1>6. QED
  BY <1>1, <1>3, <1>4, <1>5, PageParts, ShowsAnother

LEMMA FetchFailsKeepsPage ==
  ASSUME PageInv, NEW f \in Fetches, FetchFails(f)
  PROVE  PageInv'
<1> DEFINE call == [fetch[f] EXCEPT !.at = "run", !.run = fetch[f].latest, !.got = <<>>, !.conn = FALSE]
<1>1. UNCHANGED <<rows, work, wire, cover, link, runs, view>> /\ fetch[f] \in Calls
      /\ (Becomes(f, call) \/ Becomes(f, IdleFetch))
  BY PageParts DEF FetchFails, Paging, streamVars, Done
<1>2. call \in Calls /\ call.at # "merge" /\ call.got = <<>> /\ ~call.conn
  BY <1>1, Nothing DEF Calls
<1> HIDE DEF call
<1>3. Fresh(rows, link, call) /\ Fresh(rows, link, IdleFetch)
  BY <1>2, EmptyIsFine, BeginsFresh, PageParts DEF Fresh
<1>4. QED
  BY <1>1, <1>3, PageParts, FetchKeepsPage

LEMMA RunMadeKeepsPage ==
  ASSUME PageInv, RunMade
  PROVE  PageInv'
<1>1. UNCHANGED <<rows, work, wire, cover, link, view, fetch>> /\ runs' = runs + 1
  BY DEF RunMade, Paging, streamVars, pageVars
<1>2. Renewed(rows, link, fetch, fetch') /\ runs' \in Int
  BY <1>1, PageParts, SameCalls
<1>3. QED
  BY <1>1, <1>2, PageParts, ShowsTheSame

\* What is on the wire is received, and shown or of another run.
LEMMA TakenOffWire ==
  ASSUME PageInv, rows \in Seq(Whole), Receives, cover' = cover,
         view' \in Views, view'.run = view.run, Renewed(rows, link, fetch, fetch'),
         \/ /\ view'.shown = view.shown
            /\ (Head(wire) \in ToSet(view.shown) \/ RunIn(rows, Head(wire)) # view.run)
         \/ /\ view'.shown = Newest(Append(view.shown, Head(wire)))
            /\ Head(wire) \notin ToSet(view.shown)
  PROVE  PageInv'
<1>1. wire # <<>> /\ wire' = Tail(wire) /\ UNCHANGED <<rows, work, link, runs>>
  BY DEF Receives, Paging, streamVars
<1>2. Untold \subseteq Nat
  <2>1. Untold \subseteq DOMAIN rows /\ DOMAIN rows = 1 .. Len(rows)
    BY IsSeq DEF PageInv, PageOK, Known
  <2>2. QED
    BY <2>1
<1>3. PageOK(rows, Untold, link, Tail(wire), view'.shown, view.run, fetch', cover)
  <2>1. CASE view'.shown = view.shown /\ (Head(wire) \in ToSet(view.shown) \/ RunIn(rows, Head(wire)) # view.run)
    BY <1>1, <1>2, <2>1, PageParts, PageReceives
  <2>2. CASE view'.shown = Newest(Append(view.shown, Head(wire))) /\ Head(wire) \notin ToSet(view.shown)
    <3>1. PageOK(rows, Untold, link, Tail(wire), Append(view.shown, Head(wire)), view.run, fetch', cover)
      BY <1>1, <1>2, <2>2, PageParts, PageReceives
    <3>2. QED
      BY <2>2, <3>1, PageNewest
  <2>3. QED
    BY <2>1, <2>2
<1>4. QED
  BY <1>1, <1>3, PageParts, PageTo

LEMMA ShowsKeepsPage ==
  ASSUME PageInv, rows \in Seq(Whole), NEW f \in Fetches, Receives, Shows(f, Head(wire))
  PROVE  PageInv'
<1> DEFINE k == Head(wire)
           V2 == ShownWith(k)
<1>1. wire # <<>> /\ view' = [view EXCEPT !.shown = V2] /\ cover' = cover
      /\ (Becomes(f, Begun) \/ fetch' = fetch)
  BY DEF Receives, Shows
<1>2. view \in Views /\ view.shown \in Seq(Nat) /\ fetch \in [Fetches -> Calls] /\ wire \in Seq(Nat)
  BY PageParts
<1>3. k \in Nat
  BY <1>1, <1>2, InTail
<1>4. /\ V2 \in Seq(Nat)
      /\ \/ V2 = view.shown /\ k \in ToSet(view.shown)
         \/ V2 = Newest(Append(view.shown, k)) /\ k \notin ToSet(view.shown)
  <2>1. Append(view.shown, k) \in Seq(Nat)
    BY <1>2, <1>3, AtEnd
  <2>n. Newest(Append(view.shown, k)) \in Seq(Nat)
    BY <2>1, NewestIs
  <2>2. CASE k \in ToSet(view.shown)
    BY <1>2, <2>2 DEF ShownWith
  <2>3. CASE k \notin ToSet(view.shown)
    BY <2>3, <2>n DEF ShownWith
  <2>4. QED
    BY <2>2, <2>3
<1>5. Renewed(rows, link, fetch, fetch')
  <2>1. Renewed(rows, link, fetch, fetch) /\ Renewed(rows, link, fetch, [fetch EXCEPT ![f] = Begun])
    BY <1>2, BeginsFresh, OneCall, SameCalls
  <2>2. QED
    BY <1>1, <2>1 DEF Becomes
<1> HIDE DEF V2
<1>6. view' \in Views /\ view'.shown = V2 /\ view'.run = view.run
  BY <1>1, <1>2, <1>4 DEF Views
<1>7. QED
  BY <1>1, <1>4, <1>5, <1>6, TakenOffWire

\* An event of another run is put aside.
LEMMA PutAsideKeepsPage ==
  ASSUME PageInv, rows \in Seq(Whole), Receives, UNCHANGED pageVars,
         RunIn(rows, Head(wire)) # view.run
  PROVE  PageInv'
<1>1. UNCHANGED <<view, fetch, cover>>
  BY DEF pageVars
<1>2. view' \in Views /\ view'.run = view.run /\ view'.shown = view.shown
  BY <1>1, PageParts
<1>3. Renewed(rows, link, fetch, fetch')
  BY <1>1, PageParts, SameCalls
<1>4. QED
  BY <1>1, <1>2, <1>3, TakenOffWire

LEMMA ReceiveKeepsPage ==
  ASSUME PageInv, rows \in Seq(Whole), NEW f \in Fetches, SessionReceive(f) \/ IssueReceive(f)
  PROVE  PageInv'
<1> DEFINE k == Head(wire)
           r == RunOf[rows[k].stream]
           shown == IF view.run # 0 THEN view.run ELSE view.latest
<1>1. Receives
  BY DEF SessionReceive, IssueReceive
<1>2. CASE Shows(f, k)
  BY <1>1, <1>2, ShowsKeepsPage
<1>3. r = RunIn(rows, k) /\ r \in Int /\ r # 0
  <2>1. k \in DOMAIN rows
    <3>1. wire # <<>> /\ wire \in Seq(Nat) /\ ToSet(wire) \subseteq DOMAIN rows
      BY <1>1, PageParts DEF Receives, PageOK, Known
    <3>2. k \in ToSet(wire)
      BY <3>1, InTail
    <3>3. QED
      BY <3>1, <3>2
  <2>2. rows[k] \in Whole
    BY <2>1, IsSeq
  <2>3. rows[k].stream \in Streams
    BY <2>2 DEF Whole, EventRow
  <2>4. r \in Nat \ {0}
    BY <2>3, StreamsHaveRuns
  <2>5. QED
    BY <2>4 DEF RunIn
<1>4. CASE SessionReceive(f) /\ ~Shows(f, k)
  <2>1. r # view.run /\ UNCHANGED pageVars
    BY <1>4 DEF SessionReceive, OfRun
  <2>2. QED
    BY <1>1, <1>3, <2>1, PutAsideKeepsPage
<1>5. CASE IssueReceive(f) /\ ~Shows(f, k)
  <2>1. r # shown
    BY <1>5 DEF IssueReceive
  <2>2. r # view.run
    BY <1>3, <2>1
  <2>3. CASE r \notin view.looked
    <3> DEFINE call == [IdleFetch EXCEPT !.op = "switch", !.at = "run", !.run = r]
               seen == view.looked \cup {r}
    <3>1. Becomes(f, call) /\ view' = [view EXCEPT !.looked = seen] /\ cover' = cover
      BY <1>5, <2>1, <2>3 DEF IssueReceive
    <3>2. view \in Views /\ seen \in SUBSET Int
      BY <1>3, PageParts DEF Views
    <3>3. Fresh(rows, link, call)
      BY <1>3, <3>2, BeginsFresh
    <3> HIDE DEF seen, call
    <3>4. view' \in Views /\ view'.run = view.run /\ view'.shown = view.shown
      BY <3>1, <3>2 DEF Views
    <3>5. Renewed(rows, link, fetch, fetch')
      BY <3>1, <3>3, PageParts, OneCall DEF Becomes
    <3>6. QED
      BY <1>1, <1>3, <2>2, <3>1, <3>4, <3>5, TakenOffWire
  <2>4. CASE r \in view.looked
    <3>1. UNCHANGED pageVars
      BY <1>5, <2>1, <2>4 DEF IssueReceive
    <3>2. QED
      BY <1>1, <1>3, <2>2, <3>1, PutAsideKeepsPage
  <2>5. QED
    BY <2>3, <2>4
<1>6. QED
  BY <1>2, <1>4, <1>5

-----------------------------------------------------------------------------
(* The streams, and the whole                                                *)

LEMMA StreamsLeavePage ==
  ASSUME PageInv, UNCHANGED <<rows, link, wire, view, fetch, cover, runs>>,
         \A s \in Streams : work'[s].made = work[s].made
  PROVE  PageInv'
<1>1. Untold' = Untold
  BY DEF Untold
<1>2. QED
  BY <1>1 DEF PageInv

LEMMA QueuesLeavePage ==
  ASSUME StreamsInv, PageInv, NEW s \in Streams,
         \/ TakeText(s) \/ TakeOther(s) \/ TakeFlush(s) \/ Fire(s) \/ CreateFails(s)
         \/ \E kind \in Kinds : Arrive(s, kind)
  PROVE  PageInv'
<1>1. UNCHANGED <<rows, link, wire, view, fetch, cover, runs>>
  BY DEF TakeText, TakeOther, TakeFlush, Fire, CreateFails, Arrive, Takes, Streaming, pageVars
<1>2. work' = work \/ \E todo : work' = [work EXCEPT ![s].todo = todo]
  BY DEF TakeText, TakeOther, TakeFlush, Fire, CreateFails, Arrive, Writes
<1>3. DOMAIN work = Streams /\ work[s] = [todo |-> work[s].todo, made |-> work[s].made]
  BY OneOf DEF StreamsInv
<1>4. \A t \in Streams : work'[t].made = work[t].made
  BY <1>2, <1>3
<1>5. QED
  BY <1>1, <1>4, StreamsLeavePage

LEMMA CreateKeepsPage ==
  ASSUME StreamsInv, PageInv, NEW s \in Streams, Create(s)
  PROVE  PageInv'
<1> DEFINE row == Head(work[s].todo)
           n   == Len(rows) + 1
<1>1. /\ UNCHANGED <<link, wire, view, fetch, cover, runs>> /\ rows' = Append(rows, row)
      /\ work' = [work EXCEPT ![s] = [todo |-> Tail(work[s].todo), made |-> n]]
      /\ work[s].made = 0 /\ work[s].todo # <<>>
  BY DEF Create, Streaming, pageVars
<1>2. rows \in Seq(Whole) /\ work[s].todo \in Seq(Piece(s)) /\ DOMAIN work = Streams
  BY OneOf DEF StreamsInv
<1>3. row \in Whole /\ row.stream = s
  <2>1. row \in Piece(s)
    BY <1>1, <1>2, OffHead
  <2>2. QED
    BY <2>1 DEF Piece
<1>4. Len(rows) \in Nat /\ DOMAIN rows = 1 .. Len(rows) /\ n # 0
  BY <1>2, IsSeq
<1> HIDE DEF row, n
<1>5. work'[s].made = n /\ \A t \in Streams \ {s} : work'[t] = work[t]
  BY <1>1, <1>2
<1>6. Untold' = Untold \cup {n}
  BY <1>1, <1>4, <1>5 DEF Untold
<1>7. PageOK(rows', Untold', link', wire', view'.shown, view'.run, fetch', cover')
  <2>1. PageOK(Append(rows, row), Untold \cup {Len(rows) + 1}, link, wire, view.shown, view.run, fetch, cover)
    BY <1>2, <1>3, PageParts, PageWritten
  <2>2. QED
    BY <1>1, <1>6, <2>1 DEF n
<1>8. ASSUME NEW t \in Streams, work'[t].made # 0
      PROVE  rows'[work'[t].made].stream = t
  <2>1. CASE t = s
    <3>1. rows'[n] = row
      BY <1>1, <1>2, <1>3, AtEnd DEF n
    <3>2. QED
      BY <1>3, <1>5, <2>1, <3>1
  <2>2. CASE t # s
    <3>1. work[t].made # 0 /\ work'[t].made = work[t].made
      BY <1>5, <1>8, <2>2
    <3>2. rows[work[t].made].stream = t /\ work[t].made \in DOMAIN rows
      BY <3>1 DEF PageInv, PageOK, Known, Untold
    <3>3. rows'[work[t].made] = rows[work[t].made]
      BY <1>1, <1>2, <1>3, <3>2, AtEnd
    <3>4. QED
      BY <3>1, <3>2, <3>3
  <2>3. QED
    BY <2>1, <2>2
<1>9. view' \in Views /\ runs' \in Int
  BY <1>1, PageParts
<1>10. QED
  BY <1>7, <1>8, <1>9 DEF PageInv

LEMMA TellKeepsPage ==
  ASSUME StreamsInv, PageInv, NEW s \in Streams, Tell(s)
  PROVE  PageInv'
<1> DEFINE k == work[s].made
<1>1. /\ UNCHANGED <<link, rows, view, fetch, cover, runs>>
      /\ wire' = (IF link = "up" THEN Append(wire, k) ELSE wire)
      /\ work' = [work EXCEPT ![s].made = 0] /\ k # 0
  BY DEF Tell, Streaming, pageVars
<1>2. rows \in Seq(Whole) /\ DOMAIN work = Streams /\ work[s] = [todo |-> work[s].todo, made |-> k]
  BY OneOf DEF StreamsInv
<1> HIDE DEF k
<1>3. work'[s].made = 0 /\ \A t \in Streams \ {s} : work'[t] = work[t]
  BY <1>1, <1>2
<1>4. k \in Untold /\ \A j \in Untold \ {k} : rows[j].stream # rows[k].stream
  <2>1. k \in Untold
    BY <1>1 DEF Untold, k
  <2>2. ASSUME NEW j \in Untold, j # k
        PROVE  rows[j].stream # rows[k].stream
    <3>1. PICK t \in Streams : work[t].made = j /\ j # 0
      BY DEF Untold
    <3>2. rows[j].stream = t /\ rows[k].stream = s
      BY <1>1, <3>1 DEF PageInv, k
    <3>3. QED
      BY <2>2, <3>1, <3>2 DEF k
  <2>3. QED
    BY <2>1, <2>2
<1>5. Untold' = Untold \ {k}
  <2>1. ASSUME NEW j \in Untold'
        PROVE  j \in Untold \ {k}
    <3>1. PICK t \in Streams : work'[t].made = j /\ j # 0
      BY DEF Untold
    <3>2. t # s /\ work[t].made = j
      BY <1>3, <3>1
    <3>3. j # k
      BY <1>1, <3>1, <3>2 DEF PageInv, k
    <3>4. QED
      BY <3>1, <3>2, <3>3 DEF Untold
  <2>2. ASSUME NEW j \in Untold, j # k
        PROVE  j \in Untold'
    <3>1. PICK t \in Streams : work[t].made = j /\ j # 0
      BY DEF Untold
    <3>2. t # s
      BY <2>2, <3>1 DEF k
    <3>3. work'[t].made = j
      BY <1>3, <3>1, <3>2
    <3>4. QED
      BY <3>1, <3>3 DEF Untold
  <2>3. QED
    BY <2>1, <2>2
<1>6. PageOK(rows, Untold \ {k}, link, IF link = "up" THEN Append(wire, k) ELSE wire,
             view.shown, view.run, fetch, cover)
  BY <1>2, <1>4, PageParts, PageTold
<1>7. PageOK(rows', Untold', link', wire', view'.shown, view'.run, fetch', cover')
  BY <1>1, <1>5, <1>6
<1>8. \A t \in Streams : work'[t].made # 0 => rows'[work'[t].made].stream = t
  BY <1>1, <1>3 DEF PageInv
<1>9. view' \in Views /\ runs' \in Int
  BY <1>1, PageParts
<1>10. QED
  BY <1>7, <1>8, <1>9 DEF PageInv

LEMMA PageBegins ==
  ASSUME ConsoleInit
  PROVE  PageInv
<1>1. /\ rows = <<>> /\ wire = <<>> /\ link = "closed" /\ cover = 0 /\ runs = scene.runs
      /\ scene \in ConsoleScenes /\ \A s \in Streams : work[s].made = 0
  BY DEF ConsoleInit
<1>2. runs \in Int
  <2>1. scene.runs \in 0 .. Cardinality(Runs)
    BY <1>1, ConsoleScenesAreKnown
  <2>2. QED
    BY <1>1, <2>1
<1>3. view \in Views /\ view.shown = <<>>
  <2> DEFINE none == <<>>
             run  == IF scene.page = "session" THEN 1 ELSE 0
  <2>1. view = [open |-> FALSE, run |-> run, latest |-> 0, shown |-> none, snapshot |-> 0, looked |-> {}]
    BY DEF ConsoleInit
  <2>2. none \in Seq(Nat) /\ run \in Int
    BY Nothing
  <2> HIDE DEF none, run
  <2>3. view \in Views /\ view.shown = none
    BY <2>1, <2>2 DEF Views
  <2>4. QED
    BY <2>3 DEF none
<1>4. ASSUME NEW f \in Fetches
      PROVE  fetch[f] \in Calls /\ fetch[f].got = <<>> /\ ~fetch[f].conn /\ fetch[f].at # "merge"
  <2>1. fetch[f] \in {Begun, IdleFetch}
    BY DEF ConsoleInit
  <2>2. Fresh(rows, "closed", Begun) /\ Fresh(rows, "closed", IdleFetch)
    BY <1>3, BeginsFresh
  <2>3. Begun.got = <<>> /\ ~Begun.conn /\ IdleFetch.got = <<>> /\ ~IdleFetch.conn
    BY DEF Begun, IdleFetch
  <2>4. QED
    BY <2>1, <2>2, <2>3 DEF Fresh
<1>5. fetch \in [Fetches -> Calls]
  BY <1>4 DEF ConsoleInit
<1>6. Untold = {}
  BY <1>1 DEF Untold
<1>7. Known(rows, {}, <<>>, <<>>, fetch)
  BY <1>4, Nothing DEF Known
<1>8. Attached("closed", fetch, 0) /\ Covered(rows, {}, <<>>, <<>>, view.run, fetch, 0)
  BY <1>4 DEF Attached, Covered
<1>9. ListsRead(rows, fetch)
  BY <1>4, EmptyIsFine DEF ListsRead
<1>10. Brought(rows, {}, <<>>)
  BY Nothing DEF Brought
<1>11. PageOK(rows, {}, "closed", <<>>, <<>>, view.run, fetch, 0)
  BY <1>5, <1>7, <1>8, <1>9, <1>10, Nothing, EmptyIsFine DEF PageOK
<1>12. QED
  BY <1>1, <1>2, <1>3, <1>6, <1>11 DEF PageInv

LEMMA PageSteps ==
  ASSUME StreamsInv, PageInv, [ConsoleNext]_consoleVars
  PROVE  PageInv'
<1>1. rows \in Seq(Whole)
  BY DEF StreamsInv
<1>2. ASSUME NEW s \in Streams, Flowing(s) \/ CreateFails(s) \/ \E kind \in Kinds : Arrive(s, kind)
      PROVE  PageInv'
  BY <1>2, QueuesLeavePage, CreateKeepsPage, TellKeepsPage DEF Flowing
<1>3. CASE Drop
  <2>1. Cut /\ UNCHANGED <<rows, runs, work>>
    BY <1>3 DEF Drop, streamVars
  <2>2. QED
    BY <2>1, CutKeepsPage
<1>4. CASE Restart
  <2>1. Cut /\ UNCHANGED <<rows, runs>> /\ \A s \in Streams : work'[s].made = 0
    BY <1>4 DEF Restart
  <2>2. QED
    BY <2>1, CutKeepsPage
<1>5. ASSUME NEW f \in Fetches, Fetching(f)
      PROVE  PageInv'
  BY <1>1, <1>5, GotIssueKeepsPage, SessionRunKeepsPage, IssueRunKeepsPage, ListReadKeepsPage,
     MergeKeepsPage, SelectedKeepsPage, StartedKeepsPage, ClicksKeepPage, ReceiveKeepsPage
     DEF Fetching
<1>6. ASSUME NEW f \in Fetches,
             \/ Refresh(f) \/ FetchFails(f) \/ Operate(f) \/ SetSession(f)
             \/ \E r \in Runs : Select(f, r)
             \/ \E op \in {"start", "step"} : Start(f, op)
      PROVE  PageInv'
  BY <1>6, RefreshKeepsPage, FetchFailsKeepsPage, ClicksKeepPage
<1>7. CASE UNCHANGED consoleVars
  <2>1. UNCHANGED <<rows, link, wire, view, fetch, cover, runs, work>>
    BY <1>7 DEF consoleVars, streamVars, pageVars
  <2>2. QED
    BY <2>1, StreamsLeavePage
<1>8. QED
  BY <1>2, <1>3, <1>4, <1>5, <1>6, <1>7, ReconnectKeepsPage, RunMadeKeepsPage DEF ConsoleNext

LEMMA PageImpliesCovers ==
  ASSUME StreamsInv, PageInv
  PROVE  ConsoleCovers
<1> SUFFICES ASSUME cover # 0, ~PageFull, NEW k \in cover .. Len(rows), OfRun(k, view.run),
                    \A s \in Streams : work[s].made # k
             PROVE  k \in ToSet(view.shown \o wire)
  BY DEF ConsoleCovers
<1>1. cover \in Nat /\ rows \in Seq(Whole) /\ view.shown \in Seq(Nat) /\ wire \in Seq(Nat)
  BY PageParts DEF StreamsInv
<1>2. k \in DOMAIN rows /\ k >= cover
  <2>1. DOMAIN rows = 1 .. Len(rows) /\ Len(rows) \in Nat
    BY <1>1, IsSeq
  <2>2. QED
    BY <1>1, <2>1
<1>3. k \notin Untold
  BY DEF Untold
<1>4. RunIn(rows, k) = view.run
  BY DEF RunIn, OfRun
<1>5. Reached(rows, Untold, wire, view.shown, view.run, cover, {})
  BY PageParts DEF PageOK, Covered
<1>6. k \in ToSet(view.shown) \/ k \in ToSet(wire)
  BY <1>2, <1>3, <1>4, <1>5 DEF Reached, Full, PageFull
<1> DEFINE q == view.shown
           w == wire
<1>7. DOMAIN q = 1 .. Len(q) /\ DOMAIN w = 1 .. Len(w) /\ Len(q) \in Nat /\ Len(w) \in Nat
  BY <1>1, IsSeq
<1>8. /\ q \o w \in Seq(Nat) /\ Len(q \o w) = Len(q) + Len(w)
      /\ \A i \in 1 .. Len(q) + Len(w) : (q \o w)[i] = IF i <= Len(q) THEN q[i] ELSE w[i - Len(q)]
  BY <1>1, ConcatProperties
<1>9. DOMAIN (q \o w) = 1 .. Len(q) + Len(w)
  BY <1>8, IsSeq
<1> DEFINE both == q \o w
<1> HIDE DEF q, w, both
<1>10. CASE k \in ToSet(q)
  <2>1. PICK i \in 1 .. Len(q) : q[i] = k
    BY <1>7, <1>10 DEF ToSet
  <2>2. i \in DOMAIN both /\ both[i] = k
    BY <1>7, <1>8, <1>9, <2>1 DEF both
  <2>3. QED
    BY <2>2 DEF ToSet, both, q, w
<1>11. CASE k \in ToSet(w)
  <2>1. PICK i \in 1 .. Len(w) : w[i] = k
    BY <1>7, <1>11 DEF ToSet
  <2>2. Len(q) + i \in 1 .. Len(q) + Len(w) /\ ~(Len(q) + i <= Len(q)) /\ Len(q) + i - Len(q) = i
    BY <1>7, <2>1
  <2>3. Len(q) + i \in DOMAIN both /\ both[Len(q) + i] = k
    BY <1>8, <1>9, <2>1, <2>2 DEF both
  <2>4. QED
    BY <2>3 DEF ToSet, both, q, w
<1>12. QED
  BY <1>6, <1>10, <1>11 DEF q, w

LEMMA PageImpliesInOrder ==
  ASSUME StreamsInv, PageInv
  PROVE  ShownInOrder
<1> DEFINE q == view.shown
<1> SUFFICES ASSUME NEW i \in DOMAIN q, NEW j \in DOMAIN q, i < j
             PROVE  LET a == q[i]
                        b == q[j]
                    IN /\ a # b
                       /\ rows[a].stream = rows[b].stream =>
                            \/ a < b \/ PageFull
                            \/ Cardinality({k \in DOMAIN rows : OfRun(k, RunOf[rows[a].stream])}) > ListLimit
  BY DEF ShownInOrder
<1> DEFINE a == q[i]
           b == q[j]
           r == RunIn(rows, a)
<1>1. a # b /\ (rows[a].stream = rows[b].stream /\ Small(rows, r) /\ ~PageFull => a < b)
  BY PageParts DEF InOrder, Full, PageFull
<1>2. RowsIn(rows, r) = {k \in DOMAIN rows : OfRun(k, RunOf[rows[a].stream])}
  BY DEF RowsIn, RunIn, OfRun
<1>3. Cardinality(RowsIn(rows, r)) \in Nat /\ ListLimit \in Nat
  BY RowsAreFinite, LimitsArePositive DEF StreamsInv
<1>4. Small(rows, r) \/ Cardinality(RowsIn(rows, r)) > ListLimit
  BY <1>3 DEF Small
<1>5. QED
  BY <1>1, <1>2, <1>4

\* Once a page has merged a list that was read while its socket was in place, it shows, or
\* its socket brings, every event of its run from the first of the list on, unless it shows
\* as many events as it keeps, until the socket breaks or it turns to another run
\* (useSessionController.ts:171).
THEOREM ConsoleCoversHolds == ConsoleSpec => []ConsoleCovers
<1>1. ConsoleInit => StreamsInv /\ PageInv
  BY StreamsBegin, PageBegins
<1>2. StreamsInv /\ PageInv /\ [ConsoleNext]_consoleVars => StreamsInv' /\ PageInv'
  BY StreamsStep, PageSteps
<1>3. StreamsInv /\ PageInv => ConsoleCovers
  BY PageImpliesCovers
<1>4. QED
  BY <1>1, <1>2, <1>3, PTL DEF ConsoleSpec

\* No list and no broadcast that comes late or twice makes a page show an event twice, or,
\* while a list holds all of its run and the page has room, the events of a stream out of
\* their order (mergeEventsById).
THEOREM ShownInOrderHolds == ConsoleSpec => []ShownInOrder
<1>1. ConsoleInit => StreamsInv /\ PageInv
  BY StreamsBegin, PageBegins
<1>2. StreamsInv /\ PageInv /\ [ConsoleNext]_consoleVars => StreamsInv' /\ PageInv'
  BY StreamsStep, PageSteps
<1>3. StreamsInv /\ PageInv => ShownInOrder
  BY PageImpliesInOrder
<1>4. QED
  BY <1>1, <1>2, <1>3, PTL DEF ConsoleSpec
=============================================================================
