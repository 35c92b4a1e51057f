------------------------ MODULE SandboxControl_proofs ------------------------
(***************************************************************************)
(* That a push is reported as made only if the proxy made it, and that the *)
(* row of a run does not go on to say that a removed instance runs: for    *)
(* any runs, pushes, orders, losses of the connection and removals.        *)
(***************************************************************************)
EXTENDS SandboxControl, FiniteSetTheorems, SequenceTheorems, TLAPS

-----------------------------------------------------------------------------
(* Sequences.                                                                *)

LEMMA SeqIs ==
  ASSUME NEW S, NEW s \in Seq(S)
  PROVE  Len(s) \in Nat /\ DOMAIN s = 1 .. Len(s) /\ \A i \in DOMAIN s : s[i] \in S
BY LenProperties, ElementOfSeq

LEMMA Added ==
  ASSUME NEW S, NEW s \in Seq(S), NEW e \in S
  PROVE  /\ Append(s, e) \in Seq(S)
         /\ DOMAIN Append(s, e) = 1 .. Len(s) + 1
         /\ \A i \in DOMAIN s : Append(s, e)[i] = s[i]
         /\ Append(s, e)[Len(s) + 1] = e
BY SeqIs, AppendProperties, LenProperties

LEMMA Beheaded ==
  ASSUME NEW S, NEW s \in Seq(S), s # <<>>
  PROVE  /\ 1 \in DOMAIN s /\ Head(s) = s[1] /\ s[1] \in S
         /\ Tail(s) \in Seq(S)
         /\ DOMAIN Tail(s) = 1 .. Len(s) - 1
         /\ \A i \in DOMAIN Tail(s) : i + 1 \in DOMAIN s /\ Tail(s)[i] = s[i + 1]
<1>1. Len(s) \in Nat \ {0} /\ DOMAIN s = 1 .. Len(s)
  BY SeqIs, EmptySeq
<1>2. Tail(s) \in Seq(S) /\ Len(Tail(s)) = Len(s) - 1
      /\ \A i \in 1 .. Len(Tail(s)) : Tail(s)[i] = s[i + 1]
  BY HeadTailProperties
<1>3. DOMAIN Tail(s) = 1 .. Len(s) - 1
  BY <1>2, LenProperties
<1>4. Head(s) = s[1]
  BY <1>1
<1>5. s[1] \in S
  BY <1>1, SeqIs
<1>6. QED
  BY <1>1, <1>2, <1>3, <1>4, <1>5

LEMMA Removed1 ==
  ASSUME NEW S, NEW s \in Seq(S), NEW i \in DOMAIN s
  PROVE  /\ s[i] \in S /\ RemoveAt(s, i) \in Seq(S)
         /\ DOMAIN RemoveAt(s, i) = 1 .. Len(s) - 1
         /\ \A j \in DOMAIN RemoveAt(s, i) :
              RemoveAt(s, i)[j] = IF j < i THEN s[j] ELSE s[j + 1]
<1>1. i \in 1 .. Len(s) /\ Len(s) \in Nat /\ \A j \in 1 .. Len(s) : s[j] \in S
  BY SeqIs
<1> DEFINE a == SubSeq(s, 1, i - 1)
           b == SubSeq(s, i + 1, Len(s))
<1>2. a \in Seq(S) /\ Len(a) = i - 1 /\ \A j \in 1 .. i - 1 : a[j] = s[j]
  <2>1. \A j \in 1 .. (i - 1) : s[j] \in S
    BY <1>1
  <2>2. /\ a \in Seq(S) /\ Len(a) = IF 1 <= i - 1 THEN (i - 1) - 1 + 1 ELSE 0
        /\ \A j \in 1 .. (i - 1) - 1 + 1 : a[j] = s[1 + j - 1]
    BY <1>1, <2>1, SubSeqProperties
  <2>3. QED
    BY <1>1, <2>2
<1>3. b \in Seq(S) /\ Len(b) = Len(s) - i /\ \A j \in 1 .. Len(s) - i : b[j] = s[i + j]
  <2>1. \A j \in (i + 1) .. Len(s) : s[j] \in S
    BY <1>1
  <2>2. /\ b \in Seq(S) /\ Len(b) = IF i + 1 <= Len(s) THEN Len(s) - (i + 1) + 1 ELSE 0
        /\ \A j \in 1 .. Len(s) - (i + 1) + 1 : b[j] = s[(i + 1) + j - 1]
    BY <1>1, <2>1, SubSeqProperties
  <2>3. QED
    BY <1>1, <2>2
<1> HIDE DEF a, b
<1>c. /\ a \o b \in Seq(S) /\ Len(a \o b) = Len(a) + Len(b)
      /\ \A j \in 1 .. Len(a) + Len(b) : (a \o b)[j] = IF j <= Len(a) THEN a[j] ELSE b[j - Len(a)]
  BY <1>2, <1>3, ConcatProperties
<1>4. a \o b \in Seq(S) /\ Len(a \o b) = Len(s) - 1
  BY <1>1, <1>2, <1>3, <1>c
<1>5. ASSUME NEW j \in 1 .. Len(s) - 1
      PROVE  (a \o b)[j] = IF j < i THEN s[j] ELSE s[j + 1]
  <2>0. j \in 1 .. Len(a) + Len(b) /\ Len(a) = i - 1 /\ j \in Int /\ i \in Int
    BY <1>5, <1>1, <1>2, <1>3
  <2>1. (a \o b)[j] = IF j <= i - 1 THEN a[j] ELSE b[j - (i - 1)]
    BY <2>0, <1>c
  <2>2. CASE j < i
    BY <1>5, <1>1, <1>2, <2>1, <2>2
  <2>3. CASE j >= i
    <3>1. j - (i - 1) \in 1 .. Len(s) - i /\ i + (j - (i - 1)) = j + 1
      BY <1>5, <1>1, <2>3
    <3>2. QED
      BY <1>5, <1>1, <1>3, <2>1, <2>3, <3>1
  <2>4. j < i \/ j >= i
    BY <2>0
  <2>5. QED
    BY <2>2, <2>3, <2>4
<1>6. DOMAIN (a \o b) = 1 .. Len(s) - 1
  BY <1>4, LenProperties
<1>7. QED
  BY <1>1, <1>4, <1>5, <1>6 DEF RemoveAt, a, b

LEMMA Put ==
  ASSUME NEW S, NEW s \in Seq(S), NEW i \in DOMAIN s, NEW e \in S
  PROVE  /\ [s EXCEPT ![i] = e] \in Seq(S)
         /\ DOMAIN [s EXCEPT ![i] = e] = DOMAIN s
         /\ \A j \in DOMAIN s : [s EXCEPT ![i] = e][j] = IF j = i THEN e ELSE s[j]
<1>1. i \in 1 .. Len(s) /\ DOMAIN s = 1 .. Len(s)
  BY SeqIs
<1>2. QED
  BY <1>1, ExceptSeq

LEMMA Joined ==
  ASSUME NEW S, NEW s \in Seq(S), NEW t \in Seq(S)
  PROVE  /\ s \o t \in Seq(S)
         /\ DOMAIN (s \o t) = 1 .. Len(s) + Len(t)
         /\ \A i \in DOMAIN s : (s \o t)[i] = s[i]
         /\ \A i \in DOMAIN t : (s \o t)[Len(s) + i] = t[i]
         /\ \A i \in DOMAIN (s \o t) : (s \o t)[i] = IF i <= Len(s) THEN s[i] ELSE t[i - Len(s)]
<1>1. /\ Len(s) \in Nat /\ DOMAIN s = 1 .. Len(s) /\ Len(t) \in Nat /\ DOMAIN t = 1 .. Len(t)
  BY SeqIs
<1>2. /\ s \o t \in Seq(S) /\ Len(s \o t) = Len(s) + Len(t)
      /\ \A i \in 1 .. Len(s) + Len(t) : (s \o t)[i] = IF i <= Len(s) THEN s[i] ELSE t[i - Len(s)]
  BY ConcatProperties
<1>3. DOMAIN (s \o t) = 1 .. Len(s) + Len(t)
  BY <1>2, LenProperties
<1>4. QED
  BY <1>1, <1>2, <1>3

LEMMA Three ==
  ASSUME NEW a, NEW b, NEW c, NEW s, s = <<a>> \o <<b, c>>
  PROVE  3 \in DOMAIN s /\ s[3] = c /\ \A k \in DOMAIN s : s[k] \in {a, b, c}
<1> DEFINE T == {a, b, c}
           u == <<a>>
           v == <<b, c>>
<1>1. u \in Seq(T) /\ v \in Seq(T) /\ Len(u) = 1 /\ Len(v) = 2 /\ v[2] = c
  OBVIOUS
<1>2. s = u \o v
  OBVIOUS
<1> HIDE DEF u, v
<1>3. s \in Seq(T) /\ Len(s) = 3 /\ s[3] = c
  BY <1>1, <1>2
<1>4. DOMAIN s = 1 .. 3 /\ \A k \in DOMAIN s : s[k] \in T
  BY <1>3, SeqIs
<1>5. QED
  BY <1>3, <1>4

\* A set becomes a sequence that has each element once.
LEMMA SeqOfSet ==
  ASSUME NEW S, IsFiniteSet(S)
  PROVE  /\ SetToSeq(S) \in Seq(S)
         /\ \A i, j \in DOMAIN SetToSeq(S) : SetToSeq(S)[i] = SetToSeq(S)[j] => i = j
         /\ \A e \in S : \E i \in DOMAIN SetToSeq(S) : SetToSeq(S)[i] = e
<1> DEFINE n == Cardinality(S)
           g == SetToSeq(S)
<1>1. n \in Nat /\ ExistsBijection(1 .. n, S)
  BY FS_CardinalityType
<1>2. \E f \in [1 .. n -> S] : IsInjective(f)
  BY <1>1 DEF ExistsBijection, Bijection, Injection
<1>3. g \in [1 .. n -> S] /\ IsInjective(g)
  BY <1>2 DEF SetToSeq
<1>4. IsFiniteSet(1 .. n) /\ Cardinality(1 .. n) = n
  BY <1>1, FS_Interval
<1> HIDE DEF g
<1>5. g \in Injection(1 .. n, S)
  BY <1>3 DEF Injection
<1>6. g \in Surjection(1 .. n, S)
  BY <1>4, <1>5, FS_Injection
<1>7. g \in Seq(S) /\ DOMAIN g = 1 .. n
  BY <1>1, <1>3, SeqDef
<1>8. \A e \in S : \E i \in DOMAIN g : g[i] = e
  BY <1>6, <1>7 DEF Surjection
<1>9. QED
  BY <1>3, <1>7, <1>8 DEF g, IsInjective

-----------------------------------------------------------------------------
(* What an order, a task, a report and an inventory that is written are.     *)

Proxywide == {"report_inventory", "prune_orphans", "gc"}

\* An inventory speaks of each run once.
OneEach(f) == \A i, j \in DOMAIN f : f[i].run = f[j].run => i = j

FitOrder ==
  {o \in Order : /\ o.run = NoRun <=> o.action \in Proxywide
                 /\ o.action = "git_push" => o.id \in Pushes}

\* What is told of a run is what was seen of it.
FitTask ==
  {t \in Task :
    /\ t.run = NoRun <=> t.kind \in Proxywide
    /\ t.kind = "git_push" => t.id \in Pushes
    /\ t.kind = "open" => t.own # 0
    /\ t.kind \in {"open", "stop", "inspect", "ensure_running"} /\ t.at = "tell" =>
         t.seen # <<>> /\ t.seen[1].run = t.run
    /\ t.kind \in {"remove", "report_inventory"} /\ t.at = "tell" => OneEach(t.seen)}

\* A push that is reported as made was made.
FitReport(done) ==
  {m \in Report :
    /\ m.t = "result" => (m.ok => m.id \in done)
    /\ m.t = "inventory" => /\ OneEach(m.instances)
                            /\ m.absent \cap Subjects(m.instances) = {}
                            /\ m.deleted \cap (m.absent \cup Subjects(m.instances)) = {}}

FitFiling == {f \in Seq(Item) : f # <<>> /\ OneEach(f)}

\* What is neither an order, a task, a report nor an inventory.
Plain ==
  /\ sandbox \in SandboxScenes
  /\ link \in [up : BOOLEAN, closing : BOOLEAN]
  /\ runtimeOf \in [Runs -> [n : 0 .. MaxRuntimes, expires : BOOLEAN]]
  /\ made \in [Runs -> 0 .. MaxRuntimes]
  /\ holds \in [Runs -> SUBSET (1 .. MaxRuntimes)]
  /\ instance \in [Runs -> [status : Statuses, workspace : BOOLEAN]]
  /\ row \in [Runs -> [status : RowStatuses, known : BOOLEAN]]
  /\ push \in [Pushes -> {"none", "waiting", "ok", "failed", "lost"}]
  /\ pushed \subseteq Pushes
  /\ muddled \subseteq Runs
  /\ budget \in Nat
  /\ PushByProxy

Shape ==
  /\ Plain
  /\ orders \in Seq(FitOrder)
  /\ task \in Seq(FitTask)
  /\ reports \in Seq(FitReport(pushed))
  /\ filing \in Seq(FitFiling)

LEMMA ShapeTyped == Shape => SandboxTypeOK
<1> SUFFICES ASSUME Shape PROVE SandboxTypeOK
  OBVIOUS
<1>1. orders \in Seq(Order)
  <2>1. FitOrder \subseteq Order
    BY DEF FitOrder
  <2>2. QED
    BY <2>1, SeqMonotonic DEF Shape
<1>2. task \in Seq(Task)
  <2>1. FitTask \subseteq Task
    BY DEF FitTask
  <2>2. QED
    BY <2>1, SeqMonotonic DEF Shape
<1>3. reports \in Seq(Report)
  <2>1. FitReport(pushed) \subseteq Report
    BY DEF FitReport
  <2>2. QED
    BY <2>1, SeqMonotonic DEF Shape
<1>4. filing \in Seq(Seq(Item))
  <2>1. FitFiling \subseteq Seq(Item)
    BY DEF FitFiling
  <2>2. QED
    BY <2>1, SeqMonotonic DEF Shape
<1>5. QED
  BY <1>1, <1>2, <1>3, <1>4 DEF Shape, Plain, SandboxTypeOK

LEMMA ShapeInit == SandboxInit => Shape
<1> SUFFICES ASSUME SandboxInit PROVE Shape
  OBVIOUS
<1>1. <<>> \in Seq(FitOrder) /\ <<>> \in Seq(FitTask) /\ <<>> \in Seq(FitReport(pushed))
      /\ <<>> \in Seq(FitFiling)
  BY EmptySeq
<1>2. budget \in Nat
  BY SandboxScenesKnown DEF SandboxInit
<1>3. Plain
  BY <1>2, SandboxBounds DEF SandboxInit, Plain, Statuses, RowStatuses, PushByProxy
<1>4. QED
  BY <1>1, <1>3 DEF SandboxInit, Shape

-----------------------------------------------------------------------------
(* Reports.                                                                  *)

LEMMA ItemIs == \A r \in Runs, status \in RowStatuses : About(r, status) \in Item
BY DEF About, Item

LEMMA StatusFits ==
  ASSUME NEW r \in Runs, NEW status \in RowStatuses, NEW done
  PROVE  /\ Status(r, status) \in FitReport(done) /\ SubjectsOf(Status(r, status)) = {r}
         /\ [t |-> "exit", run |-> r, status |-> status] \in FitReport(done)
         /\ SubjectsOf([t |-> "exit", run |-> r, status |-> status]) = {r}
BY DEF Status, FitReport, Report, SubjectsOf

LEMMA ResultFits ==
  ASSUME NEW p \in Pushes, NEW ok \in BOOLEAN, NEW done, ok => p \in done
  PROVE  /\ Result(p, ok) \in FitReport(done) /\ SubjectsOf(Result(p, ok)) = {}
BY DEF Result, FitReport, Report, SubjectsOf

LEMMA InventoryFits ==
  ASSUME NEW items \in Seq(Item), OneEach(items), NEW absent \in SUBSET Runs,
         NEW deleted \in SUBSET Runs, absent \cap Subjects(items) = {},
         deleted \cap (absent \cup Subjects(items)) = {}, NEW done
  PROVE  /\ Inventory(items, absent, deleted) \in FitReport(done)
         /\ SubjectsOf(Inventory(items, absent, deleted)) = Subjects(items) \cup absent \cup deleted
BY DEF Inventory, FitReport, Report, SubjectsOf

LEMMA SubjectsAreRuns ==
  /\ \A f \in Seq(Item) : Subjects(f) \subseteq Runs
  /\ \A done : \A m \in FitReport(done) : SubjectsOf(m) \subseteq Runs
  /\ \A done : \A msgs \in Seq(FitReport(done)) : SubjectsOfAll(msgs) \subseteq Runs
<1>1. ASSUME NEW f \in Seq(Item) PROVE Subjects(f) \subseteq Runs
  <2>1. \A i \in DOMAIN f : f[i] \in Item
    BY <1>1, SeqIs
  <2>2. QED
    BY <2>1 DEF Subjects, ToSet, Item
<1>2. ASSUME NEW done, NEW m \in FitReport(done) PROVE SubjectsOf(m) \subseteq Runs
  BY <1>1 DEF FitReport, Report, SubjectsOf
<1>3. ASSUME NEW done, NEW msgs \in Seq(FitReport(done)) PROVE SubjectsOfAll(msgs) \subseteq Runs
  <2>1. \A i \in DOMAIN msgs : msgs[i] \in FitReport(done)
    BY <1>3, SeqIs
  <2>2. QED
    BY <1>2, <2>1 DEF SubjectsOfAll, ToSet
<1>4. QED
  BY <1>1, <1>2, <1>3

LEMMA ReportsGrow ==
  ASSUME NEW done, NEW more, done \subseteq more, NEW msgs \in Seq(FitReport(done))
  PROVE  msgs \in Seq(FitReport(more))
<1>1. FitReport(done) \subseteq FitReport(more)
  BY DEF FitReport
<1>2. QED
  BY <1>1, SeqMonotonic

LEMMA Sends ==
  ASSUME reports \in Seq(FitReport(pushed)), muddled \subseteq Runs, pushed \subseteq pushed',
         NEW msgs \in Seq(FitReport(pushed')), NEW items \in Seq(Item),
         \/ Send(msgs)
         \/ SendSeen(msgs, items)
  PROVE  reports' \in Seq(FitReport(pushed')) /\ muddled' \subseteq Runs
<1>1. reports \in Seq(FitReport(pushed')) /\ reports \o msgs \in Seq(FitReport(pushed'))
  BY ReportsGrow, ConcatProperties
<1>2. SubjectsOfAll(msgs) \subseteq Runs /\ Subjects(items) \subseteq Runs
  BY SubjectsAreRuns
<1>3. CASE Send(msgs)
  BY <1>1, <1>2, <1>3 DEF Send
<1>4. CASE SendSeen(msgs, items)
  BY <1>1, <1>2, <1>4 DEF SendSeen
<1>5. QED
  BY <1>3, <1>4

\* One item for each run of a set, in some order.
LEMMA RunItems ==
  ASSUME NEW X \in SUBSET Runs, NEW v \in [X -> RowStatuses], NEW S,
         S = {About(r, v[r]) : r \in X}
  PROVE  /\ SetToSeq(S) \in Seq(Item) /\ OneEach(SetToSeq(S)) /\ Subjects(SetToSeq(S)) = X
         /\ \A i \in DOMAIN SetToSeq(S) :
              SetToSeq(S)[i].run \in X /\ SetToSeq(S)[i].status = v[SetToSeq(S)[i].run]
<1> DEFINE f == [r \in X |-> About(r, v[r])]
           g == SetToSeq(S)
<1>1. IsFiniteSet(X)
  BY RunsAreFinite, FS_Subset
<1>2. f \in Surjection(X, S)
  BY DEF Surjection
<1>3. IsFiniteSet(S)
  BY <1>1, <1>2, FS_Surjection
<1>4. /\ g \in Seq(S)
      /\ \A i, j \in DOMAIN g : g[i] = g[j] => i = j
      /\ \A e \in S : \E i \in DOMAIN g : g[i] = e
  BY <1>3, SeqOfSet
<1>5. \A e \in S : e \in Item /\ e.run \in X /\ e.status = v[e.run] /\ e = About(e.run, v[e.run])
  BY DEF About, Item
<1>6. ASSUME NEW r \in X PROVE \E e \in S : e.run = r
  <2>1. About(r, v[r]) \in S /\ About(r, v[r]).run = r
    BY <1>6 DEF About
  <2>2. QED
    BY <2>1
<1>7. g \in Seq(Item)
  BY <1>4, <1>5, SeqMonotonic
<1>8. \A i \in DOMAIN g : g[i] \in S
  BY <1>4, SeqIs
<1> HIDE DEF g
<1>9. OneEach(g)
  BY <1>4, <1>5, <1>8 DEF OneEach
<1>10. Subjects(g) = X
  <2>1. ASSUME NEW r \in X PROVE \E i \in DOMAIN g : g[i].run = r
    <3>1. PICK e \in S : e.run = r
      BY <1>6, <2>1
    <3>2. PICK i \in DOMAIN g : g[i] = e
      BY <1>4
    <3>3. QED
      BY <3>1, <3>2
  <2>2. \A i \in DOMAIN g : g[i].run \in X
    BY <1>5, <1>8
  <2>3. X \subseteq Subjects(g)
    BY <2>1 DEF Subjects, ToSet
  <2>4. Subjects(g) \subseteq X
    BY <2>2 DEF Subjects, ToSet
  <2>5. QED
    BY <2>3, <2>4
<1>11. QED
  BY <1>5, <1>7, <1>8, <1>9, <1>10 DEF g

LEMMA Lists ==
  ASSUME instance \in [Runs -> [status : Statuses, workspace : BOOLEAN]]
  PROVE  Listing \in Seq(Item) /\ OneEach(Listing)
<1>1. Present \in SUBSET Runs
  BY DEF Present
<1>2. HostList \in Seq(Item) /\ OneEach(HostList)
  <2> DEFINE v == [r \in Present |-> "running"]
             S == {About(r, "running") : r \in Present}
  <2>1. v \in [Present -> RowStatuses]
    BY DEF RowStatuses, Statuses
  <2>2. S = {About(r, v[r]) : r \in Present}
    OBVIOUS
  <2> HIDE DEF v, S
  <2>3. SetToSeq(S) \in Seq(Item) /\ OneEach(SetToSeq(S))
    BY <1>1, <2>1, <2>2, RunItems
  <2>4. QED
    BY <2>3 DEF S, HostList
<1>3. ContainerList \in Seq(Item) /\ OneEach(ContainerList)
  <2> DEFINE v == [r \in Present |-> ContainerInspect(r)]
             S == {About(r, ContainerInspect(r)) : r \in Present}
  <2>1. v \in [Present -> RowStatuses]
    BY DEF RowStatuses, Present, ContainerInspect
  <2>2. S = {About(r, v[r]) : r \in Present}
    OBVIOUS
  <2> HIDE DEF v, S
  <2>3. SetToSeq(S) \in Seq(Item) /\ OneEach(SetToSeq(S))
    BY <1>1, <2>1, <2>2, RunItems
  <2>4. QED
    BY <2>3 DEF S, ContainerList
<1>4. QED
  BY <1>2, <1>3 DEF Listing

\* What is missing of a set of runs.
LEMMA MissingItems ==
  ASSUME NEW X \in SUBSET Runs, NEW S, S = {About(r, "missing") : r \in X}
  PROVE  /\ SetToSeq(S) \in Seq(Item) /\ OneEach(SetToSeq(S)) /\ Subjects(SetToSeq(S)) = X
         /\ \A i \in DOMAIN SetToSeq(S) : SetToSeq(S)[i].status = "missing"
<1> DEFINE v == [r \in X |-> "missing"]
<1>1. v \in [X -> RowStatuses]
  BY DEF RowStatuses, Statuses
<1>2. S = {About(r, v[r]) : r \in X} /\ \A r \in X : v[r] = "missing"
  OBVIOUS
<1> HIDE DEF v
<1>3. /\ SetToSeq(S) \in Seq(Item) /\ OneEach(SetToSeq(S)) /\ Subjects(SetToSeq(S)) = X
      /\ \A i \in DOMAIN SetToSeq(S) :
           SetToSeq(S)[i].run \in X /\ SetToSeq(S)[i].status = v[SetToSeq(S)[i].run]
  BY <1>1, <1>2, RunItems
<1>4. QED
  BY <1>2, <1>3

\* The items of an inventory, one after the other.
LEMMA ItemsOf ==
  ASSUME NEW done, NEW m \in FitReport(done), m.t = "inventory",
         NEW all, all = Instances(m) \o Absent(m) \o Deleted(m)
  PROVE  /\ all \in Seq(Item) /\ OneEach(all) /\ Subjects(all) = SubjectsOf(m)
         /\ \A i \in DOMAIN all : all[i].status = "running" => all[i] \in ToSet(m.instances)
<1> DEFINE a == Instances(m)
           b == Absent(m)
           c == Deleted(m)
<1>1. /\ a \in Seq(Item) /\ OneEach(a) /\ a = m.instances
      /\ m.absent \in SUBSET Runs /\ m.deleted \in SUBSET Runs
      /\ m.absent \cap Subjects(a) = {} /\ m.deleted \cap (m.absent \cup Subjects(a)) = {}
      /\ SubjectsOf(m) = Subjects(a) \cup m.absent \cup m.deleted
  BY DEF FitReport, Report, Instances, SubjectsOf
<1>2. /\ b \in Seq(Item) /\ OneEach(b) /\ Subjects(b) = m.absent
      /\ \A i \in DOMAIN b : b[i].status = "missing"
  BY <1>1, MissingItems DEF Absent
<1>3. /\ c \in Seq(Item) /\ OneEach(c) /\ Subjects(c) = m.deleted
      /\ \A i \in DOMAIN c : c[i].status = "missing"
  BY <1>1, MissingItems DEF Deleted
<1> HIDE DEF a, b, c
<1> DEFINE ab == a \o b
<1>4. /\ ab \in Seq(Item)
      /\ \A i \in DOMAIN ab : \/ i \in DOMAIN a /\ ab[i] = a[i]
                              \/ i - Len(a) \in DOMAIN b /\ ab[i] = b[i - Len(a)]
      /\ \A i \in DOMAIN a : i \in DOMAIN ab /\ ab[i] = a[i]
      /\ \A i \in DOMAIN b : Len(a) + i \in DOMAIN ab /\ ab[Len(a) + i] = b[i]
      /\ Len(a) \in Nat /\ DOMAIN a \subseteq Nat /\ DOMAIN ab \subseteq Nat /\ DOMAIN b \subseteq Nat
  <2>1. Len(a) \in Nat /\ DOMAIN a = 1 .. Len(a) /\ Len(b) \in Nat /\ DOMAIN b = 1 .. Len(b)
    BY <1>1, <1>2, SeqIs
  <2>2. /\ ab \in Seq(Item) /\ DOMAIN ab = 1 .. Len(a) + Len(b)
        /\ \A i \in DOMAIN a : ab[i] = a[i]
        /\ \A i \in DOMAIN b : ab[Len(a) + i] = b[i]
        /\ \A i \in DOMAIN ab : ab[i] = IF i <= Len(a) THEN a[i] ELSE b[i - Len(a)]
    BY <1>1, <1>2, Joined
  <2> HIDE DEF ab
  <2>3. QED
    BY <2>1, <2>2
<1>5. /\ all \in Seq(Item)
      /\ \A i \in DOMAIN all : \/ i \in DOMAIN ab /\ all[i] = ab[i]
                               \/ i - Len(ab) \in DOMAIN c /\ all[i] = c[i - Len(ab)]
      /\ \A i \in DOMAIN ab : i \in DOMAIN all /\ all[i] = ab[i]
      /\ \A i \in DOMAIN c : Len(ab) + i \in DOMAIN all /\ all[Len(ab) + i] = c[i]
      /\ Len(ab) \in Nat /\ DOMAIN all \subseteq Nat /\ DOMAIN c \subseteq Nat
  <2>0. all = ab \o c
    BY DEF a, b, c
  <2> HIDE DEF ab
  <2>1. Len(ab) \in Nat /\ DOMAIN ab = 1 .. Len(ab) /\ Len(c) \in Nat /\ DOMAIN c = 1 .. Len(c)
    BY <1>3, <1>4, SeqIs
  <2>2. /\ all \in Seq(Item) /\ DOMAIN all = 1 .. Len(ab) + Len(c)
        /\ \A i \in DOMAIN ab : all[i] = ab[i]
        /\ \A i \in DOMAIN c : all[Len(ab) + i] = c[i]
        /\ \A i \in DOMAIN all : all[i] = IF i <= Len(ab) THEN ab[i] ELSE c[i - Len(ab)]
    BY <1>3, <1>4, <2>0, Joined
  <2>3. QED
    BY <2>1, <2>2
<1> HIDE DEF ab
<1>6. /\ \A i \in DOMAIN a : a[i].run \in Subjects(a)
      /\ \A i \in DOMAIN b : b[i].run \in m.absent
      /\ \A i \in DOMAIN c : c[i].run \in m.deleted
  BY <1>2, <1>3 DEF Subjects, ToSet
<1>7. OneEach(ab) /\ Subjects(ab) = Subjects(a) \cup m.absent
      /\ \A i \in DOMAIN ab : /\ ab[i].run \in Subjects(a) \cup m.absent
                              /\ ab[i].status = "running" => ab[i] \in ToSet(a)
  <2>1. ASSUME NEW i \in DOMAIN ab
        PROVE  \/ i \in DOMAIN a /\ ab[i] = a[i] /\ ab[i].run \in Subjects(a) /\ ab[i] \in ToSet(a)
               \/ i - Len(a) \in DOMAIN b /\ ab[i] = b[i - Len(a)] /\ ab[i].run \in m.absent
                  /\ ab[i].status = "missing"
    BY <1>2, <1>4, <1>6, <2>1 DEF ToSet
  <2>2. OneEach(ab)
    <3> SUFFICES ASSUME NEW i \in DOMAIN ab, NEW j \in DOMAIN ab, ab[i].run = ab[j].run PROVE i = j
      BY DEF OneEach
    <3>1. i \in Nat /\ j \in Nat /\ Len(a) \in Nat
      BY <1>4
    <3>2. CASE i \in DOMAIN a /\ ab[i] = a[i] /\ ab[i].run \in Subjects(a)
      <4>1. j \in DOMAIN a /\ ab[j] = a[j]
        BY <1>1, <2>1, <3>2
      <4>2. QED
        BY <1>1, <3>2, <4>1 DEF OneEach
    <3>3. CASE i - Len(a) \in DOMAIN b /\ ab[i] = b[i - Len(a)] /\ ab[i].run \in m.absent
      <4>1. j - Len(a) \in DOMAIN b /\ ab[j] = b[j - Len(a)]
        BY <1>1, <2>1, <3>3
      <4>2. i - Len(a) = j - Len(a)
        BY <1>2, <3>3, <4>1 DEF OneEach
      <4>3. QED
        BY <3>1, <4>2
    <3>4. QED
      BY <2>1, <3>2, <3>3
  <2>3. Subjects(ab) \subseteq Subjects(a) \cup m.absent
    BY <2>1 DEF Subjects, ToSet
  <2>4. Subjects(a) \subseteq Subjects(ab)
    BY <1>4 DEF Subjects, ToSet
  <2>5. Subjects(b) \subseteq Subjects(ab)
    BY <1>4 DEF Subjects, ToSet
  <2>6. QED
    BY <1>2, <2>1, <2>2, <2>3, <2>4, <2>5
<1>8. OneEach(all) /\ Subjects(all) = Subjects(ab) \cup m.deleted
      /\ \A i \in DOMAIN all : all[i].status = "running" => all[i] \in ToSet(a)
  <2>1. ASSUME NEW i \in DOMAIN all
        PROVE  \/ /\ i \in DOMAIN ab /\ all[i] = ab[i] /\ all[i].run \in Subjects(a) \cup m.absent
                  /\ all[i].status = "running" => all[i] \in ToSet(a)
               \/ i - Len(ab) \in DOMAIN c /\ all[i] = c[i - Len(ab)] /\ all[i].run \in m.deleted
                  /\ all[i].status = "missing"
    BY <1>3, <1>5, <1>6, <1>7, <2>1
  <2>2. OneEach(all)
    <3> SUFFICES ASSUME NEW i \in DOMAIN all, NEW j \in DOMAIN all, all[i].run = all[j].run PROVE i = j
      BY DEF OneEach
    <3>1. i \in Nat /\ j \in Nat /\ Len(ab) \in Nat
      BY <1>5
    <3>2. CASE i \in DOMAIN ab /\ all[i] = ab[i] /\ all[i].run \in Subjects(a) \cup m.absent
      <4>1. j \in DOMAIN ab /\ all[j] = ab[j]
        BY <1>1, <2>1, <3>2
      <4>2. QED
        BY <1>7, <3>2, <4>1 DEF OneEach
    <3>3. CASE i - Len(ab) \in DOMAIN c /\ all[i] = c[i - Len(ab)] /\ all[i].run \in m.deleted
      <4>1. j - Len(ab) \in DOMAIN c /\ all[j] = c[j - Len(ab)]
        BY <1>1, <2>1, <3>3
      <4>2. i - Len(ab) = j - Len(ab)
        BY <1>3, <3>3, <4>1 DEF OneEach
      <4>3. QED
        BY <3>1, <4>2
    <3>4. QED
      BY <2>1, <3>2, <3>3
  <2>3. Subjects(all) \subseteq Subjects(a) \cup m.absent \cup m.deleted
    BY <2>1 DEF Subjects, ToSet
  <2>4. Subjects(ab) \subseteq Subjects(all)
    BY <1>5 DEF Subjects, ToSet
  <2>5. Subjects(c) \subseteq Subjects(all)
    <3>1. ASSUME NEW i \in DOMAIN c PROVE c[i].run \in Subjects(all)
      <4>1. Len(ab) + i \in DOMAIN all /\ all[Len(ab) + i] = c[i]
        BY <1>5, <3>1
      <4>2. QED
        BY <4>1 DEF Subjects, ToSet
    <3>2. QED
      BY <3>1 DEF Subjects, ToSet
  <2>6. QED
    BY <1>3, <1>7, <2>1, <2>2, <2>3, <2>4, <2>5
<1>9. QED
  BY <1>1, <1>5, <1>7, <1>8

-----------------------------------------------------------------------------
(* Tasks.                                                                    *)

Places == {"begun", "queued", "act", "remove", "look", "tell"}

LEMMA TaskIs ==
  ASSUME task \in Seq(FitTask), NEW i \in DOMAIN task
  PROVE  /\ task[i] \in FitTask /\ task[i] \in Task
         /\ task[i].run = NoRun <=> task[i].kind \in Proxywide
         /\ task[i].run \in Runs \cup {NoRun}
         /\ task[i].id \in Pushes \cup {NoPush}
         /\ task[i].seen \in Seq(Item)
         /\ task[i].own \in 0 .. MaxRuntimes
         /\ task[i].expected \in SUBSET Runs /\ task[i].gone \in SUBSET Runs
<1>1. task[i] \in FitTask
  BY SeqIs
<1>2. QED
  BY <1>1 DEF FitTask, Task

LEMMA NewFits ==
  ASSUME runtimeOf \in [Runs -> [n : 0 .. MaxRuntimes, expires : BOOLEAN]],
         NEW kind \in (Actions \cup {"keepalive"}) \ {"open"}, NEW r \in Runs \cup {NoRun},
         r = NoRun <=> kind \in Proxywide,
         NEW queue \in 0 .. MaxRuntimes + 1, NEW at \in Places \ {"tell"},
         NEW expected \in SUBSET Runs, NEW p \in Pushes \cup {NoPush}, kind = "git_push" => p \in Pushes
  PROVE  NewTask(kind, r, queue, at, expected, p) \in FitTask
<1>1. (IF r = NoRun THEN 0 ELSE runtimeOf[r].n) \in 0 .. MaxRuntimes
  BY SandboxBounds
<1>2. <<>> \in Seq(Item)
  BY EmptySeq
<1>3. QED
  BY <1>1, <1>2 DEF NewTask, FitTask, Task, Places

LEMMA Finished ==
  ASSUME task \in Seq(FitTask), NEW i \in DOMAIN task, Finish(i)
  PROVE  task' \in Seq(FitTask)
BY Removed1 DEF Finish

LEMMA Gone ==
  ASSUME task \in Seq(FitTask), NEW i \in DOMAIN task, NEW at \in Places \ {"tell"}, Goto(i, at)
  PROVE  task' \in Seq(FitTask)
<1> DEFINE t == [task[i] EXCEPT !.at = at]
<1>1. t \in FitTask
  BY TaskIs DEF FitTask, Task, Places
<1>2. task' = [task EXCEPT ![i] = t]
  BY DEF Goto
<1> HIDE DEF t
<1>3. QED
  BY <1>1, <1>2, Put

\* What was seen is to be told.
LEMMA Seen ==
  ASSUME task \in Seq(FitTask), NEW i \in DOMAIN task, NEW at \in {"tell", "act"},
         NEW items \in Seq(Item),
         task[i].kind \in {"open", "stop", "inspect", "ensure_running"} =>
           items # <<>> /\ items[1].run = task[i].run,
         task[i].kind \in {"remove", "report_inventory"} => OneEach(items),
         task' = [task EXCEPT ![i] = [task[i] EXCEPT !.at = at, !.seen = items]]
  PROVE  task' \in Seq(FitTask)
<1> DEFINE t == [task[i] EXCEPT !.at = at, !.seen = items]
<1>1. t \in FitTask
  BY TaskIs DEF FitTask, Task
<1> HIDE DEF t
<1>3. QED
  BY <1>1, Put DEF t

LEMMA OneSeen ==
  ASSUME task \in Seq(FitTask), NEW i \in DOMAIN task, NEW status \in RowStatuses,
         task[i].kind \in {"open", "stop", "inspect", "ensure_running"},
         task' = [task EXCEPT ![i] = [task[i] EXCEPT !.at = "tell",
                                                     !.seen = <<About(task[i].run, status)>>]]
  PROVE  task' \in Seq(FitTask)
<1>1. task[i].run \in Runs
  BY TaskIs DEF Proxywide
<1> DEFINE items == <<About(task[i].run, status)>>
<1>2. items \in Seq(Item) /\ items # <<>> /\ items[1].run = task[i].run
  BY <1>1 DEF About, Item
<1> HIDE DEF items
<1>3. task' = [task EXCEPT ![i] = [task[i] EXCEPT !.at = "tell", !.seen = items]]
  BY DEF items
<1>4. QED
  BY <1>2, <1>3, Seen

LEMMA Enqueued ==
  ASSUME task \in Seq(FitTask), NEW i \in DOMAIN task, task[i].kind = "open",
         runtimeOf \in [Runs -> [n : 0 .. MaxRuntimes, expires : BOOLEAN]],
         Enqueue(i)
  PROVE  task' \in Seq(FitTask)
<1> DEFINE t == [task[i] EXCEPT !.queue = runtimeOf[task[i].run].n, !.at = "queued", !.seen = <<>>]
           rest == RemoveAt(task, i)
<1>1. rest \in Seq(FitTask)
  BY Removed1
<1>2. t \in FitTask
  <2>1. task[i].run \in Runs
    BY TaskIs DEF Proxywide
  <2>2. runtimeOf[task[i].run].n \in 0 .. MaxRuntimes + 1
    BY <2>1, SandboxBounds
  <2>3. <<>> \in Seq(Item)
    BY EmptySeq
  <2>4. QED
    BY <2>2, <2>3, TaskIs DEF FitTask, Task
<1>3. task' = rest \/ task' = Append(rest, t)
  BY DEF Enqueue
<1> HIDE DEF t, rest
<1>4. QED
  BY <1>1, <1>2, <1>3, AppendProperties

-----------------------------------------------------------------------------
(* Every step keeps the shape of the state.                                  *)

\* Nothing plain changes but the budget and what is owed.
LEMMA Ordered ==
  ASSUME Shape, NEW action \in Actions, NEW r \in Runs \cup {NoRun}, NEW expected \in SUBSET Runs,
         NEW p \in Pushes \cup {NoPush}, r = NoRun <=> action \in Proxywide,
         action = "git_push" => p \in Pushes, ToProxy(action, r, expected, p)
  PROVE  orders' \in Seq(FitOrder)
<1>1. [action |-> action, run |-> r, expected |-> expected, id |-> p] \in FitOrder
  BY DEF FitOrder, Order
<1>2. QED
  BY <1>1, AppendProperties DEF ToProxy, Shape

LEMMA OrdersShape ==
  ASSUME Shape,
         \/ \E r \in Runs :
              \/ \E action \in {"inspect", "ensure_running", "stop", "remove", "remove_workspace"} :
                   OrderRun(action, r) \/ OrderInstance(action, r)
              \/ OrderOpen(r) \/ OrderClose(r)
              \/ \E p \in Pushes : RequestPush(p, r)
         \/ \E action \in {"report_inventory", "prune_orphans", "gc"} : OrderProxy(action)
  PROVE  Shape'
<1>1. ASSUME NEW r \in Runs,
             NEW action \in {"inspect", "ensure_running", "stop", "remove", "remove_workspace"},
             OrderRun(action, r) \/ OrderInstance(action, r)
      PROVE  Shape'
  <2>1. orders' \in Seq(FitOrder)
    BY <1>1, Ordered, RunsAreFinite DEF OrderRun, OrderInstance, Actions, Proxywide
  <2>2. QED
    BY <1>1, <2>1 DEF OrderRun, OrderInstance, Spend, Shape, Plain, PushByProxy, backendVars, proxyVars
<1>2. ASSUME NEW r \in Runs, OrderOpen(r) \/ OrderClose(r) PROVE Shape'
  <2>1. orders' \in Seq(FitOrder)
    BY <1>2, Ordered, RunsAreFinite DEF OrderOpen, OrderClose, Actions, Proxywide
  <2>2. QED
    BY <1>2, <2>1 DEF OrderOpen, OrderClose, Spend, Shape, Plain, PushByProxy, backendVars, proxyVars
<1>3. ASSUME NEW r \in Runs, NEW p \in Pushes, RequestPush(p, r) PROVE Shape'
  <2>1. orders' \in Seq(FitOrder)
    BY <1>3, Ordered, RunsAreFinite DEF RequestPush, Actions, Proxywide
  <2>2. push' \in [Pushes -> {"none", "waiting", "ok", "failed", "lost"}]
        /\ \A q \in Pushes : push'[q] = "ok" => push[q] = "ok"
    BY <1>3 DEF RequestPush, Shape, Plain
  <2>3. QED
    BY <1>3, <2>1, <2>2 DEF RequestPush, Spend, Shape, Plain, PushByProxy, proxyVars
<1>4. ASSUME NEW action \in {"report_inventory", "prune_orphans", "gc"}, OrderProxy(action)
      PROVE  Shape'
  <2>1. orders' \in Seq(FitOrder)
    <3>1. PICK expected \in SUBSET Known : ToProxy(action, NoRun, expected, NoPush)
      BY <1>4 DEF OrderProxy
    <3>2. expected \in SUBSET Runs
      BY DEF Known
    <3>3. QED
      BY <1>4, <3>1, <3>2, Ordered DEF Actions, Proxywide
  <2>2. QED
    BY <1>4, <2>1 DEF OrderProxy, Spend, Shape, Plain, PushByProxy, backendVars, proxyVars
<1>5. QED
  BY <1>1, <1>2, <1>3, <1>4

\* What the backend does when it is told, or cut off.
LEMMA HeadFits ==
  ASSUME Shape, reports # <<>>
  PROVE  /\ Head(reports) \in FitReport(pushed) /\ Tail(reports) \in Seq(FitReport(pushed))
         /\ Head(reports).t = "result" =>
              /\ Head(reports).id \in Pushes /\ Head(reports).ok \in BOOLEAN
              /\ Head(reports).ok => Head(reports).id \in pushed
         /\ Head(reports).t \in {"status", "exit"} =>
              Head(reports).run \in Runs /\ Head(reports).status \in RowStatuses
<1>1. Head(reports) \in FitReport(pushed) /\ Tail(reports) \in Seq(FitReport(pushed))
  BY HeadTailProperties DEF Shape
<1>2. QED
  BY <1>1 DEF FitReport, Report

LEMMA PushShape ==
  ASSUME Shape,
         ReceiveResult \/ ProxyDisconnected \/ \E p \in Pushes : RequestPushOffline(p) \/ TimesOut(p)
  PROVE  Shape'
<1>1. CASE ReceiveResult
  <2>1. reports' \in Seq(FitReport(pushed))
    BY <1>1, HeadFits DEF ReceiveResult
  <2>2. /\ push' \in [Pushes -> {"none", "waiting", "ok", "failed", "lost"}]
        /\ \A q \in Pushes : push'[q] = "ok" => q \in pushed
    BY <1>1, HeadFits DEF ReceiveResult, Settle, Shape, Plain, PushByProxy
  <2>3. QED
    BY <1>1, <2>1, <2>2 DEF ReceiveResult, Shape, Plain, PushByProxy, proxyVars
<1>2. CASE ProxyDisconnected
  <2>1. /\ push' \in [Pushes -> {"none", "waiting", "ok", "failed", "lost"}]
        /\ \A q \in Pushes : push'[q] = "ok" => push[q] = "ok"
    BY <1>2 DEF ProxyDisconnected, Shape, Plain
  <2>2. link' \in [up : BOOLEAN, closing : BOOLEAN]
    BY <1>2 DEF ProxyDisconnected, Shape, Plain
  <2>3. QED
    BY <1>2, <2>1, <2>2 DEF ProxyDisconnected, Shape, Plain, PushByProxy, proxyVars
<1>3. ASSUME NEW p \in Pushes, RequestPushOffline(p) PROVE Shape'
  <2>1. /\ push' \in [Pushes -> {"none", "waiting", "ok", "failed", "lost"}]
        /\ \A q \in Pushes : push'[q] = "ok" => push[q] = "ok"
    BY <1>3 DEF RequestPushOffline, Shape, Plain
  <2>2. link' \in [up : BOOLEAN, closing : BOOLEAN]
    BY <1>3 DEF RequestPushOffline, Shape, Plain
  <2>3. filing' \in Seq(FitFiling)
    BY <1>3, EmptySeq DEF RequestPushOffline
  <2>4. muddled' \subseteq Runs
    <3>1. ASSUME NEW f \in ToSet(filing) PROVE Subjects(f) \subseteq Runs
      <4>1. f \in FitFiling
        BY <3>1, SeqIs DEF ToSet, Shape
      <4>2. QED
        BY <4>1, SubjectsAreRuns DEF FitFiling
    <3>2. QED
      BY <1>3, <3>1 DEF RequestPushOffline, Shape, Plain
  <2>5. QED
    BY <1>3, <2>1, <2>2, <2>3, <2>4
    DEF RequestPushOffline, Spend, Shape, Plain, PushByProxy, proxyVars
<1>4. ASSUME NEW p \in Pushes, TimesOut(p) PROVE Shape'
  <2>1. /\ push' \in [Pushes -> {"none", "waiting", "ok", "failed", "lost"}]
        /\ \A q \in Pushes : push'[q] = "ok" => push[q] = "ok"
    BY <1>4 DEF TimesOut, Shape, Plain
  <2>2. QED
    BY <1>4, <2>1 DEF TimesOut, Shape, Plain, PushByProxy, proxyVars
<1>5. QED
  BY <1>1, <1>2, <1>3, <1>4

LEMMA WriteShape ==
  ASSUME Shape, NEW r \in Runs, NEW status \in RowStatuses, Write(About(r, status))
  PROVE  /\ row' \in [Runs -> [status : RowStatuses, known : BOOLEAN]]
         /\ \A q \in Runs : row'[q].status = IF q = r THEN status ELSE row[q].status
BY DEF Write, About, Shape, Plain

LEMMA OvertakesRuns ==
  ASSUME Shape, reports # <<>> PROVE Overtakes(Head(reports)) \subseteq Runs
BY HeadFits, SubjectsAreRuns DEF Overtakes

LEMMA FilingIs ==
  ASSUME Shape, NEW k \in DOMAIN filing
  PROVE  /\ filing[k] \in Seq(Item) /\ filing[k] # <<>> /\ OneEach(filing[k])
         /\ Head(filing[k]) \in Item /\ Head(filing[k]) = filing[k][1] /\ 1 \in DOMAIN filing[k]
         /\ Len(filing[k]) \in Nat \ {0} /\ DOMAIN filing[k] = 1 .. Len(filing[k])
<1>1. filing[k] \in FitFiling
  BY SeqIs DEF Shape
<1>2. filing[k] \in Seq(Item) /\ filing[k] # <<>> /\ OneEach(filing[k])
  BY <1>1 DEF FitFiling
<1>3. Len(filing[k]) \in Nat \ {0} /\ DOMAIN filing[k] = 1 .. Len(filing[k])
  BY <1>2, EmptySeq, LenProperties
<1>4. QED
  BY <1>2, <1>3, Beheaded

\* The tail of an inventory that has one.
LEMMA TailFits ==
  ASSUME NEW f \in FitFiling, Len(f) # 1
  PROVE  /\ Tail(f) \in FitFiling
         /\ DOMAIN Tail(f) = 1 .. Len(f) - 1
         /\ \A i \in DOMAIN Tail(f) : i + 1 \in DOMAIN f /\ Tail(f)[i] = f[i + 1]
<1>1. f \in Seq(Item) /\ f # <<>> /\ OneEach(f)
  BY DEF FitFiling
<1>2. Len(f) \in Nat \ {0} /\ DOMAIN f = 1 .. Len(f)
  BY <1>1, EmptySeq, LenProperties
<1>3. /\ Tail(f) \in Seq(Item)
      /\ DOMAIN Tail(f) = 1 .. Len(f) - 1
      /\ \A i \in DOMAIN Tail(f) : i + 1 \in DOMAIN f /\ Tail(f)[i] = f[i + 1]
  BY <1>1, Beheaded
<1>4. Tail(f) # <<>>
  <2>1. Tail(f) \in Seq(Item) /\ Len(Tail(f)) = Len(f) - 1
    BY <1>1, HeadTailProperties
  <2>2. Len(Tail(f)) # 0
    BY <1>2, <2>1
  <2> DEFINE g == Tail(f)
  <2>3. g \in Seq(Item) /\ Len(g) # 0
    BY <2>1, <2>2
  <2> HIDE DEF g
  <2>4. g # <<>>
    BY <2>3, EmptySeq
  <2>5. QED
    BY <2>4 DEF g
<1>5. OneEach(Tail(f))
  <2> SUFFICES ASSUME NEW i \in DOMAIN Tail(f), NEW j \in DOMAIN Tail(f),
                      Tail(f)[i].run = Tail(f)[j].run
               PROVE  i = j
    BY DEF OneEach
  <2>1. i + 1 = j + 1
    BY <1>1, <1>3 DEF OneEach
  <2>2. i \in Int /\ j \in Int
    BY <1>3
  <2>3. QED
    BY <2>1, <2>2
<1>6. QED
  BY <1>3, <1>4, <1>5 DEF FitFiling

LEMMA ReceiveShape ==
  ASSUME Shape,
         \/ ReceiveStatus \/ ReceiveExit \/ ReceiveInventory \/ Disconnect
         \/ \E k \in DOMAIN filing : FileItem(k)
  PROVE  Shape'
<1>1. CASE ReceiveStatus \/ ReceiveExit
  <2>1. PICK t \in {"status", "exit"} : ReceiveOfRun(t)
    BY <1>1 DEF ReceiveStatus, ReceiveExit
  <2>2. reports # <<>> /\ Head(reports).t = t
    BY <2>1 DEF ReceiveOfRun
  <2>3. row' \in [Runs -> [status : RowStatuses, known : BOOLEAN]]
    BY <2>1, <2>2, HeadFits, WriteShape DEF ReceiveOfRun
  <2>4. reports' \in Seq(FitReport(pushed)) /\ muddled' \subseteq Runs
    BY <2>1, <2>2, HeadFits, OvertakesRuns DEF ReceiveOfRun, Shape, Plain
  <2>5. UNCHANGED <<sandbox, link, orders, filing, push, proxyVars, budget>>
    BY <2>1 DEF ReceiveOfRun
  <2>6. QED
    BY <2>3, <2>4, <2>5 DEF Shape, Plain, PushByProxy, proxyVars
<1>2. CASE ReceiveInventory
  <2> DEFINE m == Head(reports)
             items == Instances(m) \o Absent(m) \o Deleted(m)
  <2>1. reports # <<>> /\ m.t = "inventory" /\ m \in FitReport(pushed)
    BY <1>2, HeadFits DEF ReceiveInventory
  <2>2. items \in Seq(Item) /\ OneEach(items)
    BY <2>1, ItemsOf
  <2>3. filing' = IF items = <<>> THEN filing ELSE Append(filing, items)
    BY <1>2 DEF ReceiveInventory
  <2>4. reports' = Tail(reports) /\ muddled' = muddled \cup Overtakes(m)
        /\ UNCHANGED <<sandbox, link, orders, row, push, proxyVars, budget>>
    BY <1>2 DEF ReceiveInventory
  <2> HIDE DEF items
  <2>5. filing' \in Seq(FitFiling)
    BY <2>2, <2>3, AppendProperties DEF Shape, FitFiling
  <2>6. reports' \in Seq(FitReport(pushed)) /\ muddled' \subseteq Runs
    BY <2>1, <2>4, HeadFits, OvertakesRuns DEF Shape, Plain
  <2>7. QED
    BY <2>4, <2>5, <2>6 DEF Shape, Plain, PushByProxy, proxyVars
<1>3. CASE Disconnect
  <2>1. orders' \in Seq(FitOrder) /\ reports' \in Seq(FitReport(pushed))
    BY <1>3, EmptySeq DEF Disconnect
  <2>2. muddled' \subseteq Runs
    BY <1>3, SubjectsAreRuns DEF Disconnect, Shape, Plain
  <2>3. QED
    BY <1>3, <2>1, <2>2 DEF Disconnect, Spend, Shape, Plain, PushByProxy, backendVars, proxyVars
<1>4. ASSUME NEW k \in DOMAIN filing, FileItem(k) PROVE Shape'
  <2> DEFINE f == filing[k]
             rest == RemoveAt(filing, k)
  <2>1. f \in FitFiling /\ Head(f) \in Item /\ rest \in Seq(FitFiling)
    BY <1>4, FilingIs, SeqIs, Removed1 DEF Shape
  <2>2. filing' = IF Len(f) = 1 THEN rest ELSE Append(rest, Tail(f))
    BY <1>4 DEF FileItem
  <2>3. Write(Head(f)) /\ UNCHANGED <<sandbox, link, orders, reports, muddled, push, proxyVars, budget>>
    BY <1>4 DEF FileItem
  <2> HIDE DEF f, rest
  <2>4. filing' \in Seq(FitFiling)
    BY <2>1, <2>2, TailFits, AppendProperties
  <2>5. row' \in [Runs -> [status : RowStatuses, known : BOOLEAN]]
    BY <2>1, <2>3 DEF Write, Item, Shape, Plain
  <2>6. QED
    BY <2>3, <2>4, <2>5 DEF Shape, Plain, PushByProxy, proxyVars
<1>5. QED
  BY <1>1, <1>2, <1>3, <1>4

LEMMA NewOfRun ==
  ASSUME Shape, NEW r \in Runs, NEW kind \in {"close", "keepalive"},
         NEW at \in {"begun", "remove"}
  PROVE  NewTask(kind, r, NoQueue, at, {}, NoPush) \in FitTask
<1>1. kind \in (Actions \cup {"keepalive"}) \ {"open"} /\ kind \notin Proxywide /\ kind # "git_push"
      /\ at \in Places \ {"tell"}
  BY DEF Actions, Proxywide, Places
<1>2. r \in Runs \cup {NoRun} /\ r # NoRun
  BY RunsAreFinite
<1>3. NoQueue \in 0 .. MaxRuntimes + 1
  BY SandboxBounds DEF NoQueue
<1>4. QED
  BY <1>1, <1>2, <1>3, NewFits DEF Shape, Plain

LEMMA OpenFits ==
  ASSUME Shape, NEW r \in Runs, NEW n \in 0 .. MaxRuntimes, n # 0
  PROVE  [NewTask("open", r, NoQueue, "begun", {}, NoPush) EXCEPT !.own = n] \in FitTask
<1> DEFINE t == [NewTask("open", r, NoQueue, "begun", {}, NoPush) EXCEPT !.own = n]
<1>1. "open" \in Actions /\ "open" \notin Proxywide
  BY DEF Actions, Proxywide
<1>2. r # NoRun
  BY RunsAreFinite
<1>3. NoQueue \in 0 .. MaxRuntimes + 1
  BY SandboxBounds DEF NoQueue
<1>4. <<>> \in Seq(Item)
  BY EmptySeq
<1> DEFINE own == IF r = NoRun THEN 0 ELSE runtimeOf[r].n
           u == [kind |-> "open", run |-> r, queue |-> NoQueue, own |-> own, at |-> "begun",
                 expected |-> {}, id |-> NoPush, seen |-> <<>>, gone |-> {}]
<1>5. own \in 0 .. MaxRuntimes
  BY <1>2 DEF Shape, Plain
<1>a. t = [u EXCEPT !.own = n]
  BY DEF NewTask
<1> HIDE DEF t, own
<1>b. u \in Task /\ u.kind = "open" /\ u.at = "begun" /\ u.run = r
  BY <1>1, <1>3, <1>4, <1>5 DEF Task
<1> HIDE DEF u
<1>6. t \in FitTask
  BY <1>1, <1>2, <1>a, <1>b DEF FitTask, Task
<1>7. QED
  BY <1>6 DEF t

LEMMA RuntimeFits ==
  ASSUME Shape, NEW r \in Runs, NEW n \in 0 .. MaxRuntimes, NEW e \in BOOLEAN
  PROVE  [runtimeOf EXCEPT ![r] = [n |-> n, expires |-> e]]
           \in [Runs -> [n : 0 .. MaxRuntimes, expires : BOOLEAN]]
<1> DEFINE v == [n |-> n, expires |-> e]
<1>1. v \in [n : 0 .. MaxRuntimes, expires : BOOLEAN]
  OBVIOUS
<1> HIDE DEF v
<1>2. [runtimeOf EXCEPT ![r] = v] \in [Runs -> [n : 0 .. MaxRuntimes, expires : BOOLEAN]]
  BY <1>1 DEF Shape, Plain
<1>3. QED
  BY <1>2 DEF v

LEMMA TakeShape == ASSUME Shape, TakeOrder PROVE Shape'
<1> DEFINE o == Head(orders)
<1>1. orders' \in Seq(FitOrder) /\ o \in FitOrder
  BY HeadTailProperties DEF TakeOrder, Shape
<1>2. /\ o.action \in Actions /\ o.run \in Runs \cup {NoRun} /\ o.expected \in SUBSET Runs
      /\ o.id \in Pushes \cup {NoPush}
      /\ o.run = NoRun <=> o.action \in Proxywide
      /\ o.action = "git_push" => o.id \in Pushes
  BY <1>1 DEF FitOrder, Order
<1>3. /\ UNCHANGED <<sandbox, link, reports, muddled, backendVars, instance, pushed, budget>>
      /\ \/ o.action = "open" /\ TakeOpen(o)
         \/ o.action = "close" /\ TakeClose(o)
         \/ o.action \notin {"open", "close"} /\ TakeControl(o)
  BY DEF TakeOrder
<1> HIDE DEF o
<1>4. CASE o.action = "open" /\ TakeOpen(o)
  <2>1. o.run \in Runs
    BY <1>2, <1>4 DEF Proxywide
  <2> DEFINE n == IF runtimeOf[o.run].n = 0 THEN made[o.run] + 1 ELSE runtimeOf[o.run].n
             t == [NewTask("open", o.run, NoQueue, "begun", {}, NoPush) EXCEPT !.own = n]
  <2>2. n \in 0 .. MaxRuntimes
    BY <1>4, <2>1, SandboxBounds DEF TakeOpen, Shape, Plain
  <2>3. /\ made' \in [Runs -> 0 .. MaxRuntimes]
        /\ runtimeOf' \in [Runs -> [n : 0 .. MaxRuntimes, expires : BOOLEAN]]
        /\ holds' = holds
    <3>1. made' = made \/ made' = [made EXCEPT ![o.run] = n]
      BY <1>4 DEF TakeOpen
    <3>2. runtimeOf' = [runtimeOf EXCEPT ![o.run] = [n |-> n, expires |-> FALSE]] /\ holds' = holds
      BY <1>4 DEF TakeOpen
    <3> HIDE DEF n
    <3>3. runtimeOf' \in [Runs -> [n : 0 .. MaxRuntimes, expires : BOOLEAN]]
      BY <2>1, <2>2, <3>2, RuntimeFits
    <3>4. made' \in [Runs -> 0 .. MaxRuntimes]
      BY <2>1, <2>2, <3>1 DEF Shape, Plain
    <3>5. QED
      BY <3>2, <3>3, <3>4
  <2>5. task' = Append(task, t)
    BY <1>4 DEF TakeOpen
  <2>6. t \in FitTask
    <3>1. n # 0
      BY <2>1 DEF Shape, Plain
    <3> HIDE DEF n
    <3>2. QED
      BY <2>1, <2>2, <3>1, OpenFits
  <2> HIDE DEF t, n
  <2>7. task' \in Seq(FitTask)
    BY <2>5, <2>6, AppendProperties DEF Shape
  <2>8. QED
    BY <1>1, <1>3, <2>3, <2>7 DEF Shape, Plain, PushByProxy, backendVars
<1>5. CASE o.action = "close" /\ TakeClose(o)
  <2>1. o.run \in Runs
    BY <1>2, <1>5 DEF Proxywide
  <2>2. NewTask("close", o.run, NoQueue, "begun", {}, NoPush) \in FitTask
    BY <2>1, NewOfRun
  <2>3. task' \in Seq(FitTask)
    BY <1>5, <2>2, AppendProperties DEF TakeClose, Shape
  <2>4. holds' \in [Runs -> SUBSET (1 .. MaxRuntimes)] /\ UNCHANGED <<runtimeOf, made>>
    BY <1>5, <2>1 DEF TakeClose, CloseAgentOf, Shape, Plain
  <2>5. QED
    BY <1>1, <1>3, <2>3, <2>4 DEF Shape, Plain, PushByProxy, backendVars
<1>6. CASE o.action \notin {"open", "close"} /\ TakeControl(o)
  <2> DEFINE queue == IF o.run = NoRun THEN NoQueue ELSE runtimeOf[o.run].n
             at == IF o.run = NoRun THEN "look" ELSE "queued"
  <2>1. task' = Append(task, NewTask(o.action, o.run, queue, at, o.expected, o.id))
        /\ UNCHANGED <<runtimeOf, made, holds>>
    BY <1>6 DEF TakeControl
  <2>2. queue \in 0 .. MaxRuntimes + 1 /\ at \in Places \ {"tell"}
    BY <1>2, SandboxBounds DEF NoQueue, Places, Shape, Plain
  <2> HIDE DEF queue, at
  <2>a. o.action \in (Actions \cup {"keepalive"}) \ {"open"}
    BY <1>2, <1>6
  <2>3. NewTask(o.action, o.run, queue, at, o.expected, o.id) \in FitTask
    BY <1>2, <2>2, <2>a, NewFits DEF Shape, Plain
  <2>4. task' \in Seq(FitTask)
    BY <2>1, <2>3, AppendProperties DEF Shape
  <2>5. QED
    BY <1>1, <1>3, <2>1, <2>4 DEF Shape, Plain, PushByProxy, backendVars
<1>7. QED
  BY <1>3, <1>4, <1>5, <1>6

\* The place of a task that has its turn.
LEMMA TurnIs ==
  ASSUME Shape, NEW i, NEW kind, NEW at, Turn(i, kind, at)
  PROVE  /\ i \in DOMAIN task /\ task[i].kind = kind /\ task[i].at = at
         /\ task[i] \in FitTask
         /\ kind \notin Proxywide => task[i].run \in Runs
BY TaskIs DEF Turn, Shape

\* The runtime of an opening is one.
LEMMA OwnFits ==
  ASSUME Shape, NEW i, NEW at, Turn(i, "open", at)
  PROVE  Owner(i) \in 1 .. MaxRuntimes
<1>1. task[i] \in FitTask /\ task[i].kind = "open"
  BY TurnIs
<1>2. task[i].own \in 0 .. MaxRuntimes /\ task[i].own # 0
  BY <1>1 DEF FitTask, Task
<1>3. QED
  BY <1>2, SandboxBounds DEF Owner

LEMMA InstanceFits ==
  ASSUME Shape, NEW r \in Runs, NEW status \in Statuses, NEW w \in BOOLEAN,
         \/ instance' = [instance EXCEPT ![r].status = status]
         \/ instance' = [instance EXCEPT ![r] = [status |-> status, workspace |-> w]]
         \/ instance' = [instance EXCEPT ![r].workspace = w]
         \/ UNCHANGED instance
  PROVE  /\ instance' \in [Runs -> [status : Statuses, workspace : BOOLEAN]]
         /\ \A q \in Runs \ {r} : instance'[q] = instance[q]
<1>1. instance \in [Runs -> [status : Statuses, workspace : BOOLEAN]]
  BY DEF Shape, Plain
<1> DEFINE e == [status |-> status, workspace |-> w]
<1>2. e \in [status : Statuses, workspace : BOOLEAN]
  OBVIOUS
<1>3. \/ instance' = [instance EXCEPT ![r].status = status]
      \/ instance' = [instance EXCEPT ![r] = e]
      \/ instance' = [instance EXCEPT ![r].workspace = w]
      \/ instance' = instance
  OBVIOUS
<1> HIDE DEF e
<1>4. CASE instance' = [instance EXCEPT ![r].status = status]
  BY <1>1, <1>4
<1>5. CASE instance' = [instance EXCEPT ![r] = e]
  BY <1>1, <1>2, <1>5
<1>6. CASE instance' = [instance EXCEPT ![r].workspace = w]
  BY <1>1, <1>6
<1>7. CASE instance' = instance
  BY <1>1, <1>7
<1>8. QED
  BY <1>3, <1>4, <1>5, <1>6, <1>7

LEMMA RemoveFits ==
  ASSUME Shape, NEW r \in Runs, RemoveOf(r)
  PROVE  /\ instance' \in [Runs -> [status : Statuses, workspace : BOOLEAN]]
         /\ \A q \in Runs \ {r} : instance'[q] = instance[q]
<1>1. "missing" \in Statuses /\ (OnHost /\ instance[r].workspace) \in BOOLEAN
  BY DEF Statuses, OnHost, Shape, Plain
<1>2. \/ instance' = [instance EXCEPT ![r].status = "missing"]
      \/ instance' = [instance EXCEPT
           ![r] = [status |-> "missing", workspace |-> OnHost /\ instance[r].workspace]]
  BY DEF RemoveOf, HostRemove, ContainerRemove, SetInstance
<1>3. QED
  BY <1>1, <1>2, InstanceFits

\* Steps of the proxy that say nothing.
LEMMA SilentShape ==
  ASSUME Shape, task' \in Seq(FitTask),
         instance' \in [Runs -> [status : Statuses, workspace : BOOLEAN]],
         holds' \in [Runs -> SUBSET (1 .. MaxRuntimes)],
         runtimeOf' \in [Runs -> [n : 0 .. MaxRuntimes, expires : BOOLEAN]],
         UNCHANGED <<sandbox, link, orders, backendVars, made, pushed, reports, muddled, budget>>
  PROVE  Shape'
BY DEF Shape, Plain, PushByProxy, backendVars

\* And steps that may say something.
LEMMA SendShape ==
  ASSUME Shape, task' \in Seq(FitTask),
         instance' \in [Runs -> [status : Statuses, workspace : BOOLEAN]],
         holds' \in [Runs -> SUBSET (1 .. MaxRuntimes)],
         runtimeOf' \in [Runs -> [n : 0 .. MaxRuntimes, expires : BOOLEAN]],
         pushed \subseteq pushed', pushed' \subseteq Pushes,
         UNCHANGED <<sandbox, link, orders, backendVars, made, budget>>,
         \/ Unsaid
         \/ \E msgs \in Seq(FitReport(pushed')) :
              Send(msgs) \/ \E items \in Seq(Item) : SendSeen(msgs, items)
  PROVE  Shape'
<1>1. reports' \in Seq(FitReport(pushed')) /\ muddled' \subseteq Runs
  <2>1. CASE Unsaid
    BY <2>1, ReportsGrow DEF Unsaid, Shape, Plain
  <2>2. ASSUME NEW msgs \in Seq(FitReport(pushed')), Send(msgs)
        PROVE  reports' \in Seq(FitReport(pushed')) /\ muddled' \subseteq Runs
    BY <2>2, Sends, EmptySeq DEF Shape, Plain
  <2>3. ASSUME NEW msgs \in Seq(FitReport(pushed')), NEW items \in Seq(Item), SendSeen(msgs, items)
        PROVE  reports' \in Seq(FitReport(pushed')) /\ muddled' \subseteq Runs
    BY <2>3, Sends DEF Shape, Plain
  <2>4. QED
    BY <2>1, <2>2, <2>3
<1>2. QED
  BY <1>1 DEF Shape, Plain, PushByProxy, backendVars

LEMMA CloseFits ==
  ASSUME Shape, NEW r \in Runs, CloseAgentOf(r)
  PROVE  holds' \in [Runs -> SUBSET (1 .. MaxRuntimes)]
BY DEF CloseAgentOf, Shape, Plain

LEMMA NewInventory ==
  ASSUME Shape PROVE NewTask("report_inventory", NoRun, NoQueue, "look", {}, NoPush) \in FitTask
<1>1. "report_inventory" \in (Actions \cup {"keepalive"}) \ {"open"} /\ "report_inventory" \in Proxywide
      /\ "look" \in Places \ {"tell"}
  BY DEF Actions, Proxywide, Places
<1>2. NoQueue \in 0 .. MaxRuntimes + 1
  BY SandboxBounds DEF NoQueue
<1>3. QED
  BY <1>1, <1>2, NewFits DEF Shape, Plain

\* An orphan is struck from the list, removed or not.
LEMMA Struck ==
  ASSUME Shape, NEW i \in DOMAIN task, task[i].kind = "prune_orphans", task[i].at = "act",
         NEW k \in DOMAIN task[i].seen, NEW gone \in SUBSET Runs,
         task' = [task EXCEPT ![i] = [task[i] EXCEPT !.seen = RemoveAt(task[i].seen, k),
                                                     !.gone = gone]]
  PROVE  task' \in Seq(FitTask)
<1>1. task[i] \in FitTask /\ task[i].seen \in Seq(Item)
  BY TaskIs DEF Shape
<1> DEFINE s == RemoveAt(task[i].seen, k)
           t == [task[i] EXCEPT !.seen = s, !.gone = gone]
<1>2. s \in Seq(Item)
  BY <1>1, Removed1
<1> HIDE DEF s
<1>3. t \in FitTask
  BY <1>1, <1>2 DEF FitTask, Task
<1>4. task' = [task EXCEPT ![i] = t]
  BY DEF s
<1> HIDE DEF t
<1>5. QED
  BY <1>3, <1>4, Put DEF Shape

LEMMA QuietShape ==
  ASSUME Shape, NEW i \in DOMAIN task,
         \/ Expire(i) \/ EnsureContainer(i) \/ Look(i) \/ StopOrRemove(i) \/ DeleteRuntime(i)
         \/ List(i) \/ PlanGc(i) \/ RemoveWorkspace(i)
  PROVE  Shape'
<1>0. /\ runtimeOf \in [Runs -> [n : 0 .. MaxRuntimes, expires : BOOLEAN]]
      /\ holds \in [Runs -> SUBSET (1 .. MaxRuntimes)]
      /\ instance \in [Runs -> [status : Statuses, workspace : BOOLEAN]]
      /\ task \in Seq(FitTask)
  BY DEF Shape, Plain
<1>1. CASE Expire(i)
  <2>1. task[i].run \in Runs
    BY <1>1, TurnIs DEF Expire, Proxywide
  <2>2. task' \in Seq(FitTask)
    BY <1>0, <1>1, Finished DEF Expire
  <2>3. runtimeOf' \in [Runs -> [n : 0 .. MaxRuntimes, expires : BOOLEAN]]
    BY <1>0, <1>1, <2>1 DEF Expire
  <2>4. QED
    BY <1>0, <1>1, <2>2, <2>3, SilentShape DEF Expire
<1>2. CASE EnsureContainer(i) \/ Look(i)
  <2>1. /\ task[i].run \in Runs /\ task[i].kind \in {"open", "stop"}
        /\ UNCHANGED <<sandbox, link, orders, reports, muddled, backendVars, runtimeOf, made, holds,
                       instance, pushed, budget>>
        /\ task' = [task EXCEPT ![i].at = "tell",
                          ![i].seen = <<About(task[i].run, ContainerInspect(task[i].run))>>]
    BY <1>2, TurnIs DEF EnsureContainer, Look, Proxywide
  <2>2. ContainerInspect(task[i].run) \in RowStatuses
    BY <1>0, <2>1 DEF ContainerInspect, RowStatuses
  <2>3. task' \in Seq(FitTask)
    BY <1>0, <2>1, <2>2, OneSeen
  <2>4. QED
    BY <1>0, <2>1, <2>3, SilentShape
<1>3. CASE StopOrRemove(i)
  <2>1. task[i].run \in Runs
    BY <1>3, TurnIs DEF StopOrRemove, Proxywide
  <2>2. task' \in Seq(FitTask)
    BY <1>0, <1>3, Gone DEF StopOrRemove, Places
  <2>3. QED
    BY <1>0, <1>3, <2>1, <2>2, CloseFits, SilentShape DEF StopOrRemove
<1>4. CASE DeleteRuntime(i)
  <2>1. task[i].run \in Runs
    BY <1>4, TurnIs DEF DeleteRuntime, Proxywide
  <2>2. task' \in Seq(FitTask)
    BY <1>0, <1>4, Gone DEF DeleteRuntime, Places
  <2>3. runtimeOf' \in [Runs -> [n : 0 .. MaxRuntimes, expires : BOOLEAN]]
    <3>1. runtimeOf' = [runtimeOf EXCEPT ![task[i].run] = [n |-> 0, expires |-> FALSE]]
      BY <1>4 DEF DeleteRuntime
    <3>2. 0 \in 0 .. MaxRuntimes
      BY SandboxBounds
    <3>3. QED
      BY <2>1, <3>1, <3>2, RuntimeFits
  <2>4. QED
    BY <1>0, <1>4, <2>2, <2>3, SilentShape DEF DeleteRuntime
<1>5. CASE List(i)
  <2>1. Listing \in Seq(Item) /\ OneEach(Listing)
    BY <1>0, Lists
  <2> DEFINE at == IF task[i].kind = "prune_orphans" THEN "act" ELSE "tell"
  <2>2. task[i].kind \in {"remove", "report_inventory", "prune_orphans"}
    BY <1>5, TurnIs DEF List
  <2>3. task' = [task EXCEPT ![i] = [task[i] EXCEPT !.at = at, !.seen = Listing]]
    BY <1>5 DEF List
  <2>4. at \in {"tell", "act"}
    OBVIOUS
  <2> HIDE DEF at
  <2>5. task' \in Seq(FitTask)
    BY <1>0, <2>1, <2>2, <2>3, <2>4, Seen
  <2>6. QED
    BY <1>0, <1>5, <2>5, SilentShape DEF List
<1>6. CASE PlanGc(i)
  <2>1. task' \in Seq(FitTask)
    BY <1>0, <1>6, Finished DEF PlanGc
  <2>2. QED
    BY <1>0, <1>6, <2>1, SilentShape DEF PlanGc
<1>7. CASE RemoveWorkspace(i)
  <2>1. task[i].run \in Runs
    BY <1>7, TurnIs DEF RemoveWorkspace, Proxywide
  <2>2. task' \in Seq(FitTask)
    BY <1>0, <1>7, Finished DEF RemoveWorkspace
  <2>3. instance' \in [Runs -> [status : Statuses, workspace : BOOLEAN]]
    BY <1>7, <2>1, InstanceFits DEF RemoveWorkspace, Statuses
  <2>4. QED
    BY <1>0, <1>7, <2>2, <2>3, SilentShape DEF RemoveWorkspace
<1>8. QED
  BY <1>1, <1>2, <1>3, <1>4, <1>5, <1>6, <1>7

\* What removes an instance.
LEMMA RemovalShape ==
  ASSUME Shape, NEW i \in DOMAIN task, RemoveInstance(i) \/ PruneOne(i)
  PROVE  Shape'
<1>0. /\ runtimeOf \in [Runs -> [n : 0 .. MaxRuntimes, expires : BOOLEAN]]
      /\ holds \in [Runs -> SUBSET (1 .. MaxRuntimes)]
      /\ instance \in [Runs -> [status : Statuses, workspace : BOOLEAN]]
      /\ task \in Seq(FitTask)
  BY DEF Shape, Plain
<1>1. CASE RemoveInstance(i)
  <2>1. PICK kind \in {"remove", "keepalive"} :
          Turn(i, kind, "remove") /\ Goto(i, IF kind = "remove" THEN "look" ELSE "tell")
    BY <1>1 DEF RemoveInstance
  <2>2. task[i].kind = kind /\ task[i].run \in Runs
    BY <2>1, TurnIs DEF Proxywide
  <2>3. task' \in Seq(FitTask)
    <3>1. CASE kind = "remove"
      BY <1>0, <2>1, <3>1, Gone DEF Places
    <3>2. CASE kind = "keepalive"
      <4> DEFINE t == [task[i] EXCEPT !.at = "tell"]
      <4>1. t \in FitTask
        <5>1. task[i] \in FitTask /\ task[i].kind = "keepalive"
          BY <1>0, <2>2, <3>2, TaskIs
        <5>2. QED
          BY <5>1 DEF FitTask, Task
      <4>2. task' = [task EXCEPT ![i] = t]
        BY <2>1, <3>2 DEF Goto
      <4> HIDE DEF t
      <4>3. QED
        BY <1>0, <4>1, <4>2, Put
    <3>3. QED
      BY <2>1, <3>1, <3>2
  <2>4. instance' \in [Runs -> [status : Statuses, workspace : BOOLEAN]]
    BY <1>0, <1>1, <2>2, RemoveFits DEF RemoveInstance
  <2>5. QED
    BY <1>0, <1>1, <2>3, <2>4, SilentShape DEF RemoveInstance
<1>2. CASE PruneOne(i)
  <2>1. task[i].kind = "prune_orphans" /\ task[i].at = "act"
    BY <1>2, TurnIs DEF PruneOne
  <2>2. PICK k \in DOMAIN task[i].seen :
          \/ /\ RemoveOf(task[i].seen[k].run)
             /\ task' = [task EXCEPT ![i].seen = RemoveAt(@, k),
                                     ![i].gone = @ \cup {task[i].seen[k].run}]
          \/ UNCHANGED instance /\ task' = [task EXCEPT ![i].seen = RemoveAt(@, k)]
    BY <1>2 DEF PruneOne
  <2>3. task[i].seen[k].run \in Runs /\ task[i].gone \in SUBSET Runs
    <3>1. task[i].seen[k] \in Item
      BY <1>0, TaskIs, SeqIs
    <3>2. QED
      BY <1>0, <3>1, TaskIs DEF Item
  <2>4. instance' \in [Runs -> [status : Statuses, workspace : BOOLEAN]]
    BY <1>0, <2>2, <2>3, RemoveFits
  <2>5. PICK gone \in SUBSET Runs :
          task' = [task EXCEPT ![i] = [task[i] EXCEPT !.seen = RemoveAt(task[i].seen, k),
                                                      !.gone = gone]]
    <3> DEFINE s == RemoveAt(task[i].seen, k)
    <3>0. \/ task' = [task EXCEPT ![i].seen = s, ![i].gone = @ \cup {task[i].seen[k].run}]
          \/ task' = [task EXCEPT ![i].seen = s]
      BY <2>2
    <3> HIDE DEF s
    <3>1. CASE task' = [task EXCEPT ![i].seen = s, ![i].gone = @ \cup {task[i].seen[k].run}]
      <4>1. task[i].gone \cup {task[i].seen[k].run} \in SUBSET Runs
        BY <2>3
      <4>2. task' = [task EXCEPT ![i] = [task[i] EXCEPT !.seen = s,
                       !.gone = task[i].gone \cup {task[i].seen[k].run}]]
        BY <1>0, <3>1
      <4>3. QED
        BY <4>1, <4>2 DEF s
    <3>2. CASE task' = [task EXCEPT ![i].seen = s]
      <4>1. task[i] \in Task
        BY <1>0, TaskIs
      <4>2. [task[i] EXCEPT !.seen = s, !.gone = task[i].gone] = [task[i] EXCEPT !.seen = s]
        BY <4>1 DEF Task
      <4>3. task' = [task EXCEPT ![i] = [task[i] EXCEPT !.seen = s, !.gone = task[i].gone]]
        BY <1>0, <3>2, <4>2
      <4>4. QED
        BY <2>3, <4>3 DEF s
    <3>3. QED
      BY <3>0, <3>1, <3>2
  <2>6. task' \in Seq(FitTask)
    BY <2>1, <2>5, Struck
  <2>7. QED
    BY <1>0, <1>2, <2>4, <2>6, SilentShape DEF PruneOne
<1>3. QED
  BY <1>1, <1>2

\* Something is said of one run.
LEMMA OneSaid ==
  ASSUME NEW r \in Runs, NEW status \in RowStatuses, NEW done
  PROVE  <<Status(r, status)>> \in Seq(FitReport(done))
         /\ <<[t |-> "exit", run |-> r, status |-> status]>> \in Seq(FitReport(done))
<1>1. Status(r, status) \in FitReport(done)
      /\ [t |-> "exit", run |-> r, status |-> status] \in FitReport(done)
  BY StatusFits
<1> DEFINE a == Status(r, status)
           b == [t |-> "exit", run |-> r, status |-> status]
<1> HIDE DEF a, b
<1>2. a \in FitReport(done) /\ b \in FitReport(done)
  BY <1>1 DEF a, b
<1>3. <<a>> \in Seq(FitReport(done)) /\ <<b>> \in Seq(FitReport(done))
  BY <1>2
<1>4. QED
  BY <1>3 DEF a, b

LEMMA OpensShape ==
  ASSUME Shape, NEW i \in DOMAIN task,
         \/ EnsureNative(i) \/ TellEnsured(i) \/ StartAgent(i) \/ TellStatus(i)
         \/ Inspect(i) \/ EnsureRunning(i) \/ Stop(i)
  PROVE  Shape'
<1>0. /\ runtimeOf \in [Runs -> [n : 0 .. MaxRuntimes, expires : BOOLEAN]]
      /\ holds \in [Runs -> SUBSET (1 .. MaxRuntimes)]
      /\ instance \in [Runs -> [status : Statuses, workspace : BOOLEAN]]
      /\ task \in Seq(FitTask)
      /\ pushed \subseteq Pushes
  BY DEF Shape, Plain
<1> DEFINE r == task[i].run
<1>1. r \in Runs
  BY TurnIs DEF EnsureNative, TellEnsured, StartAgent, TellStatus, Inspect, EnsureRunning, Stop,
                Proxywide
<1>2. HostInspect(r) \in RowStatuses /\ ContainerInspect(r) \in RowStatuses
      /\ "running" \in RowStatuses /\ "creating" \in RowStatuses /\ "running" \in Statuses
      /\ "stopped" \in Statuses
  BY <1>0, <1>1 DEF HostInspect, ContainerInspect, RowStatuses, Statuses
<1>3. CASE EnsureNative(i)
  <2>1. task' \in Seq(FitTask)
    BY <1>0, <1>3, Enqueued, TurnIs DEF EnsureNative
  <2>2. instance' \in [Runs -> [status : Statuses, workspace : BOOLEAN]]
    BY <1>1, <1>2, <1>3, InstanceFits DEF EnsureNative, HostEnsure, SetInstance
  <2>3. <<Status(r, "running")>> \in Seq(FitReport(pushed'))
    BY <1>1, <1>2, OneSaid
  <2>4. QED
    BY <1>0, <1>3, <2>1, <2>2, <2>3, SendShape DEF EnsureNative
<1>4. CASE TellEnsured(i) \/ TellStatus(i)
  <2>1. /\ task[i].at = "tell" /\ task[i].kind \in {"open", "stop", "inspect", "ensure_running"}
        /\ (task[i].kind = "open" /\ Enqueue(i)) \/ Finish(i)
        /\ SendSeen(<<Status(r, task[i].seen[1].status)>>, task[i].seen)
        /\ UNCHANGED <<sandbox, link, orders, backendVars, runtimeOf, made, holds, instance, pushed,
                       budget>>
    BY <1>4, TurnIs DEF TellEnsured, TellStatus
  <2>2. task' \in Seq(FitTask)
    BY <1>0, <2>1, Enqueued, Finished
  <2>3. task[i].seen \in Seq(Item) /\ task[i].seen # <<>>
    BY <1>0, <2>1, TaskIs DEF FitTask
  <2>4. task[i].seen[1] \in Item
    BY <2>3, Beheaded
  <2>5. <<Status(r, task[i].seen[1].status)>> \in Seq(FitReport(pushed'))
    BY <1>1, <2>4, OneSaid DEF Item
  <2>6. QED
    BY <1>0, <2>1, <2>2, <2>3, <2>5, SendShape
<1>5. CASE StartAgent(i)
  <2>1. task' \in Seq(FitTask)
    BY <1>0, <1>5, Gone, Finished DEF StartAgent, Places
  <2>2. instance' \in [Runs -> [status : Statuses, workspace : BOOLEAN]]
    BY <1>1, <1>2, <1>5, InstanceFits DEF StartAgent, HostOpen, ContainerOpen
  <2>3. holds' \in [Runs -> SUBSET (1 .. MaxRuntimes)]
    <3>1. CASE holds' = holds
      BY <1>0, <3>1
    <3>2. CASE holds' = [holds EXCEPT ![r] = @ \cup {Owner(i)}] /\ Turn(i, "open", "queued")
      BY <1>0, <1>5, <3>2, OwnFits
    <3>3. QED
      BY <1>5, <3>1, <3>2 DEF StartAgent
  <2>4. <<Status(r, "running")>> \in Seq(FitReport(pushed'))
        /\ <<Status(r, "creating")>> \in Seq(FitReport(pushed'))
    BY <1>1, <1>2, OneSaid
  <2>5. Unsaid \/ Send(<<Status(r, "running")>>) \/ Send(<<Status(r, "creating")>>)
    BY <1>5 DEF StartAgent
  <2>6. UNCHANGED <<sandbox, link, orders, backendVars, runtimeOf, made, pushed, budget>>
    BY <1>5 DEF StartAgent
  <2>7. QED
    BY <1>0, <2>1, <2>2, <2>3, <2>4, <2>5, <2>6, SendShape
<1>6. CASE Inspect(i)
  <2>1. task[i].kind = "inspect" /\ <<Status(r, HostInspect(r))>> \in Seq(FitReport(pushed'))
    BY <1>1, <1>2, <1>6, TurnIs, OneSaid DEF Inspect
  <2>2. \/ Finish(i) /\ Send(<<Status(r, HostInspect(r))>>)
        \/ task' = [task EXCEPT ![i].at = "tell", ![i].seen = <<About(r, ContainerInspect(r))>>]
           /\ Unsaid
    BY <1>6 DEF Inspect
  <2>3. task' \in Seq(FitTask)
    BY <1>0, <1>2, <2>1, <2>2, Finished, OneSeen
  <2>4. UNCHANGED <<sandbox, link, orders, backendVars, runtimeOf, made, holds, instance, pushed,
                    budget>>
    BY <1>6 DEF Inspect
  <2>5. QED
    BY <1>0, <2>1, <2>2, <2>3, <2>4, SendShape
<1>7. CASE EnsureRunning(i)
  <2>1. task[i].kind = "ensure_running" /\ <<Status(r, "running")>> \in Seq(FitReport(pushed'))
    BY <1>1, <1>2, <1>7, TurnIs, OneSaid DEF EnsureRunning
  <2>2. \/ Finish(i) /\ Send(<<Status(r, "running")>>)
        \/ task' = [task EXCEPT ![i].at = "tell", ![i].seen = <<About(r, "running")>>]
           /\ Unsaid
    BY <1>7 DEF EnsureRunning
  <2>3. task' \in Seq(FitTask)
    BY <1>0, <1>2, <2>1, <2>2, Finished, OneSeen
  <2>4. instance' \in [Runs -> [status : Statuses, workspace : BOOLEAN]]
    BY <1>1, <1>2, <1>7, InstanceFits DEF EnsureRunning, HostEnsure, ContainerEnsure, SetInstance
  <2>5. UNCHANGED <<sandbox, link, orders, backendVars, runtimeOf, made, holds, pushed, budget>>
    BY <1>7 DEF EnsureRunning
  <2>6. QED
    BY <1>0, <2>1, <2>2, <2>3, <2>4, <2>5, SendShape
<1>8. CASE Stop(i)
  <2>1. <<Status(r, HostInspect(r))>> \in Seq(FitReport(pushed'))
    BY <1>1, <1>2, OneSaid
  <2>2. \/ Finish(i) /\ Send(<<Status(r, HostInspect(r))>>)
        \/ Goto(i, "look") /\ Unsaid
    BY <1>8 DEF Stop
  <2>3. task' \in Seq(FitTask)
    BY <1>0, <2>2, Finished, Gone DEF Places
  <2>4. instance' \in [Runs -> [status : Statuses, workspace : BOOLEAN]]
    BY <1>1, <1>2, <1>8, InstanceFits DEF Stop, ContainerStop, SetInstance
  <2>5. UNCHANGED <<sandbox, link, orders, backendVars, runtimeOf, made, holds, pushed, budget>>
    BY <1>8 DEF Stop
  <2>6. QED
    BY <1>0, <2>1, <2>2, <2>3, <2>4, <2>5, SendShape
<1>9. QED
  BY <1>3, <1>4, <1>5, <1>6, <1>7, <1>8

LEMMA NothingListed == <<>> \in Seq(Item) /\ OneEach(<<>>) /\ Subjects(<<>>) = {}
<1>1. <<>> \in Seq(Item) /\ DOMAIN <<>> = {}
  BY EmptySeq
<1>2. QED
  BY <1>1 DEF OneEach, Subjects, ToSet

LEMMA RemovedFits ==
  ASSUME NEW items \in Seq(Item), OneEach(items), NEW r \in Runs, NEW done
  PROVE  <<Inventory(items, {}, {})>> \o Removed(r) \in Seq(FitReport(done))
<1> DEFINE a == Inventory(items, {}, {})
           b == Inventory(<<>>, {}, {r})
           c == Status(r, "missing")
<1>1. a \in FitReport(done)
  BY InventoryFits
<1>2. b \in FitReport(done)
  BY NothingListed, InventoryFits
<1>3. c \in FitReport(done)
  BY StatusFits DEF RowStatuses, Statuses
<1>4. Removed(r) = <<b, c>>
  BY DEF Removed
<1> HIDE DEF a, b, c
<1>5. <<a>> \in Seq(FitReport(done)) /\ <<b, c>> \in Seq(FitReport(done))
  BY <1>1, <1>2, <1>3
<1>6. <<a>> \o <<b, c>> \in Seq(FitReport(done))
  BY <1>5, ConcatProperties
<1>7. QED
  BY <1>4, <1>6 DEF a

LEMMA GoneFits ==
  ASSUME NEW gone \in SUBSET Runs, NEW done
  PROVE  (IF gone = {} THEN <<>> ELSE <<Inventory(<<>>, {}, gone)>>) \in Seq(FitReport(done))
<1> DEFINE m == Inventory(<<>>, {}, gone)
<1>1. m \in FitReport(done)
  BY NothingListed, InventoryFits
<1> HIDE DEF m
<1>2. <<m>> \in Seq(FitReport(done))
  BY <1>1
<1>3. QED
  BY <1>2, EmptySeq DEF m

LEMMA TellsShape ==
  ASSUME Shape, NEW i \in DOMAIN task,
         \/ TellRemoved(i) \/ TellInventory(i) \/ TellPruned(i) \/ GitPush(i)
         \/ ContainerFails(i) \/ KeepaliveEnds(i)
  PROVE  Shape'
<1>0. /\ runtimeOf \in [Runs -> [n : 0 .. MaxRuntimes, expires : BOOLEAN]]
      /\ holds \in [Runs -> SUBSET (1 .. MaxRuntimes)]
      /\ instance \in [Runs -> [status : Statuses, workspace : BOOLEAN]]
      /\ task \in Seq(FitTask)
      /\ pushed \subseteq Pushes
  BY DEF Shape, Plain
<1>1. task' \in Seq(FitTask)
  <2>1. Finish(i)
    BY DEF TellRemoved, TellInventory, TellPruned, GitPush, ContainerFails, KeepaliveEnds
  <2>2. QED
    BY <1>0, <2>1, Finished
<1>2. /\ task[i].seen \in Seq(Item) /\ task[i].expected \in SUBSET Runs
      /\ task[i].gone \in SUBSET Runs
  BY <1>0, TaskIs
<1>3. CASE TellRemoved(i)
  <2> DEFINE items == task[i].seen
             r == task[i].run
             msgs == <<Inventory(items, {}, {})>> \o Removed(r)
  <2>1. r \in Runs /\ OneEach(items)
    BY <1>3, TurnIs DEF TellRemoved, FitTask, Proxywide
  <2>2. msgs \in Seq(FitReport(pushed'))
    BY <1>2, <2>1, RemovedFits
  <2>3. SendSeen(msgs, items) /\ UNCHANGED <<sandbox, link, orders, backendVars, runtimeOf, made,
                                             holds, instance, pushed, budget>>
    BY <1>3 DEF TellRemoved
  <2> HIDE DEF items, msgs
  <2>4. items \in Seq(Item)
    BY <1>2 DEF items
  <2>5. QED
    BY <1>0, <1>1, <2>2, <2>3, <2>4, SendShape
<1>4. CASE TellInventory(i)
  <2> DEFINE items == task[i].seen
             m == Inventory(items, task[i].expected \ Subjects(items), {})
  <2>1. OneEach(items)
    BY <1>4, TurnIs DEF TellInventory, FitTask
  <2>2. m \in FitReport(pushed')
    BY <1>2, <2>1, InventoryFits
  <2>3. SendSeen(<<m>>, items) /\ UNCHANGED <<sandbox, link, orders, backendVars, runtimeOf, made,
                                              holds, instance, pushed, budget>>
    BY <1>4 DEF TellInventory
  <2> HIDE DEF items, m
  <2>4. <<m>> \in Seq(FitReport(pushed')) /\ items \in Seq(Item)
    BY <1>2, <2>2 DEF items
  <2>5. QED
    BY <1>0, <1>1, <2>3, <2>4, SendShape
<1>5. CASE TellPruned(i)
  <2> DEFINE msgs == IF task[i].gone = {} THEN <<>> ELSE <<Inventory(<<>>, {}, task[i].gone)>>
  <2>1. msgs \in Seq(FitReport(pushed'))
    BY <1>2, GoneFits
  <2>2. Send(msgs) /\ UNCHANGED <<sandbox, link, orders, backendVars, runtimeOf, made, holds,
                                  instance, pushed, budget>>
    BY <1>5 DEF TellPruned
  <2> HIDE DEF msgs
  <2>3. QED
    BY <1>0, <1>1, <2>1, <2>2, SendShape
<1>6. CASE GitPush(i)
  <2> DEFINE p == task[i].id
  <2>1. p \in Pushes
    BY <1>6, TurnIs DEF GitPush, FitTask
  <2>2. PICK ok \in BOOLEAN : /\ pushed' = IF ok THEN pushed \cup {p} ELSE pushed
                              /\ Send(<<Result(p, ok)>>)
    BY <1>6 DEF GitPush
  <2>3. pushed \subseteq pushed' /\ pushed' \subseteq Pushes /\ (ok => p \in pushed')
    BY <1>0, <2>1, <2>2
  <2>4. Result(p, ok) \in FitReport(pushed')
    BY <2>1, <2>3, ResultFits
  <2> DEFINE m == Result(p, ok)
  <2> HIDE DEF m
  <2>5. <<m>> \in Seq(FitReport(pushed')) /\ Send(<<m>>)
    <3>1. m \in FitReport(pushed') /\ Send(<<m>>)
      BY <2>2, <2>4 DEF m
    <3>2. QED
      BY <3>1
  <2>6. UNCHANGED <<sandbox, link, orders, backendVars, runtimeOf, made, holds, instance, budget>>
    BY <1>6 DEF GitPush
  <2>7. QED
    BY <1>0, <1>1, <2>3, <2>5, <2>6, SendShape
<1>7. CASE ContainerFails(i)
  <2>1. task[i].run \in Runs
    BY <1>7, TurnIs DEF ContainerFails, Proxywide
  <2>2. <<Status(task[i].run, "error")>> \in Seq(FitReport(pushed'))
    BY <2>1, OneSaid DEF RowStatuses
  <2>3. QED
    BY <1>0, <1>1, <1>7, <2>2, SendShape DEF ContainerFails
<1>8. CASE KeepaliveEnds(i)
  <2>1. task[i].run \in Runs
    BY <1>8, TurnIs DEF KeepaliveEnds, Proxywide
  <2>2. <<Status(task[i].run, "missing")>> \in Seq(FitReport(pushed'))
    BY <2>1, OneSaid DEF RowStatuses, Statuses
  <2>3. runtimeOf' \in [Runs -> [n : 0 .. MaxRuntimes, expires : BOOLEAN]]
    <3>1. runtimeOf' = [runtimeOf EXCEPT ![task[i].run] = [n |-> 0, expires |-> FALSE]]
      BY <1>8 DEF KeepaliveEnds
    <3>2. 0 \in 0 .. MaxRuntimes
      BY SandboxBounds
    <3>3. QED
      BY <2>1, <3>1, <3>2, RuntimeFits
  <2>4. QED
    BY <1>0, <1>1, <1>8, <2>2, <2>3, SendShape DEF KeepaliveEnds
<1>9. QED
  BY <1>3, <1>4, <1>5, <1>6, <1>7, <1>8

\* What the proxy does by itself.
LEMMA WorldShape ==
  ASSUME Shape,
         \/ Reconnect \/ PeriodicInventory
         \/ \E r \in Runs : KeepaliveExpires(r) \/ AgentExits(r)
  PROVE  Shape'
<1>1. CASE Reconnect \/ PeriodicInventory
  <2> DEFINE t == NewTask("report_inventory", NoRun, NoQueue, "look", {}, NoPush)
  <2>1. t \in FitTask /\ task' = Append(task, t)
    BY <1>1, NewInventory DEF Reconnect, PeriodicInventory
  <2> HIDE DEF t
  <2>2. task' \in Seq(FitTask)
    BY <2>1, AppendProperties DEF Shape
  <2>3. UNCHANGED <<sandbox, orders, reports, muddled, backendVars, runtimeOf, made, holds,
                    instance, pushed>>
    BY <1>1 DEF Reconnect, PeriodicInventory
  <2>4. link' \in [up : BOOLEAN, closing : BOOLEAN] /\ budget' \in Nat
    <3>1. link \in [up : BOOLEAN, closing : BOOLEAN] /\ budget \in Nat
      BY DEF Shape, Plain
    <3>2. CASE Reconnect
      BY <3>1, <3>2 DEF Reconnect
    <3>3. CASE PeriodicInventory
      BY <3>1, <3>3 DEF PeriodicInventory, Spend
    <3>4. QED
      BY <1>1, <3>2, <3>3
  <2>5. QED
    BY <2>2, <2>3, <2>4 DEF Shape, Plain, PushByProxy, backendVars
<1>2. ASSUME NEW r \in Runs, KeepaliveExpires(r) PROVE Shape'
  <2>1. NewTask("keepalive", r, NoQueue, "remove", {}, NoPush) \in FitTask
    BY NewOfRun
  <2>2. task' \in Seq(FitTask)
    BY <1>2, <2>1, AppendProperties DEF KeepaliveExpires, Shape
  <2>3. holds' \in [Runs -> SUBSET (1 .. MaxRuntimes)]
    BY <1>2, CloseFits DEF KeepaliveExpires
  <2>4. QED
    BY <1>2, <2>2, <2>3, SilentShape DEF KeepaliveExpires, Shape, Plain
<1>3. ASSUME NEW r \in Runs, AgentExits(r) PROVE Shape'
  <2>1. holds' \in [Runs -> SUBSET (1 .. MaxRuntimes)]
    BY <1>3 DEF AgentExits, Shape, Plain
  <2>2. instance' \in [Runs -> [status : Statuses, workspace : BOOLEAN]]
    BY <1>3, InstanceFits DEF AgentExits, SetInstance, Statuses
  <2>3. PICK status \in {"stopped", "error"} :
          Send(<<[t |-> "exit", run |-> r, status |-> status]>>)
    BY <1>3 DEF AgentExits
  <2>4. <<[t |-> "exit", run |-> r, status |-> status]>> \in Seq(FitReport(pushed'))
    BY OneSaid DEF RowStatuses, Statuses
  <2>5. UNCHANGED <<sandbox, link, orders, backendVars, task, runtimeOf, made, pushed, budget>>
    BY <1>3 DEF AgentExits
  <2>6. QED
    BY <2>1, <2>2, <2>3, <2>4, <2>5, SendShape DEF Shape, Plain
<1>4. QED
  BY <1>1, <1>2, <1>3

LEMMA ShapeNext == Shape /\ [SandboxNext]_sandboxVars => Shape'
<1> SUFFICES ASSUME Shape, [SandboxNext]_sandboxVars PROVE Shape'
  OBVIOUS
<1>1. CASE UNCHANGED sandboxVars
  BY <1>1 DEF sandboxVars, Shape, Plain, PushByProxy
<1>2. CASE SandboxNext
  BY <1>2, OrdersShape, PushShape, ReceiveShape, TakeShape, QuietShape, RemovalShape, OpensShape,
     TellsShape, WorldShape DEF SandboxNext
<1>3. QED
  BY <1>1, <1>2

LEMMA ShapeHolds == SandboxSpec => []Shape
<1>1. QED
  BY ShapeInit, ShapeNext, PTL DEF SandboxSpec

\* The shapes of the state, and what its parts may hold.
THEOREM SandboxTypeOKHolds == SandboxSpec => []SandboxTypeOK
BY ShapeHolds, ShapeTyped, PTL

\* A push is reported as made only if the proxy made the push of that request, for any number
\* of runs and requests and whatever is lost, late or answered after a timeout
\* (createSandboxControlClient, requestGitPush).
THEOREM PushByProxyHolds == SandboxSpec => []PushByProxy
<1>1. Shape => PushByProxy
  BY DEF Shape, Plain
<1>2. QED
  BY <1>1, ShapeHolds, PTL

LEMMA JoinedReports ==
  ASSUME NEW done, NEW more, done \subseteq more, NEW s \in Seq(FitReport(done)),
         NEW t \in Seq(FitReport(more))
  PROVE  /\ s \o t \in Seq(FitReport(more))
         /\ DOMAIN (s \o t) = 1 .. Len(s) + Len(t)
         /\ \A i \in DOMAIN s : (s \o t)[i] = s[i]
         /\ \A i \in DOMAIN t : (s \o t)[Len(s) + i] = t[i]
         /\ \A i \in DOMAIN (s \o t) : (s \o t)[i] = IF i <= Len(s) THEN s[i] ELSE t[i - Len(s)]
BY ReportsGrow, Joined

-----------------------------------------------------------------------------
(* A removed instance, and what is still said of it.                         *)

\* A report that speaks of a run is on its way.
Heard(r) == \E k \in DOMAIN reports : r \in SubjectsOf(reports[k])

\* A report that says of a run that it runs.
Claims(m, r) ==
  /\ m.t # "result"
  /\ IF m.t = "inventory" THEN About(r, "running") \in ToSet(m.instances)
     ELSE m.run = r /\ m.status = "running"

\* An item of a run that still has to be queued.
Later(f, r) == \E i \in DOMAIN f : i > 1 /\ f[i].run = r

\* A task that will say of a run that it is gone.
Tells(t, r) ==
  \/ t.kind = "remove" /\ t.at \in {"look", "tell"} /\ t.run = r
  \/ t.kind = "keepalive" /\ t.at = "tell" /\ t.run = r
  \/ t.kind = "prune_orphans" /\ r \in t.gone
Telling(r) == \E i \in DOMAIN task : Tells(task[i], r)

\* Whatever says that a run runs is followed by something that speaks of it again: in the
\* reports, in the inventories that are written, and in the row.
AnsweredReports(r) ==
  \A k \in DOMAIN reports : Claims(reports[k], r) =>
    \E j \in DOMAIN reports : j > k /\ r \in SubjectsOf(reports[j])
Follows(k, r) ==
  \E j \in DOMAIN filing : (j > k /\ filing[j][1].run = r) \/ Later(filing[j], r)
AnsweredFiling(r) ==
  \A k \in DOMAIN filing : \A i \in DOMAIN filing[k] :
    filing[k][i] = About(r, "running") => Heard(r) \/ (i = 1 /\ Follows(k, r))
AnsweredRow(r) ==
  row[r].status = "running" => Heard(r) \/ \E k \in DOMAIN filing : r \in Subjects(filing[k])
Answered(r) == AnsweredReports(r) /\ AnsweredFiling(r) /\ AnsweredRow(r)

\* One inventory at most has an item of a run that still has to be queued.
Tidy(r) == \A j, k \in DOMAIN filing : Later(filing[j], r) /\ Later(filing[k], r) => j = k

Laid(r) == Tidy(r) /\ (instance[r].status = "missing" => Telling(r) \/ Answered(r))

GhostInv == Shape /\ \A r \in Runs \ muddled : Laid(r)

LEMMA SubjectIs ==
  ASSUME NEW f, NEW r PROVE r \in Subjects(f) <=> \E i \in DOMAIN f : f[i].run = r
<1>1. ASSUME r \in Subjects(f) PROVE \E i \in DOMAIN f : f[i].run = r
  <2>1. PICK item \in ToSet(f) : item.run = r
    BY <1>1 DEF Subjects
  <2>2. PICK i \in DOMAIN f : f[i] = item
    BY <2>1 DEF ToSet
  <2>3. QED
    BY <2>1, <2>2
<1>2. ASSUME NEW i \in DOMAIN f, f[i].run = r PROVE r \in Subjects(f)
  BY <1>2 DEF Subjects, ToSet
<1>3. QED
  BY <1>1, <1>2

LEMMA AllSubjects ==
  ASSUME NEW msgs, NEW r
  PROVE  r \in SubjectsOfAll(msgs) <=> \E k \in DOMAIN msgs : r \in SubjectsOf(msgs[k])
BY DEF SubjectsOfAll, ToSet

LEMMA ClaimSpeaks ==
  ASSUME NEW done, NEW m \in FitReport(done), NEW r \in Runs, Claims(m, r)
  PROVE  r \in SubjectsOf(m)
<1>1. m.t \in {"status", "exit", "inventory"}
  BY DEF Claims, FitReport, Report
<1>2. CASE m.t = "inventory"
  <2>1. About(r, "running") \in ToSet(m.instances) /\ About(r, "running").run = r
    BY <1>2 DEF Claims, About
  <2>2. r \in Subjects(m.instances)
    BY <2>1 DEF Subjects
  <2>3. QED
    BY <1>2, <2>2 DEF SubjectsOf
<1>3. CASE m.t \in {"status", "exit"}
  BY <1>3 DEF Claims, SubjectsOf
<1>4. QED
  BY <1>1, <1>2, <1>3

\* A step that says nothing and writes nothing.
LEMMA QuietLays ==
  ASSUME NEW r \in Runs, Laid(r), UNCHANGED <<reports, filing, row>>,
         instance'[r].status = "missing" =>
           Telling(r)' \/ (instance[r].status = "missing" /\ (Telling(r) => Telling(r)'))
  PROVE  Laid(r)'
<1>1. Tidy(r)' /\ (Answered(r) => Answered(r)')
  BY DEF Laid, Tidy, Later, Answered, AnsweredReports, AnsweredFiling, AnsweredRow, Follows, Heard
<1>2. QED
  BY <1>1 DEF Laid

\* A step that sends messages none of which says that a missing run runs.
LEMMA SendLays ==
  ASSUME Shape, NEW r \in Runs, Laid(r), UNCHANGED <<filing, row>>, pushed \subseteq pushed',
         NEW msgs \in Seq(FitReport(pushed')),
         \/ reports' = reports \o msgs
         \/ reports' = reports /\ r \notin SubjectsOfAll(msgs),
         instance'[r].status = "missing" =>
           /\ \A k \in DOMAIN msgs : ~Claims(msgs[k], r)
           /\ \/ Telling(r)'
              \/ r \in SubjectsOfAll(msgs)
              \/ instance[r].status = "missing" /\ (Telling(r) => Telling(r)')
  PROVE  Laid(r)'
<1>1. Tidy(r)'
  BY DEF Laid, Tidy, Later
<1>2. SUFFICES ASSUME instance'[r].status = "missing", ~Telling(r)' PROVE Answered(r)'
  BY <1>1 DEF Laid
<1>3. CASE r \notin SubjectsOfAll(msgs)
  <2>1. Answered(r)
    BY <1>2, <1>3 DEF Laid
  <2>2. CASE reports' = reports
    BY <2>1, <2>2 DEF Answered, AnsweredReports, AnsweredFiling, AnsweredRow, Follows, Heard, Later
  <2>3. CASE reports' = reports \o msgs
    <3>1. /\ DOMAIN reports = 1 .. Len(reports) /\ Len(reports) \in Nat
          /\ DOMAIN msgs = 1 .. Len(msgs) /\ Len(msgs) \in Nat
          /\ DOMAIN reports' = 1 .. Len(reports) + Len(msgs)
          /\ \A i \in DOMAIN reports : reports'[i] = reports[i]
          /\ \A i \in DOMAIN reports' :
               reports'[i] = IF i <= Len(reports) THEN reports[i] ELSE msgs[i - Len(reports)]
      BY <2>3, JoinedReports, SeqIs DEF Shape
    <3>2. \A i \in DOMAIN reports : i \in DOMAIN reports'
      BY <3>1
    <3>3. Heard(r) => Heard(r)'
      BY <3>1, <3>2 DEF Heard
    <3>4. AnsweredReports(r)'
      <4> SUFFICES ASSUME NEW k \in DOMAIN reports', Claims(reports'[k], r)
                   PROVE  \E j \in DOMAIN reports' : j > k /\ r \in SubjectsOf(reports'[j])
        BY DEF AnsweredReports, Claims
      <4>1. k \in DOMAIN reports
        <5>1. ASSUME k > Len(reports) PROVE FALSE
          <6>1. k - Len(reports) \in DOMAIN msgs /\ reports'[k] = msgs[k - Len(reports)]
            BY <3>1, <5>1
          <6>2. QED
            BY <1>2, <6>1
        <5>2. QED
          BY <3>1, <5>1
      <4>2. reports'[k] = reports[k]
        BY <3>1, <4>1
      <4>3. PICK j \in DOMAIN reports : j > k /\ r \in SubjectsOf(reports[j])
        BY <2>1, <4>1, <4>2 DEF Answered, AnsweredReports
      <4>4. QED
        BY <3>1, <3>2, <4>3
    <3>5. QED
      BY <2>1, <3>3, <3>4 DEF Answered, AnsweredFiling, AnsweredRow, Follows, Later
  <2>4. QED
    BY <2>2, <2>3
<1>4. CASE r \in SubjectsOfAll(msgs)
  <2>1. reports' = reports \o msgs
    BY <1>4
  <2>2. /\ DOMAIN reports = 1 .. Len(reports) /\ Len(reports) \in Nat
        /\ DOMAIN msgs = 1 .. Len(msgs) /\ Len(msgs) \in Nat
        /\ DOMAIN reports' = 1 .. Len(reports) + Len(msgs)
        /\ \A i \in DOMAIN msgs : reports'[Len(reports) + i] = msgs[i]
        /\ \A i \in DOMAIN reports' :
             reports'[i] = IF i <= Len(reports) THEN reports[i] ELSE msgs[i - Len(reports)]
    BY <2>1, JoinedReports, SeqIs DEF Shape
  <2>3. PICK j \in DOMAIN msgs : r \in SubjectsOf(msgs[j])
    BY <1>4, AllSubjects
  <2>4. Len(reports) + j \in DOMAIN reports' /\ r \in SubjectsOf(reports'[Len(reports) + j])
    BY <2>2, <2>3
  <2>5. AnsweredReports(r)'
    <3> SUFFICES ASSUME NEW k \in DOMAIN reports', Claims(reports'[k], r)
                 PROVE  \E l \in DOMAIN reports' : l > k /\ r \in SubjectsOf(reports'[l])
      BY DEF AnsweredReports, Claims
    <3>1. k <= Len(reports)
      <4>1. ASSUME k > Len(reports) PROVE FALSE
        <5>1. k - Len(reports) \in DOMAIN msgs /\ reports'[k] = msgs[k - Len(reports)]
          BY <2>2, <4>1
        <5>2. QED
          BY <1>2, <5>1
      <4>2. QED
        BY <2>2, <4>1
    <3>2. Len(reports) + j > k
      BY <2>2, <3>1
    <3>3. QED
      BY <2>4, <3>2
  <2>6. QED
    BY <2>4, <2>5 DEF Answered, AnsweredFiling, AnsweredRow, Heard
<1>5. QED
  BY <1>3, <1>4

-----------------------------------------------------------------------------
(* What the backend does with what it is told.                               *)

LEMMA TailIs ==
  ASSUME Shape, reports # <<>>, reports' = Tail(reports)
  PROVE  /\ 1 \in DOMAIN reports /\ Head(reports) = reports[1]
         /\ DOMAIN reports \subseteq Int
         /\ \A i \in DOMAIN reports' :
              i \in Int /\ i + 1 \in DOMAIN reports /\ reports'[i] = reports[i + 1]
         /\ \A i \in DOMAIN reports : i > 1 => i - 1 \in DOMAIN reports' /\ reports'[i - 1] = reports[i]
<1>1. reports \in Seq(FitReport(pushed)) /\ DOMAIN reports = 1 .. Len(reports) /\ Len(reports) \in Nat
  BY SeqIs DEF Shape
<1>2. /\ 1 \in DOMAIN reports /\ Head(reports) = reports[1]
      /\ DOMAIN reports' = 1 .. Len(reports) - 1
      /\ \A i \in DOMAIN reports' : i + 1 \in DOMAIN reports /\ reports'[i] = reports[i + 1]
  BY <1>1, Beheaded
<1>3. ASSUME NEW i \in DOMAIN reports, i > 1
      PROVE  i - 1 \in DOMAIN reports' /\ reports'[i - 1] = reports[i]
  <2>1. i - 1 \in DOMAIN reports' /\ (i - 1) + 1 = i
    BY <1>1, <1>2, <1>3
  <2>2. QED
    BY <1>2, <2>1
<1>4. QED
  BY <1>1, <1>2, <1>3

\* The reports that are left answer for each other as they did.
LEMMA TailAnswers ==
  ASSUME Shape, reports # <<>>, reports' = Tail(reports), NEW r \in Runs
  PROVE  /\ AnsweredReports(r) => AnsweredReports(r)'
         /\ AnsweredReports(r) /\ Claims(Head(reports), r) => Heard(r)'
         /\ r \notin SubjectsOf(Head(reports)) => (Heard(r) => Heard(r)')
<1>1. /\ 1 \in DOMAIN reports /\ Head(reports) = reports[1]
      /\ DOMAIN reports \subseteq Int
      /\ \A i \in DOMAIN reports' :
           i \in Int /\ i + 1 \in DOMAIN reports /\ reports'[i] = reports[i + 1]
      /\ \A i \in DOMAIN reports : i > 1 => i - 1 \in DOMAIN reports' /\ reports'[i - 1] = reports[i]
  BY TailIs
<1>2. ASSUME AnsweredReports(r), NEW k \in DOMAIN reports', Claims(reports'[k], r)
      PROVE  \E j \in DOMAIN reports' : j > k /\ r \in SubjectsOf(reports'[j])
  <2>1. PICK j \in DOMAIN reports : j > k + 1 /\ r \in SubjectsOf(reports[j])
    BY <1>1, <1>2 DEF AnsweredReports
  <2>2. k \in Int /\ j \in Int /\ j > 1
    <3>1. k \in Int /\ k + 1 \in DOMAIN reports
      BY <1>1, <1>2
    <3>2. k + 1 >= 1
      BY <3>1, SeqIs DEF Shape
    <3>3. QED
      BY <1>1, <2>1, <3>1, <3>2
  <2>3. j - 1 \in DOMAIN reports' /\ j - 1 > k /\ r \in SubjectsOf(reports'[j - 1])
    BY <1>1, <2>1, <2>2
  <2>4. QED
    BY <2>3
<1>3. ASSUME AnsweredReports(r), Claims(Head(reports), r) PROVE Heard(r)'
  <2>1. PICK j \in DOMAIN reports : j > 1 /\ r \in SubjectsOf(reports[j])
    BY <1>1, <1>3 DEF AnsweredReports
  <2>2. QED
    BY <1>1, <2>1 DEF Heard
<1>4. ASSUME r \notin SubjectsOf(Head(reports)), Heard(r) PROVE Heard(r)'
  <2>1. PICK j \in DOMAIN reports : r \in SubjectsOf(reports[j])
    BY <1>4 DEF Heard
  <2>2. j # 1
    BY <1>1, <1>4, <2>1
  <2>3. j > 1
    BY <2>2, SeqIs DEF Shape
  <2>4. QED
    BY <1>1, <2>1, <2>3 DEF Heard
<1>5. AnsweredReports(r) => AnsweredReports(r)'
  BY <1>2 DEF AnsweredReports, Claims
<1>6. QED
  BY <1>3, <1>4, <1>5

\* A report of other runs, or of none.
LEMMA OtherLays ==
  ASSUME Shape, reports # <<>>, reports' = Tail(reports), NEW r \in Runs, Laid(r),
         r \notin SubjectsOf(Head(reports)), UNCHANGED <<filing, instance, task>>,
         row'[r] = row[r]
  PROVE  Laid(r)'
<1>1. Tidy(r)' /\ (Telling(r) => Telling(r)')
  BY DEF Laid, Tidy, Later, Telling
<1>2. Answered(r) => Answered(r)'
  <2>1. /\ AnsweredReports(r) => AnsweredReports(r)'
        /\ Heard(r) => Heard(r)'
    BY TailAnswers
  <2>2. \A k \in DOMAIN filing : Follows(k, r) => Follows(k, r)'
    BY DEF Follows, Later
  <2>4. AnsweredFiling(r) => AnsweredFiling(r)'
    BY <2>1, <2>2 DEF AnsweredFiling
  <2>5. AnsweredRow(r) => AnsweredRow(r)'
    BY <2>1 DEF AnsweredRow
  <2>6. QED
    BY <2>1, <2>4, <2>5 DEF Answered
<1>3. QED
  BY <1>1, <1>2 DEF Laid

\* What an inventory holds of a run is at its head, or after it.
LEMMA HeldOrLater ==
  ASSUME NEW f \in FitFiling, NEW r \in Runs
  PROVE  /\ r \in Subjects(f) <=> f[1].run = r \/ Later(f, r)
         /\ r \in Subjects(Tail(f)) <=> Later(f, r)
         /\ ~(f[1].run = r /\ Later(f, r))
<1>1. f \in Seq(Item) /\ f # <<>> /\ OneEach(f) /\ 1 \in DOMAIN f /\ DOMAIN f = 1 .. Len(f)
      /\ Len(f) \in Nat
  BY SeqIs, Beheaded DEF FitFiling
<1>2. r \in Subjects(f) <=> f[1].run = r \/ Later(f, r)
  <2>1. \A i \in DOMAIN f : i = 1 \/ i > 1
    BY <1>1
  <2>2. QED
    BY <1>1, <2>1, SubjectIs DEF Later
<1>3. /\ \A i \in DOMAIN Tail(f) : i + 1 \in DOMAIN f /\ Tail(f)[i] = f[i + 1] /\ i + 1 > 1
      /\ \A i \in DOMAIN f : i > 1 => i - 1 \in DOMAIN Tail(f) /\ Tail(f)[i - 1] = f[i]
  <2>1. /\ DOMAIN Tail(f) = 1 .. Len(f) - 1
        /\ \A i \in DOMAIN Tail(f) : i + 1 \in DOMAIN f /\ Tail(f)[i] = f[i + 1]
    BY <1>1, Beheaded
  <2>2. ASSUME NEW i \in DOMAIN f, i > 1 PROVE i - 1 \in DOMAIN Tail(f) /\ Tail(f)[i - 1] = f[i]
    <3>1. i - 1 \in DOMAIN Tail(f) /\ (i - 1) + 1 = i
      BY <1>1, <2>1, <2>2
    <3>2. QED
      BY <2>1, <3>1
  <2>3. \A i \in DOMAIN Tail(f) : i + 1 > 1
    BY <1>1, <2>1
  <2>4. QED
    BY <2>1, <2>2, <2>3
<1>4. r \in Subjects(Tail(f)) <=> Later(f, r)
  <2>1. ASSUME r \in Subjects(Tail(f)) PROVE Later(f, r)
    <3>1. PICK i \in DOMAIN Tail(f) : Tail(f)[i].run = r
      BY <2>1, SubjectIs
    <3>2. i + 1 \in DOMAIN f /\ i + 1 > 1 /\ f[i + 1].run = r
      BY <1>3, <3>1
    <3>3. QED
      BY <3>2 DEF Later
  <2>2. ASSUME Later(f, r) PROVE r \in Subjects(Tail(f))
    <3>1. PICK i \in DOMAIN f : i > 1 /\ f[i].run = r
      BY <2>2 DEF Later
    <3>2. i - 1 \in DOMAIN Tail(f) /\ Tail(f)[i - 1].run = r
      BY <1>3, <3>1
    <3>3. QED
      BY <3>2, SubjectIs
  <2>3. QED
    BY <2>1, <2>2
<1>5. ~(f[1].run = r /\ Later(f, r))
  BY <1>1 DEF Later, OneEach
<1>6. QED
  BY <1>2, <1>4, <1>5

LEMMA OvertakesIs ==
  ASSUME Shape, NEW m, NEW r \in Runs, r \in SubjectsOf(m), r \notin Overtakes(m)
  PROVE  \A k \in DOMAIN filing : ~Later(filing[k], r)
<1> SUFFICES ASSUME NEW k \in DOMAIN filing, Later(filing[k], r) PROVE FALSE
  OBVIOUS
<1>1. filing[k] \in FitFiling
  BY SeqIs DEF Shape
<1>2. r \in Subjects(Tail(filing[k]))
  BY <1>1, HeldOrLater
<1>3. filing[k] \in ToSet(filing)
  BY DEF ToSet
<1>4. QED
  BY <1>2, <1>3 DEF Overtakes

\* A report of the run itself.
LEMMA OfRunLays ==
  ASSUME Shape, NEW t \in {"status", "exit"}, ReceiveOfRun(t), NEW r \in Runs, Laid(r),
         r \notin muddled'
  PROVE  Laid(r)'
<1> DEFINE m == Head(reports)
<1>1. /\ reports # <<>> /\ m.t = t /\ reports' = Tail(reports)
      /\ \A f \in ToSet(filing) : Head(f).run # m.run
      /\ Write(About(m.run, m.status)) /\ muddled' = muddled \cup Overtakes(m)
      /\ UNCHANGED <<filing, instance, task>>
  BY DEF ReceiveOfRun, proxyVars
<1>2. m.run \in Runs /\ m.status \in RowStatuses /\ SubjectsOf(m) = {m.run}
  BY <1>1, HeadFits DEF SubjectsOf
<1> HIDE DEF m
<1>3. CASE r # m.run
  <2>1. row'[r] = row[r]
    BY <1>1, <1>3 DEF Write, About, Shape, Plain
  <2>2. QED
    BY <1>1, <1>2, <1>3, <2>1, OtherLays DEF m
<1>4. CASE r = m.run
  <2>1. \A k \in DOMAIN filing : r \notin Subjects(filing[k])
    <3> SUFFICES ASSUME NEW k \in DOMAIN filing, r \in Subjects(filing[k]) PROVE FALSE
      OBVIOUS
    <3>1. filing[k] \in FitFiling /\ filing[k] \in ToSet(filing) /\ Head(filing[k]) = filing[k][1]
      BY FilingIs, SeqIs DEF Shape, ToSet
    <3>2. ~Later(filing[k], r)
      BY <1>1, <1>2, <1>4, OvertakesIs
    <3>3. QED
      BY <1>1, <1>4, <3>1, <3>2, HeldOrLater
  <2>2. Tidy(r)' /\ (Telling(r) => Telling(r)')
    BY <1>1 DEF Laid, Tidy, Later, Telling
  <2>3. ASSUME Answered(r) PROVE Answered(r)'
    <3>1. AnsweredReports(r)' /\ (Claims(m, r) => Heard(r)')
      BY <1>1, <2>3, TailAnswers DEF Answered, m
    <3>2. AnsweredFiling(r)'
      <4>1. \A k \in DOMAIN filing : \A i \in DOMAIN filing[k] : filing[k][i] # About(r, "running")
        BY <2>1, SubjectIs DEF About
      <4>2. QED
        BY <1>1, <4>1 DEF AnsweredFiling
    <3>3. AnsweredRow(r)'
      <4>1. row'[r].status = m.status
        BY <1>1, <1>2, <1>4 DEF Write, About, Shape, Plain
      <4>2. m.status = "running" => Claims(m, r)
        BY <1>1, <1>4 DEF Claims
      <4>3. QED
        BY <3>1, <4>1, <4>2 DEF AnsweredRow
    <3>4. QED
      BY <3>1, <3>2, <3>3 DEF Answered
  <2>4. QED
    BY <1>1, <2>2, <2>3 DEF Laid
<1>5. QED
  BY <1>3, <1>4

\* An inventory.
LEMMA InventoryLays ==
  ASSUME Shape, ReceiveInventory, NEW r \in Runs, Laid(r), r \notin muddled'
  PROVE  Laid(r)'
<1> DEFINE m == Head(reports)
           items == Instances(m) \o Absent(m) \o Deleted(m)
<1>1. /\ reports # <<>> /\ m.t = "inventory" /\ reports' = Tail(reports)
      /\ muddled' = muddled \cup Overtakes(m)
      /\ UNCHANGED <<row, instance, task>>
      /\ filing' = IF items = <<>> THEN filing ELSE Append(filing, items)
  BY DEF ReceiveInventory, proxyVars
<1>2. m \in FitReport(pushed)
  BY <1>1, HeadFits
<1>3. /\ items \in Seq(Item) /\ OneEach(items) /\ Subjects(items) = SubjectsOf(m)
      /\ \A i \in DOMAIN items : items[i].status = "running" => items[i] \in ToSet(m.instances)
  BY <1>1, <1>2, ItemsOf
<1>a. filing \in Seq(FitFiling) /\ DOMAIN filing = 1 .. Len(filing) /\ Len(filing) \in Nat
      /\ \A k \in DOMAIN filing : filing[k] \in FitFiling
  BY SeqIs DEF Shape
<1>b. \A i \in DOMAIN items : items[i] = About(r, "running") => Claims(m, r)
  <2> HIDE DEF m, items
  <2>1. About(r, "running").status = "running"
    BY DEF About
  <2>2. m.t = "inventory" /\ m.t # "result"
    BY <1>1 DEF m
  <2>3. QED
    BY <1>3, <2>1, <2>2 DEF Claims
<1> HIDE DEF m, items
<1>4. CASE items = <<>>
  <2>1. r \notin SubjectsOf(m)
    BY <1>3, <1>4, NothingListed
  <2>2. QED
    BY <1>1, <1>4, <2>1, OtherLays DEF m
<1>5. CASE items # <<>>
  <2> DEFINE n == Len(filing) + 1
  <2>0. items \in FitFiling
    BY <1>3, <1>5 DEF FitFiling
  <2>1. /\ DOMAIN filing' = 1 .. n /\ filing'[n] = items
        /\ \A k \in DOMAIN filing : filing'[k] = filing[k] /\ k \in DOMAIN filing' /\ k < n
        /\ n \in DOMAIN filing'
        /\ \A k \in DOMAIN filing' : k = n \/ k \in DOMAIN filing
    BY <1>1, <1>5, <1>a, <2>0, Added
  <2> HIDE DEF n
  <2>2. AnsweredReports(r) => AnsweredReports(r)' /\ (Claims(m, r) => Heard(r)')
    BY <1>1, TailAnswers DEF m
  <2>3. Telling(r) => Telling(r)'
    BY <1>1 DEF Telling
  <2>4. CASE r \notin SubjectsOf(m)
    <3>1. r \notin Subjects(items)
      BY <1>3, <2>4
    <3>2. ~Later(items, r) /\ items[1].run # r
      BY <2>0, <3>1, HeldOrLater
    <3>3. Heard(r) => Heard(r)'
      BY <1>1, <2>4, TailAnswers DEF m
    <3>4. Tidy(r)'
      <4>1. \A k \in DOMAIN filing' : Later(filing'[k], r) => k \in DOMAIN filing /\ Later(filing[k], r)
        BY <2>1, <3>2
      <4>2. QED
        BY <4>1 DEF Laid, Tidy, Later
    <3>5. AnsweredFiling(r) => AnsweredFiling(r)'
      <4>1. \A k \in DOMAIN filing : Follows(k, r) => Follows(k, r)'
        BY <2>1 DEF Follows, Later
      <4>2. \A i \in DOMAIN items : items[i] # About(r, "running")
        BY <3>1, SubjectIs DEF About
      <4>3. QED
        BY <2>1, <3>3, <4>1, <4>2 DEF AnsweredFiling
    <3>6. AnsweredRow(r) => AnsweredRow(r)'
      BY <1>1, <2>1, <3>3 DEF AnsweredRow
    <3>7. QED
      BY <1>1, <2>2, <2>3, <3>4, <3>5, <3>6 DEF Laid, Answered
  <2>5. CASE r \in SubjectsOf(m)
    <3>1. r \in Subjects(items)
      BY <1>3, <2>5
    <3>2. items[1].run = r \/ Later(items, r)
      BY <2>0, <3>1, HeldOrLater
    <3>3. \A k \in DOMAIN filing : ~Later(filing[k], r)
      BY <1>1, <2>5, OvertakesIs
    <3>4. Tidy(r)'
      <4>1. \A k \in DOMAIN filing' : Later(filing'[k], r) => k = n
        BY <2>1, <3>3
      <4>2. QED
        BY <4>1 DEF Tidy, Later
    <3>5. AnsweredReports(r) => AnsweredFiling(r)'
      <4>1. ASSUME NEW k \in DOMAIN filing, NEW i \in DOMAIN filing[k],
                   filing[k][i] = About(r, "running")
            PROVE  i = 1 /\ Follows(k, r)'
        <5>1. filing[k][i].run = r /\ i \in 1 .. Len(filing[k])
          <6>1. filing[k] \in Seq(Item)
            BY <1>a DEF FitFiling
          <6>2. QED
            BY <4>1, <6>1, SeqIs DEF About
        <5>2. i = 1
          BY <3>3, <4>1, <5>1 DEF Later
        <5>3. n > k /\ n \in DOMAIN filing' /\ filing'[n] = items
          BY <2>1, <4>1
        <5>4. Follows(k, r)'
          BY <3>2, <5>3 DEF Follows, Later
        <5>5. QED
          BY <5>2, <5>4
      <4>2. ASSUME AnsweredReports(r), NEW i \in DOMAIN items, items[i] = About(r, "running")
            PROVE  Heard(r)'
        BY <1>b, <2>2, <4>2
      <4>3. QED
        BY <2>1, <4>1, <4>2 DEF AnsweredFiling
    <3>6. AnsweredRow(r)'
      BY <2>1, <3>1 DEF AnsweredRow
    <3>7. QED
      BY <1>1, <2>2, <2>3, <3>4, <3>5, <3>6 DEF Laid, Answered
  <2>6. QED
    BY <2>4, <2>5
<1>6. QED
  BY <1>4, <1>5

\* Where the inventories are once an item of one is written.
LEMMA FiledMoves ==
  ASSUME Shape, NEW k \in DOMAIN filing, FileItem(k), NEW n, n = Len(filing), NEW f, f = filing[k]
  PROVE  /\ n \in Nat /\ k \in Nat /\ DOMAIN filing = 1 .. n
         /\ \A a \in DOMAIN filing' :
              \/ a < k /\ a \in DOMAIN filing /\ filing'[a] = filing[a]
              \/ a >= k /\ a + 1 \in DOMAIN filing /\ filing'[a] = filing[a + 1]
              \/ a = n /\ Len(f) # 1 /\ filing'[a] = Tail(f)
         /\ DOMAIN filing' \subseteq 1 .. n
         /\ \A b \in DOMAIN filing :
              /\ b < k => b \in DOMAIN filing' /\ filing'[b] = filing[b]
              /\ b > k => b - 1 \in DOMAIN filing' /\ filing'[b - 1] = filing[b]
         /\ Len(f) # 1 => n \in DOMAIN filing' /\ filing'[n] = Tail(f)
<1> DEFINE rest == RemoveAt(filing, k)
<1>1. filing \in Seq(FitFiling) /\ n \in Nat /\ k \in Nat /\ DOMAIN filing = 1 .. n /\ k \in 1 .. n
  BY SeqIs DEF Shape
<1>2. /\ rest \in Seq(FitFiling) /\ DOMAIN rest = 1 .. n - 1
      /\ \A j \in DOMAIN rest : rest[j] = IF j < k THEN filing[j] ELSE filing[j + 1]
  BY <1>1, Removed1
<1>3. f \in FitFiling
  BY <1>1, SeqIs
<1>4. filing' = IF Len(f) = 1 THEN rest ELSE Append(rest, Tail(f))
  BY DEF FileItem
<1> HIDE DEF rest
<1>5. /\ \A j \in DOMAIN rest : /\ j < k => j \in DOMAIN filing /\ rest[j] = filing[j]
                                /\ j >= k => j + 1 \in DOMAIN filing /\ rest[j] = filing[j + 1]
                                /\ j \in Int
      /\ \A b \in DOMAIN filing : /\ b < k => b \in DOMAIN rest /\ rest[b] = filing[b]
                                  /\ b > k => b - 1 \in DOMAIN rest /\ rest[b - 1] = filing[b]
  <2>1. ASSUME NEW j \in DOMAIN rest
        PROVE  /\ j < k => j \in DOMAIN filing /\ rest[j] = filing[j]
               /\ j >= k => j + 1 \in DOMAIN filing /\ rest[j] = filing[j + 1]
               /\ j \in Int
    BY <1>1, <1>2, <2>1
  <2>2. ASSUME NEW b \in DOMAIN filing
        PROVE  /\ b < k => b \in DOMAIN rest /\ rest[b] = filing[b]
               /\ b > k => b - 1 \in DOMAIN rest /\ rest[b - 1] = filing[b]
    <3>1. b < k => b \in DOMAIN rest /\ rest[b] = filing[b]
      BY <1>1, <1>2, <2>2
    <3>2. ASSUME b > k PROVE b - 1 \in DOMAIN rest /\ rest[b - 1] = filing[b]
      <4>1. b - 1 \in DOMAIN rest /\ ~(b - 1 < k) /\ (b - 1) + 1 = b
        BY <1>1, <1>2, <2>2, <3>2
      <4>2. QED
        BY <1>2, <4>1
    <3>3. QED
      BY <3>1, <3>2
  <2>3. QED
    BY <2>1, <2>2
<1>6. CASE Len(f) = 1
  <2>1. filing' = rest
    BY <1>4, <1>6
  <2>2. DOMAIN filing' \subseteq 1 .. n
    BY <1>1, <1>2, <2>1
  <2>3. \A a \in DOMAIN filing' : a < k \/ a >= k
    BY <1>1, <1>5, <2>1
  <2>4. QED
    BY <1>1, <1>5, <1>6, <2>1, <2>2, <2>3
<1>7. CASE Len(f) # 1
  <2>0. Tail(f) \in FitFiling
    BY <1>3, <1>7, TailFits
  <2>1. filing' = Append(rest, Tail(f)) /\ Len(rest) = n - 1
    BY <1>1, <1>2, <1>4, <1>7, LenProperties
  <2>2. /\ DOMAIN filing' = 1 .. n
        /\ \A j \in DOMAIN rest : filing'[j] = rest[j]
        /\ filing'[n] = Tail(f)
    BY <1>1, <1>2, <2>0, <2>1, Added
  <2>3. \A a \in DOMAIN filing' : a \in DOMAIN rest \/ a = n
    BY <1>1, <1>2, <2>2
  <2>4. n \in DOMAIN filing' /\ DOMAIN rest \subseteq DOMAIN filing'
    BY <1>1, <1>2, <2>2
  <2>5. \A a \in DOMAIN rest : a < k \/ a >= k
    BY <1>1, <1>5
  <2>6. QED
    BY <1>1, <1>5, <1>7, <2>2, <2>3, <2>4, <2>5
<1>8. QED
  BY <1>6, <1>7

\* An item of an inventory is written, and the next of that inventory is queued.
LEMMA FileLays ==
  ASSUME Shape, NEW k \in DOMAIN filing, FileItem(k), NEW r \in Runs, Laid(r)
  PROVE  Laid(r)'
<1> DEFINE f == filing[k]
           n == Len(filing)
<1> HIDE DEF f, n
<1>1. /\ n \in Nat /\ k \in Nat /\ DOMAIN filing = 1 .. n
      /\ \A a \in DOMAIN filing' :
           \/ a < k /\ a \in DOMAIN filing /\ filing'[a] = filing[a]
           \/ a >= k /\ a + 1 \in DOMAIN filing /\ filing'[a] = filing[a + 1]
           \/ a = n /\ Len(f) # 1 /\ filing'[a] = Tail(f)
      /\ DOMAIN filing' \subseteq 1 .. n
      /\ \A b \in DOMAIN filing :
           /\ b < k => b \in DOMAIN filing' /\ filing'[b] = filing[b]
           /\ b > k => b - 1 \in DOMAIN filing' /\ filing'[b - 1] = filing[b]
      /\ Len(f) # 1 => n \in DOMAIN filing' /\ filing'[n] = Tail(f)
  BY FiledMoves DEF f, n
<1>2. /\ f \in FitFiling /\ f = filing[k] /\ \A b \in DOMAIN filing : filing[b] \in FitFiling
      /\ Head(f) = f[1] /\ f[1] \in Item
      /\ \A b \in DOMAIN filing : Head(filing[b]) = filing[b][1]
      /\ Len(f) \in Nat \ {0} /\ DOMAIN f = 1 .. Len(f)
  BY FilingIs, SeqIs DEF Shape, f
<1>3. /\ \A j \in 1 .. k - 1 : filing[j][1].run # f[1].run
      /\ Write(f[1])
      /\ UNCHANGED <<reports, instance, task>>
  <2>1. /\ \A j \in 1 .. k - 1 : Head(filing[j]).run # Head(f).run
        /\ Write(Head(f)) /\ UNCHANGED <<reports, instance, task>>
    BY DEF FileItem, proxyVars, f
  <2>2. \A j \in 1 .. k - 1 : j \in DOMAIN filing
    BY <1>1
  <2>3. QED
    BY <1>2, <2>1, <2>2
\* What comes after the head of f.
<1>4. Len(f) # 1 =>
        /\ Tail(f) \in FitFiling /\ DOMAIN Tail(f) = 1 .. Len(f) - 1
        /\ \A i \in DOMAIN Tail(f) : i \in Int /\ i >= 1 /\ i + 1 \in DOMAIN f /\ Tail(f)[i] = f[i + 1]
  <2>1. Len(f) # 1 =>
          /\ Tail(f) \in FitFiling /\ DOMAIN Tail(f) = 1 .. Len(f) - 1
          /\ \A i \in DOMAIN Tail(f) : i + 1 \in DOMAIN f /\ Tail(f)[i] = f[i + 1]
    BY <1>2, TailFits
  <2>2. \A i \in 1 .. Len(f) - 1 : i \in Int /\ i >= 1
    BY <1>2
  <2>3. QED
    BY <2>1, <2>2
<1>5. Later(f, r) => Len(f) # 1
                     /\ (Tail(f)[1].run = r \/ Later(Tail(f), r)) /\ r \in Subjects(Tail(f))
  <2>1. ASSUME Later(f, r) PROVE Len(f) # 1
    BY <1>2, <2>1 DEF Later
  <2>2. ASSUME Later(f, r) PROVE r \in Subjects(Tail(f))
    BY <1>2, <2>2, HeldOrLater
  <2>3. ASSUME Later(f, r) PROVE Tail(f)[1].run = r \/ Later(Tail(f), r)
    BY <1>4, <2>1, <2>2, <2>3, HeldOrLater
  <2>4. QED
    BY <2>1, <2>2, <2>3
<1>6. Len(f) # 1 /\ Later(Tail(f), r) => Later(f, r)
  <2> SUFFICES ASSUME Len(f) # 1, Later(Tail(f), r) PROVE Later(f, r)
    OBVIOUS
  <2>1. PICK i \in DOMAIN Tail(f) : Tail(f)[i].run = r
    BY DEF Later
  <2>2. i + 1 \in DOMAIN f /\ i + 1 > 1 /\ f[i + 1].run = r
    BY <1>4, <2>1
  <2>3. QED
    BY <2>2 DEF Later
<1>7. Tidy(r)'
  <2> SUFFICES ASSUME NEW a \in DOMAIN filing', NEW b \in DOMAIN filing',
                      Later(filing'[a], r), Later(filing'[b], r)
               PROVE  a = b
    BY DEF Tidy, Later
  <2>1. ASSUME NEW c \in DOMAIN filing', Later(filing'[c], r)
        PROVE  \/ c < k /\ c \in DOMAIN filing /\ Later(filing[c], r)
               \/ c >= k /\ c + 1 \in DOMAIN filing /\ Later(filing[c + 1], r)
               \/ c = n /\ Later(f, r)
    BY <1>1, <1>6, <2>1
  <2>2. \A c, d \in DOMAIN filing : Later(filing[c], r) /\ Later(filing[d], r) => c = d
    BY DEF Laid, Tidy
  <2>3. a \in Int /\ b \in Int /\ k \in DOMAIN filing /\ a \in 1 .. n /\ b \in 1 .. n
    BY <1>1
  <2>4. CASE a < k /\ a \in DOMAIN filing /\ Later(filing[a], r)
    <3>1. \/ b < k /\ b = a
          \/ b >= k /\ b + 1 = a
          \/ k = a
      BY <1>2, <2>1, <2>2, <2>3, <2>4
    <3>2. QED
      BY <1>1, <2>3, <2>4, <3>1
  <2>5. CASE a >= k /\ a + 1 \in DOMAIN filing /\ Later(filing[a + 1], r)
    <3>1. \/ b < k /\ b = a + 1
          \/ b >= k /\ b + 1 = a + 1
          \/ k = a + 1
      BY <1>2, <2>1, <2>2, <2>3, <2>5
    <3>2. QED
      BY <1>1, <2>3, <2>5, <3>1
  <2>6. CASE a = n /\ Later(f, r)
    <3>1. \/ b < k /\ b = k
          \/ b >= k /\ b + 1 = k
          \/ b = n
      BY <1>2, <2>1, <2>2, <2>3, <2>6
    <3>2. QED
      BY <1>1, <2>3, <2>6, <3>1
  <2>7. QED
    BY <2>1, <2>4, <2>5, <2>6
<1>8. Telling(r) => Telling(r)'
  BY <1>3 DEF Telling
<1>9. ASSUME Answered(r) PROVE Answered(r)'
  <2>1. AnsweredReports(r)' /\ (Heard(r) => Heard(r)')
    BY <1>3, <1>9 DEF Answered, AnsweredReports, Heard
  \* Where it stood, an inventory that is not f is in its old place or the one before.
  <2>2. ASSUME NEW b \in DOMAIN filing, b # k
        PROVE  \E c \in DOMAIN filing' : /\ filing'[c] = filing[b]
                                         /\ c = IF b < k THEN b ELSE b - 1
    <3>1. b < k \/ b > k
      BY <1>1, <2>2
    <3>2. CASE b < k
      BY <1>1, <3>2
    <3>3. CASE b > k
      <4>1. b - 1 \in DOMAIN filing' /\ filing'[b - 1] = filing[b] /\ ~(b < k)
        BY <1>1, <3>3
      <4>2. QED
        BY <4>1
    <3>4. QED
      BY <3>1, <3>2, <3>3
  <2>3. CASE Heard(r)
    <3>1. AnsweredFiling(r)' /\ AnsweredRow(r)'
      BY <2>1, <2>3 DEF AnsweredFiling, AnsweredRow
    <3>2. QED
      BY <2>1, <3>1 DEF Answered
  <2>4. CASE ~Heard(r)
    \* What followed the head of an inventory that stays follows it still.
    <3>1. ASSUME NEW b \in DOMAIN filing, b # k, f[1].run = r => b > k, Follows(b, r),
                 NEW a \in DOMAIN filing', a = IF b < k THEN b ELSE b - 1
          PROVE  Follows(a, r)'
      <4>1. PICK j \in DOMAIN filing : (j > b /\ filing[j][1].run = r) \/ Later(filing[j], r)
        BY <3>1 DEF Follows
      <4>2. CASE j # k /\ Later(filing[j], r)
        <5>1. PICK c \in DOMAIN filing' : filing'[c] = filing[j]
          BY <2>2, <4>2
        <5>2. QED
          BY <4>2, <5>1 DEF Follows, Later
      <4>3. CASE j # k /\ j > b /\ filing[j][1].run = r
        <5>1. PICK c \in DOMAIN filing' : filing'[c] = filing[j] /\ c = IF j < k THEN j ELSE j - 1
          BY <2>2, <4>3
        <5>2. c > a
          BY <1>1, <3>1, <4>3, <5>1
        <5>3. QED
          BY <4>3, <5>1, <5>2 DEF Follows, Later
      <4>4. CASE j = k
        <5>1. ~(k > b /\ f[1].run = r)
          BY <1>1, <3>1
        <5>2. (b > k /\ f[1].run = r) \/ Later(f, r)
          BY <1>2, <4>1, <4>4, <5>1
        <5>3. Later(f, r)
          BY <1>1, <1>2, <4>1, <4>4, <5>1
        <5>4. n \in DOMAIN filing' /\ filing'[n] = Tail(f)
          BY <1>1, <1>5, <5>3
        <5>5. n > a
          BY <1>1, <3>1, <4>4
        <5>6. QED
          BY <1>5, <5>3, <5>4, <5>5 DEF Follows, Later
      <4>5. QED
        BY <4>1, <4>2, <4>3, <4>4
    <3>2. AnsweredFiling(r)'
      <4> SUFFICES ASSUME NEW a \in DOMAIN filing', NEW i \in DOMAIN filing'[a],
                          filing'[a][i] = About(r, "running")
                   PROVE  i = 1 /\ Follows(a, r)'
        BY DEF AnsweredFiling
      <4>0. \A b \in DOMAIN filing : \A j \in DOMAIN filing[b] :
              filing[b][j] = About(r, "running") => j = 1 /\ Follows(b, r)
        BY <1>9, <2>4 DEF Answered, AnsweredFiling
      <4>1. CASE a = n /\ Len(f) # 1 /\ filing'[a] = Tail(f)
        <5>1. i + 1 \in DOMAIN f /\ f[i + 1] = About(r, "running") /\ i \in Int /\ i >= 1
          BY <1>4, <4>1
        <5>2. i + 1 = 1
          BY <1>2, <4>0, <5>1
        <5>3. QED
          BY <5>1, <5>2
      <4>2. ASSUME NEW b \in DOMAIN filing, b # k, filing'[a] = filing[b],
                   a = IF b < k THEN b ELSE b - 1
            PROVE  i = 1 /\ Follows(a, r)'
        <5>1. i = 1 /\ Follows(b, r)
          BY <4>0, <4>2
        <5>2. filing[b][1].run = r
          BY <4>2, <5>1 DEF About
        <5>3. f[1].run = r => b > k
          <6>1. ~(b \in 1 .. k - 1 /\ f[1].run = r)
            BY <1>3, <5>2
          <6>2. b \in 1 .. n
            BY <1>1, <4>2
          <6>3. QED
            BY <1>1, <4>2, <6>1, <6>2
        <5>4. QED
          BY <3>1, <4>2, <5>1, <5>3
      <4>3. CASE a < k /\ a \in DOMAIN filing /\ filing'[a] = filing[a]
        BY <1>1, <4>2, <4>3
      <4>4. CASE a >= k /\ a + 1 \in DOMAIN filing /\ filing'[a] = filing[a + 1]
        <5>0. a \in Int /\ k \in Int /\ a >= k
          <6>1. a \in 1 .. n
            BY <1>1
          <6>2. QED
            BY <1>1, <4>4, <6>1
        <5>1. a + 1 # k /\ ~(a + 1 < k) /\ (a + 1) - 1 = a
          BY <5>0
        <5>2. QED
          BY <4>2, <4>4, <5>1
      <4>5. QED
        BY <1>1, <4>1, <4>3, <4>4
    <3>3. AnsweredRow(r)'
      <4>1. CASE f[1].run = r
        <5> SUFFICES ASSUME row'[r].status = "running"
                     PROVE  \E c \in DOMAIN filing' : r \in Subjects(filing'[c])
          BY DEF AnsweredRow
        <5>1. f[1] = About(r, "running")
          <6>1. row' = [row EXCEPT ![f[1].run] = [status |-> f[1].status, known |-> TRUE]]
            BY <1>3 DEF Write
          <6>2. row'[r] = [status |-> f[1].status, known |-> TRUE]
            BY <4>1, <6>1 DEF Shape, Plain
          <6>3. f[1].status = "running"
            BY <6>2
          <6>4. QED
            BY <1>2, <4>1, <6>3 DEF About, Item
        <5>2. 1 \in DOMAIN f
          BY <1>2
        <5>3. Follows(k, r)
          BY <1>2, <1>9, <2>4, <5>1, <5>2 DEF Answered, AnsweredFiling
        <5>4. PICK j \in DOMAIN filing : (j > k /\ filing[j][1].run = r) \/ Later(filing[j], r)
          BY <5>3 DEF Follows
        <5>5. ~Later(f, r)
          BY <1>2, <4>1, HeldOrLater
        <5>6. j # k
          BY <1>1, <1>2, <5>4, <5>5
        <5>7. PICK c \in DOMAIN filing' : filing'[c] = filing[j]
          BY <2>2, <5>6
        <5>8. r \in Subjects(filing[j])
          BY <1>2, <5>4, HeldOrLater
        <5>9. QED
          BY <5>7, <5>8
      <4>2. CASE f[1].run # r
        <5> SUFFICES ASSUME row'[r].status = "running"
                     PROVE  \E c \in DOMAIN filing' : r \in Subjects(filing'[c])
          BY DEF AnsweredRow
        <5>1. row'[r] = row[r]
          BY <1>2, <1>3, <4>2 DEF Write, Shape, Plain, Item
        <5>2. PICK j \in DOMAIN filing : r \in Subjects(filing[j])
          BY <1>9, <2>4, <5>1 DEF Answered, AnsweredRow
        <5>3. CASE j # k
          BY <2>2, <5>2, <5>3
        <5>4. CASE j = k
          <6>1. Later(f, r)
            BY <1>2, <4>2, <5>2, <5>4, HeldOrLater
          <6>2. QED
            BY <1>1, <1>5, <6>1
        <5>5. QED
          BY <5>3, <5>4
      <4>3. QED
        BY <4>1, <4>2
    <3>4. QED
      BY <2>1, <3>2, <3>3 DEF Answered
  <2>5. QED
    BY <2>3, <2>4
<1>10. QED
  BY <1>3, <1>7, <1>8, <1>9 DEF Laid

\* What is lost with a connection, or with the backend.
LEMMA LossLays ==
  ASSUME Shape, Disconnect \/ \E p \in Pushes : RequestPushOffline(p),
         NEW r \in Runs, Laid(r), r \notin muddled'
  PROVE  Laid(r)'
<1>1. CASE Disconnect
  <2>1. /\ reports' = <<>> /\ UNCHANGED <<filing, row, instance, task>>
        /\ r \notin SubjectsOfAll(reports)
    BY <1>1 DEF Disconnect, backendVars, proxyVars
  <2>2. ~Heard(r)
    BY <2>1, AllSubjects DEF Heard
  <2>3. Tidy(r)' /\ (Telling(r) => Telling(r)')
    BY <2>1 DEF Laid, Tidy, Later, Telling
  <2>4. Answered(r) => Answered(r)'
    <3>1. AnsweredReports(r)'
      <4>1. <<>> \in Seq(FitReport(pushed)) /\ DOMAIN <<>> = {}
        BY EmptySeq
      <4>2. DOMAIN reports' = {}
        BY <2>1, <4>1
      <4>3. QED
        BY <4>2 DEF AnsweredReports
    <3>2. AnsweredFiling(r) => AnsweredFiling(r)'
      <4>1. \A k \in DOMAIN filing : Follows(k, r) => Follows(k, r)'
        BY <2>1 DEF Follows, Later
      <4>2. QED
        BY <2>1, <2>2, <4>1 DEF AnsweredFiling
    <3>3. AnsweredRow(r) => AnsweredRow(r)'
      BY <2>1, <2>2 DEF AnsweredRow
    <3>4. QED
      BY <3>1, <3>2, <3>3 DEF Answered
  <2>5. QED
    BY <2>1, <2>3, <2>4 DEF Laid
<1>2. ASSUME NEW p \in Pushes, RequestPushOffline(p) PROVE Laid(r)'
  <2>1. /\ filing' = <<>> /\ UNCHANGED <<reports, row, instance, task>>
        /\ \A f \in ToSet(filing) : r \notin Subjects(f)
    BY <1>2 DEF RequestPushOffline, proxyVars
  <2>2. \A k \in DOMAIN filing : r \notin Subjects(filing[k])
    BY <2>1 DEF ToSet
  <2>3. DOMAIN filing' = {}
    <3>1. <<>> \in Seq(FitFiling) /\ DOMAIN <<>> = {}
      BY EmptySeq
    <3>2. QED
      BY <2>1, <3>1
  <2>4. Tidy(r)' /\ (Telling(r) => Telling(r)')
    BY <2>1, <2>3 DEF Tidy, Telling
  <2>5. Answered(r) => Answered(r)'
    BY <2>1, <2>2, <2>3 DEF Answered, AnsweredReports, AnsweredFiling, AnsweredRow, Heard
  <2>6. QED
    BY <2>1, <2>4, <2>5 DEF Laid
<1>3. QED
  BY <1>1, <1>2

-----------------------------------------------------------------------------
(* What the proxy does, and tells.                                           *)

\* What a task will say it still will, when another goes or changes.
LEMMA TellingGoes ==
  ASSUME task \in Seq(FitTask), NEW i \in DOMAIN task, NEW r, ~Tells(task[i], r), Telling(r),
         Finish(i) \/ Enqueue(i)
  PROVE  Telling(r)'
<1> DEFINE rest == RemoveAt(task, i)
<1>1. PICK j \in DOMAIN task : Tells(task[j], r)
  BY DEF Telling
<1>2. DOMAIN task = 1 .. Len(task) /\ Len(task) \in Nat
  BY SeqIs
<1>3. /\ rest \in Seq(FitTask) /\ DOMAIN rest = 1 .. Len(task) - 1
      /\ \A l \in DOMAIN rest : rest[l] = IF l < i THEN task[l] ELSE task[l + 1]
  BY Removed1
<1> HIDE DEF rest
<1>4. PICK l \in DOMAIN rest : rest[l] = task[j]
  <2>1. j < i \/ j > i
    BY <1>1, <1>2
  <2>2. CASE j < i
    <3>1. j \in DOMAIN rest
      BY <1>2, <1>3, <2>2
    <3>2. QED
      BY <1>3, <2>2, <3>1
  <2>3. CASE j > i
    <3>1. j - 1 \in DOMAIN rest /\ ~(j - 1 < i) /\ (j - 1) + 1 = j
      BY <1>2, <1>3, <2>3
    <3>2. rest[j - 1] = task[j]
      BY <1>3, <3>1
    <3>3. QED
      BY <3>1, <3>2
  <2>4. QED
    BY <2>1, <2>2, <2>3
<1>5. CASE task' = rest
  BY <1>1, <1>4, <1>5 DEF Telling
<1>6. ASSUME NEW t, task' = Append(rest, t) PROVE Telling(r)'
  <2>1. Len(rest) \in Nat /\ DOMAIN rest = 1 .. Len(rest)
    BY <1>3, SeqIs
  <2>2. l \in DOMAIN task' /\ task'[l] = rest[l]
    BY <1>3, <1>4, <1>6, <2>1
  <2>3. QED
    BY <1>1, <1>4, <2>2 DEF Telling
<1>7. QED
  BY <1>5, <1>6 DEF Finish, Enqueue, rest

LEMMA TellingChanges ==
  ASSUME task \in Seq(FitTask), NEW i \in DOMAIN task, NEW r, NEW t,
         task' = [task EXCEPT ![i] = t],
         Tells(t, r) \/ (Telling(r) /\ ~Tells(task[i], r))
  PROVE  Telling(r)'
<1>1. DOMAIN task' = DOMAIN task /\ task'[i] = t /\ \A j \in DOMAIN task : j # i => task'[j] = task[j]
  BY SeqIs
<1>2. QED
  BY <1>1 DEF Telling

LEMMA TellingGrows ==
  ASSUME task \in Seq(FitTask), NEW t \in FitTask, task' = Append(task, t), NEW r, Telling(r)
  PROVE  Telling(r)'
<1>1. DOMAIN task' = 1 .. Len(task) + 1 /\ \A i \in DOMAIN task : task'[i] = task[i]
  BY Added
<1>2. DOMAIN task = 1 .. Len(task) /\ Len(task) \in Nat
  BY SeqIs
<1>3. \A i \in DOMAIN task : i \in DOMAIN task'
  BY <1>1, <1>2
<1>4. QED
  BY <1>1, <1>3 DEF Telling

\* What is sent arrives, or is not about the run.
LEMMA Arrives ==
  ASSUME NEW r, r \notin muddled', NEW msgs, NEW items, Send(msgs) \/ SendSeen(msgs, items)
  PROVE  \/ reports' = reports \o msgs
         \/ reports' = reports /\ r \notin SubjectsOfAll(msgs)
BY DEF Send, SendSeen

LEMMA SeenThere ==
  ASSUME NEW r \in Runs, r \notin muddled', NEW msgs, NEW items, SendSeen(msgs, items),
         instance[r].status = "missing"
  PROVE  r \notin Subjects(items)
BY DEF SendSeen

\* What is sent is said of one run.
LEMMA StatusLays ==
  ASSUME Shape, NEW r \in Runs, r \notin muddled', Laid(r), UNCHANGED <<filing, row>>,
         pushed \subseteq pushed', NEW q \in Runs, NEW status \in RowStatuses, NEW m,
         \/ m = Status(q, status)
         \/ m = [t |-> "exit", run |-> q, status |-> status],
         NEW items, Send(<<m>>) \/ SendSeen(<<m>>, items),
         instance'[r].status = "missing" =>
           /\ r = q => status # "running"
           /\ r # q => instance[r].status = "missing" /\ (Telling(r) => Telling(r)')
  PROVE  Laid(r)'
<1>1. /\ m \in FitReport(pushed') /\ SubjectsOf(m) = {q}
      /\ m.t \notin {"inventory", "result"} /\ m.run = q /\ m.status = status
  <2>1. CASE m = Status(q, status)
    <3>1. m.t = "status" /\ m.run = q /\ m.status = status
      BY <2>1 DEF Status
    <3>2. QED
      BY <2>1, <3>1, StatusFits
  <2>2. CASE m = [t |-> "exit", run |-> q, status |-> status]
    <3>1. m.t = "exit" /\ m.run = q /\ m.status = status
      BY <2>2
    <3>2. m \in FitReport(pushed') /\ SubjectsOf(m) = {q}
      BY <2>2, StatusFits
    <3>3. QED
      BY <3>1, <3>2
  <2>3. QED
    BY <2>1, <2>2
<1> DEFINE msgs == <<m>>
<1>2. msgs \in Seq(FitReport(pushed')) /\ DOMAIN msgs = {1} /\ msgs[1] = m
  BY <1>1
<1>3. \/ reports' = reports \o msgs
      \/ reports' = reports /\ r \notin SubjectsOfAll(msgs)
  BY Arrives
<1> HIDE DEF msgs
<1>4. r = q => r \in SubjectsOfAll(msgs)
  BY <1>1, <1>2, AllSubjects
<1>5. \A k \in DOMAIN msgs : Claims(msgs[k], r) => r = q /\ status = "running"
  BY <1>1, <1>2 DEF Claims
<1>6. instance'[r].status = "missing" =>
        /\ \A k \in DOMAIN msgs : ~Claims(msgs[k], r)
        /\ \/ Telling(r)'
           \/ r \in SubjectsOfAll(msgs)
           \/ instance[r].status = "missing" /\ (Telling(r) => Telling(r)')
  BY <1>4, <1>5
<1>7. QED
  BY <1>2, <1>3, <1>6, SendLays

\* Kinds of tasks that tell of no removal.
LEMMA TellsNot ==
  ASSUME NEW t, NEW r,
         \/ t.kind \notin {"remove", "keepalive", "prune_orphans"}
         \/ t.kind = "remove" /\ (t.at \notin {"look", "tell"} \/ t.run # r)
         \/ t.kind = "keepalive" /\ (t.at # "tell" \/ t.run # r)
  PROVE  ~Tells(t, r)
BY DEF Tells

\* Steps of tasks that say nothing, and remove nothing.
LEMMA QuietTaskLays ==
  ASSUME Shape, NEW i \in DOMAIN task,
         \/ Expire(i) \/ EnsureContainer(i) \/ Look(i) \/ StopOrRemove(i) \/ DeleteRuntime(i)
         \/ List(i) \/ PlanGc(i) \/ RemoveWorkspace(i),
         NEW r \in Runs, Laid(r)
  PROVE  Laid(r)'
<1>0. task \in Seq(FitTask) /\ task[i] \in FitTask
  BY TaskIs DEF Shape
<1>1. UNCHANGED <<reports, filing, row>>
  BY DEF Expire, EnsureContainer, Look, StopOrRemove, DeleteRuntime, List, PlanGc, RemoveWorkspace,
         backendVars
<1>2. instance'[r].status = instance[r].status
  <2>1. CASE RemoveWorkspace(i)
    <3>1. task[i].run \in Runs
      BY <2>1, TurnIs DEF RemoveWorkspace, Proxywide
    <3>2. instance' = instance \/ instance' = [instance EXCEPT ![task[i].run].workspace = FALSE]
      BY <2>1 DEF RemoveWorkspace
    <3>3. QED
      BY <3>1, <3>2 DEF Shape, Plain
  <2>2. CASE UNCHANGED instance
    BY <2>2
  <2>3. QED
    BY <2>1, <2>2 DEF Expire, EnsureContainer, Look, StopOrRemove, DeleteRuntime, List, PlanGc
<1>3. ASSUME Telling(r) PROVE Telling(r)'
  <2>1. CASE Expire(i) \/ PlanGc(i) \/ RemoveWorkspace(i)
    <3>1. Finish(i) /\ ~Tells(task[i], r)
      BY <2>1, TurnIs, TellsNot DEF Expire, PlanGc, RemoveWorkspace
    <3>2. QED
      BY <1>0, <1>3, <3>1, TellingGoes
  <2>2. CASE EnsureContainer(i) \/ Look(i)
    <3>1. ~Tells(task[i], r)
      BY <2>2, TurnIs, TellsNot DEF EnsureContainer, Look
    <3>2. PICK t : task' = [task EXCEPT ![i] = t]
      <4> DEFINE s == <<About(task[i].run, ContainerInspect(task[i].run))>>
      <4>1. task' = [task EXCEPT ![i].at = "tell", ![i].seen = s]
        BY <2>2 DEF EnsureContainer, Look
      <4> HIDE DEF s
      <4>2. task' = [task EXCEPT ![i] = [task[i] EXCEPT !.at = "tell", !.seen = s]]
        BY <4>1
      <4>3. QED
        BY <4>2
    <3>3. QED
      BY <1>0, <1>3, <3>1, <3>2, TellingChanges
  <2>3. CASE StopOrRemove(i) \/ DeleteRuntime(i)
    <3>1. ~Tells(task[i], r)
      BY <2>3, TurnIs, TellsNot DEF StopOrRemove, DeleteRuntime
    <3>2. PICK t : task' = [task EXCEPT ![i] = t]
      BY <2>3 DEF StopOrRemove, DeleteRuntime, Goto
    <3>3. QED
      BY <1>0, <1>3, <3>1, <3>2, TellingChanges
  <2>4. CASE List(i)
    <3> DEFINE at == IF task[i].kind = "prune_orphans" THEN "act" ELSE "tell"
               t == [task[i] EXCEPT !.at = at, !.seen = Listing]
    <3>1. task' = [task EXCEPT ![i] = t]
      BY <2>4 DEF List
    <3>2. /\ t.kind = task[i].kind /\ t.run = task[i].run /\ t.gone = task[i].gone /\ t.at = at
      BY <1>0 DEF FitTask, Task
    <3>3. task[i].kind \in {"remove", "report_inventory", "prune_orphans"}
      BY <2>4, TurnIs DEF List
    <3>4. Tells(task[i], r) => Tells(t, r)
      <4>1. at = IF task[i].kind = "prune_orphans" THEN "act" ELSE "tell"
        OBVIOUS
      <4> HIDE DEF t, at
      <4>2. QED
        BY <3>2, <3>3, <4>1 DEF Tells
    <3> HIDE DEF t, at
    <3>5. QED
      BY <1>0, <1>3, <3>1, <3>4, TellingChanges
  <2>5. QED
    BY <2>1, <2>2, <2>3, <2>4
<1>4. QED
  BY <1>1, <1>2, <1>3, QuietLays

\* An instance that is removed will be told of.
LEMMA RemovalLays ==
  ASSUME Shape, NEW i \in DOMAIN task, RemoveInstance(i) \/ PruneOne(i),
         NEW r \in Runs, Laid(r)
  PROVE  Laid(r)'
<1>0. task \in Seq(FitTask) /\ task[i] \in FitTask
  BY TaskIs DEF Shape
<1>1. UNCHANGED <<reports, filing, row>>
  BY DEF RemoveInstance, PruneOne, backendVars
<1>2. CASE RemoveInstance(i)
  <2>1. PICK kind \in {"remove", "keepalive"} :
          Turn(i, kind, "remove") /\ Goto(i, IF kind = "remove" THEN "look" ELSE "tell")
    BY <1>2 DEF RemoveInstance
  <2> DEFINE at == IF kind = "remove" THEN "look" ELSE "tell"
             t == [task[i] EXCEPT !.at = at]
  <2>2. task[i].kind = kind /\ task[i].run \in Runs /\ ~Tells(task[i], r)
    BY <2>1, TurnIs, TellsNot DEF Proxywide
  <2>3. task' = [task EXCEPT ![i] = t]
    BY <2>1 DEF Goto
  <2>4. t.kind = kind /\ t.run = task[i].run /\ t.at = at
    BY <1>0, <2>2 DEF FitTask, Task
  <2>5. at = IF kind = "remove" THEN "look" ELSE "tell"
    OBVIOUS
  <2> HIDE DEF t, at
  <2>6. r = task[i].run => Tells(t, r)
    BY <2>1, <2>4, <2>5 DEF Tells
  <2>7. Telling(r) => Telling(r)'
    BY <1>0, <2>2, <2>3, TellingChanges
  <2>8. r = task[i].run => Telling(r)'
    BY <1>0, <2>3, <2>6, TellingChanges
  <2>9. r # task[i].run => instance'[r] = instance[r]
    BY <1>2, <2>2, RemoveFits DEF RemoveInstance
  <2>10. QED
    BY <1>1, <2>7, <2>8, <2>9, QuietLays
<1>3. CASE PruneOne(i)
  <2>1. task[i].kind = "prune_orphans"
    BY <1>3, TurnIs DEF PruneOne
  <2>2. PICK k \in DOMAIN task[i].seen :
          \/ /\ RemoveOf(task[i].seen[k].run)
             /\ task' = [task EXCEPT ![i].seen = RemoveAt(@, k),
                                     ![i].gone = @ \cup {task[i].seen[k].run}]
          \/ UNCHANGED instance /\ task' = [task EXCEPT ![i].seen = RemoveAt(@, k)]
    BY <1>3 DEF PruneOne
  <2> DEFINE q == task[i].seen[k].run
             s == RemoveAt(task[i].seen, k)
  <2>3. q \in Runs
    <3>1. task[i].seen[k] \in Item
      BY <1>0, TaskIs, SeqIs
    <3>2. QED
      BY <3>1 DEF Item
  <2>4. \/ RemoveOf(q) /\ task' = [task EXCEPT ![i].seen = s, ![i].gone = @ \cup {q}]
        \/ UNCHANGED instance /\ task' = [task EXCEPT ![i].seen = s]
    BY <2>2
  <2> HIDE DEF q, s
  <2>5. CASE RemoveOf(q) /\ task' = [task EXCEPT ![i].seen = s, ![i].gone = @ \cup {q}]
    <3> DEFINE t == [task[i] EXCEPT !.seen = s, !.gone = task[i].gone \cup {q}]
    <3>1. task' = [task EXCEPT ![i] = t]
      BY <1>0, <2>5
    <3>2. t.kind = "prune_orphans" /\ t.gone = task[i].gone \cup {q}
      BY <1>0, <2>1 DEF FitTask, Task
    <3> HIDE DEF t
    <3>3. (Tells(task[i], r) => Tells(t, r)) /\ (r = q => Tells(t, r))
      BY <2>1, <3>2 DEF Tells
    <3>4. (Telling(r) => Telling(r)') /\ (r = q => Telling(r)')
      BY <1>0, <3>1, <3>3, TellingChanges
    <3>5. r # q => instance'[r] = instance[r]
      BY <2>3, <2>5, RemoveFits
    <3>6. QED
      BY <1>1, <3>4, <3>5, QuietLays
  <2>6. CASE UNCHANGED instance /\ task' = [task EXCEPT ![i].seen = s]
    <3> DEFINE t == [task[i] EXCEPT !.seen = s]
    <3>1. task' = [task EXCEPT ![i] = t]
      BY <1>0, <2>6
    <3>2. t.kind = "prune_orphans" /\ t.gone = task[i].gone
      BY <1>0, <2>1 DEF FitTask, Task
    <3> HIDE DEF t
    <3>3. Tells(task[i], r) => Tells(t, r)
      BY <2>1, <3>2 DEF Tells
    <3>4. Telling(r) => Telling(r)'
      BY <1>0, <3>1, <3>3, TellingChanges
    <3>5. QED
      BY <1>1, <2>6, <3>4, QuietLays
  <2>7. QED
    BY <2>4, <2>5, <2>6
<1>4. QED
  BY <1>2, <1>3

\* Steps that tell the status of a run.
LEMMA StatusTaskLays ==
  ASSUME Shape, NEW i \in DOMAIN task,
         \/ EnsureNative(i) \/ TellEnsured(i) \/ StartAgent(i) \/ TellStatus(i)
         \/ Inspect(i) \/ EnsureRunning(i) \/ Stop(i),
         NEW r \in Runs, r \notin muddled', Laid(r)
  PROVE  Laid(r)'
<1> DEFINE q == task[i].run
<1>0. /\ task \in Seq(FitTask) /\ task[i] \in FitTask
      /\ instance \in [Runs -> [status : Statuses, workspace : BOOLEAN]]
  BY TaskIs DEF Shape, Plain
<1>1. q \in Runs /\ ~Tells(task[i], r)
  BY TurnIs, TellsNot
  DEF EnsureNative, TellEnsured, StartAgent, TellStatus, Inspect, EnsureRunning, Stop, Proxywide
<1>2. UNCHANGED <<filing, row>> /\ pushed' = pushed
  BY DEF EnsureNative, TellEnsured, StartAgent, TellStatus, Inspect, EnsureRunning, Stop, backendVars
<1>3. Telling(r) => Telling(r)'
  <2>1. CASE Finish(i) \/ Enqueue(i)
    BY <1>0, <1>1, <2>1, TellingGoes
  <2>2. ASSUME NEW t, task' = [task EXCEPT ![i] = t] PROVE Telling(r) => Telling(r)'
    BY <1>0, <1>1, <2>2, TellingChanges
  <2>3. ASSUME NEW s, task' = [task EXCEPT ![i].at = "tell", ![i].seen = s]
        PROVE  Telling(r) => Telling(r)'
    <3>1. task' = [task EXCEPT ![i] = [task[i] EXCEPT !.at = "tell", !.seen = s]]
      BY <2>3
    <3>2. QED
      BY <2>2, <3>1
  <2>4. CASE Goto(i, "look")
    BY <2>2, <2>4 DEF Goto
  <2>5. QED
    BY <2>1, <2>3, <2>4
    DEF EnsureNative, TellEnsured, StartAgent, TellStatus, Inspect, EnsureRunning, Stop
<1>4. "running" \in RowStatuses /\ "creating" \in RowStatuses /\ HostInspect(q) \in RowStatuses
  BY DEF RowStatuses, Statuses, HostInspect
<1>5. /\ instance'[q].status = "missing" => instance[q].status = "missing"
      /\ \A p \in Runs \ {q} : instance'[p] = instance[p]
  <2>1. \/ UNCHANGED instance
        \/ instance' = [instance EXCEPT ![q].status = "running"]
        \/ instance' = [instance EXCEPT ![q].status = "stopped"]
        \/ instance' = [instance EXCEPT ![q] = [status |-> "running", workspace |-> TRUE]]
    BY DEF EnsureNative, TellEnsured, StartAgent, TellStatus, Inspect, EnsureRunning, Stop,
           HostEnsure, ContainerEnsure, HostOpen, ContainerOpen, ContainerStop, SetInstance
  <2> DEFINE e == [status |-> "running", workspace |-> TRUE]
  <2>2. e.status = "running"
    OBVIOUS
  <2>3. \/ instance' = instance
        \/ instance' = [instance EXCEPT ![q].status = "running"]
        \/ instance' = [instance EXCEPT ![q].status = "stopped"]
        \/ instance' = [instance EXCEPT ![q] = e]
    BY <2>1
  <2> HIDE DEF e, q
  <2>4. QED
    BY <1>0, <1>1, <2>2, <2>3
<1>6. CASE Unsaid
  <2>1. instance'[r].status = "missing" => instance[r].status = "missing"
    BY <1>1, <1>5
  <2>2. reports' = reports
    BY <1>6 DEF Unsaid
  <2>3. QED
    BY <1>2, <1>3, <2>1, <2>2, QuietLays
<1>7. ASSUME NEW status \in RowStatuses, Send(<<Status(q, status)>>),
             status = "running" => instance'[q].status # "missing"
      PROVE  Laid(r)'
  <2> HIDE DEF q
  <2>1. instance'[r].status = "missing" =>
           /\ r = q => status # "running"
           /\ r # q => instance[r].status = "missing" /\ (Telling(r) => Telling(r)')
    BY <1>3, <1>5, <1>7
  <2>2. QED
    BY <1>1, <1>2, <1>7, <2>1, StatusLays
<1>8. CASE EnsureNative(i)
  <2>1. Send(<<Status(q, "running")>>) /\ instance' = [instance EXCEPT ![q].status = "running"]
    BY <1>8 DEF EnsureNative, HostEnsure, SetInstance
  <2>2. instance'[q].status = "running"
    BY <1>0, <1>1, <2>1
  <2>3. QED
    BY <1>4, <1>7, <2>1, <2>2
<1>9. CASE TellEnsured(i) \/ TellStatus(i)
  <2>1. /\ task[i].at = "tell" /\ task[i].kind \in {"open", "stop", "inspect", "ensure_running"}
        /\ SendSeen(<<Status(q, task[i].seen[1].status)>>, task[i].seen)
        /\ instance' = instance
    BY <1>9, TurnIs DEF TellEnsured, TellStatus
  <2>2. task[i].seen \in Seq(Item) /\ task[i].seen # <<>> /\ task[i].seen[1].run = q
    BY <1>0, <2>1, TaskIs DEF FitTask
  <2>3. task[i].seen[1] \in Item /\ 1 \in DOMAIN task[i].seen
    BY <2>2, Beheaded
  <2>4. q \in Subjects(task[i].seen)
    BY <2>2, <2>3, SubjectIs
  <2>5. instance'[r].status = "missing" => r # q
    BY <2>1, <2>4, SeenThere
  <2>6. task[i].seen[1].status \in RowStatuses
    BY <2>3 DEF Item
  <2> HIDE DEF q
  <2>7. QED
    BY <1>1, <1>2, <1>3, <2>1, <2>5, <2>6, StatusLays
<1>10. CASE StartAgent(i)
  <2>1. \/ Unsaid
        \/ /\ Send(<<Status(q, "running")>>)
           /\ instance' = [instance EXCEPT ![q] = [status |-> "running", workspace |-> TRUE]]
        \/ Send(<<Status(q, "creating")>>)
    BY <1>10 DEF StartAgent, HostOpen
  <2>2. CASE /\ Send(<<Status(q, "running")>>)
             /\ instance' = [instance EXCEPT ![q] = [status |-> "running", workspace |-> TRUE]]
    <3>1. instance'[q].status = "running"
      BY <1>0, <1>1, <2>2
    <3>2. QED
      BY <1>4, <1>7, <2>2, <3>1
  <2>3. CASE Send(<<Status(q, "creating")>>)
    BY <1>4, <1>7, <2>3
  <2>4. QED
    BY <1>6, <2>1, <2>2, <2>3
<1>11. CASE Inspect(i) \/ Stop(i)
  <2>1. Unsaid \/ (Send(<<Status(q, HostInspect(q))>>) /\ instance' = instance)
    BY <1>11 DEF Inspect, Stop
  <2>2. HostInspect(q) = "running" => instance[q].status # "missing"
    BY DEF HostInspect, Present
  <2>3. QED
    BY <1>4, <1>6, <1>7, <2>1, <2>2
<1>12. CASE EnsureRunning(i)
  <2>1. \/ Unsaid
        \/ Send(<<Status(q, "running")>>) /\ instance' = [instance EXCEPT ![q].status = "running"]
    BY <1>12 DEF EnsureRunning, HostEnsure, SetInstance
  <2>2. CASE Send(<<Status(q, "running")>>) /\ instance' = [instance EXCEPT ![q].status = "running"]
    <3>1. instance'[q].status = "running"
      BY <1>0, <1>1, <2>2
    <3>2. QED
      BY <1>4, <1>7, <2>2, <3>1
  <2>3. QED
    BY <1>6, <2>1, <2>2
<1>13. QED
  BY <1>8, <1>9, <1>10, <1>11, <1>12

\* Steps that tell of a removal, an inventory or a push.
LEMMA TellsLays ==
  ASSUME Shape, NEW i \in DOMAIN task,
         \/ TellRemoved(i) \/ TellInventory(i) \/ TellPruned(i) \/ GitPush(i)
         \/ ContainerFails(i) \/ KeepaliveEnds(i),
         NEW r \in Runs, r \notin muddled', Laid(r)
  PROVE  Laid(r)'
<1>0. /\ task \in Seq(FitTask) /\ task[i] \in FitTask
      /\ task[i].seen \in Seq(Item) /\ task[i].expected \in SUBSET Runs
      /\ task[i].gone \in SUBSET Runs
  BY TaskIs DEF Shape
<1>1. Finish(i) /\ UNCHANGED <<filing, row, instance>> /\ pushed \subseteq pushed'
  BY DEF TellRemoved, TellInventory, TellPruned, GitPush, ContainerFails, KeepaliveEnds, backendVars
<1>2. ~Tells(task[i], r) => (Telling(r) => Telling(r)')
  BY <1>0, <1>1, TellingGoes
<1>3. ASSUME NEW msgs \in Seq(FitReport(pushed')), NEW items,
             Send(msgs) \/ SendSeen(msgs, items),
             instance[r].status = "missing" => \A k \in DOMAIN msgs : ~Claims(msgs[k], r),
             Tells(task[i], r) => r \in SubjectsOfAll(msgs)
      PROVE  Laid(r)'
  <2>1. \/ reports' = reports \o msgs
        \/ reports' = reports /\ r \notin SubjectsOfAll(msgs)
    BY <1>3, Arrives
  <2>2. instance'[r].status = "missing" =>
          /\ \A k \in DOMAIN msgs : ~Claims(msgs[k], r)
          /\ \/ Telling(r)'
             \/ r \in SubjectsOfAll(msgs)
             \/ instance[r].status = "missing" /\ (Telling(r) => Telling(r)')
    BY <1>1, <1>2, <1>3
  <2>3. QED
    BY <1>1, <1>3, <2>1, <2>2, SendLays
<1>4. ASSUME NEW items, r \notin Subjects(items), NEW absent, NEW deleted
      PROVE  ~Claims(Inventory(items, absent, deleted), r)
  <2>1. Inventory(items, absent, deleted).t = "inventory"
        /\ Inventory(items, absent, deleted).instances = items
    BY DEF Inventory
  <2>2. About(r, "running").run = r
    BY DEF About
  <2>3. QED
    BY <1>4, <2>1, <2>2 DEF Claims, Subjects
<1>5. CASE TellRemoved(i)
  <2> DEFINE items == task[i].seen
             q == task[i].run
             a == Inventory(items, {}, {})
             b == Inventory(<<>>, {}, {q})
             c == Status(q, "missing")
             msgs == <<a>> \o Removed(q)
  <2>1. task[i].kind = "remove" /\ q \in Runs /\ OneEach(items)
    BY <1>5, TurnIs DEF TellRemoved, FitTask, Proxywide
  <2>2. msgs \in Seq(FitReport(pushed'))
    BY <1>0, <2>1, RemovedFits
  <2>3. SendSeen(msgs, items)
    BY <1>5 DEF TellRemoved
  <2>4. /\ instance[r].status = "missing" => ~Claims(a, r)
        /\ ~Claims(b, r)
    BY <1>4, <2>3, SeenThere, NothingListed
  <2>5. ~Claims(c, r) /\ SubjectsOf(c) = {q}
    BY <2>1, StatusFits DEF Claims, Status, RowStatuses, Statuses
  <2>6. Removed(q) = <<b, c>>
    BY DEF Removed
  <2>7. Tells(task[i], r) => r = q
    BY <2>1 DEF Tells
  <2> HIDE DEF a, b, c, q, items
  <2>8. 3 \in DOMAIN msgs /\ msgs[3] = c /\ \A k \in DOMAIN msgs : msgs[k] \in {a, b, c}
    <3>1. msgs = <<a>> \o <<b, c>>
      BY <2>6
    <3> HIDE DEF msgs
    <3>2. QED
      BY <3>1, Three
  <2> HIDE DEF msgs
  <2>9. q \in SubjectsOfAll(msgs)
    BY <2>5, <2>8, AllSubjects
  <2>10. instance[r].status = "missing" => \A k \in DOMAIN msgs : ~Claims(msgs[k], r)
    BY <2>4, <2>5, <2>8
  <2>11. QED
    BY <1>3, <2>2, <2>3, <2>7, <2>9, <2>10
<1>6. CASE TellInventory(i)
  <2> DEFINE items == task[i].seen
             m == Inventory(items, task[i].expected \ Subjects(items), {})
             msgs == <<m>>
  <2>1. task[i].kind = "report_inventory" /\ OneEach(items)
    BY <1>6, TurnIs DEF TellInventory, FitTask
  <2>2. m \in FitReport(pushed')
    BY <1>0, <2>1, InventoryFits
  <2>3. SendSeen(msgs, items)
    BY <1>6 DEF TellInventory
  <2>4. instance[r].status = "missing" => ~Claims(m, r)
    BY <1>4, <2>3, SeenThere
  <2>5. ~Tells(task[i], r)
    BY <2>1, TellsNot
  <2> HIDE DEF m, items
  <2>6. msgs \in Seq(FitReport(pushed')) /\ DOMAIN msgs = {1} /\ msgs[1] = m
    BY <2>2
  <2> HIDE DEF msgs
  <2>7. QED
    BY <1>3, <2>3, <2>4, <2>5, <2>6
<1>7. CASE TellPruned(i)
  <2> DEFINE gone == task[i].gone
             m == Inventory(<<>>, {}, gone)
             msgs == IF gone = {} THEN <<>> ELSE <<m>>
  <2>1. task[i].kind = "prune_orphans"
    BY <1>7, TurnIs DEF TellPruned
  <2>2. msgs \in Seq(FitReport(pushed'))
    BY <1>0, GoneFits
  <2>3. Send(msgs)
    BY <1>7 DEF TellPruned
  <2>4. ~Claims(m, r)
    BY <1>4, NothingListed
  <2>5. SubjectsOf(m) = gone
    <3>1. m.t = "inventory" /\ m.instances = <<>> /\ m.absent = {} /\ m.deleted = gone
      BY DEF Inventory
    <3>2. QED
      BY <3>1, NothingListed DEF SubjectsOf
  <2>6. Tells(task[i], r) => r \in gone
    BY <2>1 DEF Tells
  <2> HIDE DEF gone, m
  <2>7. CASE gone = {}
    <3>1. msgs = <<>> /\ DOMAIN <<>> = {}
      BY <2>7, EmptySeq
    <3>2. DOMAIN msgs = {}
      BY <3>1
    <3> HIDE DEF msgs
    <3>3. QED
      BY <1>3, <2>2, <2>3, <2>6, <2>7, <3>2
  <2>8. CASE gone # {}
    <3>1. DOMAIN msgs = {1} /\ msgs[1] = m
      BY <2>8
    <3> HIDE DEF msgs
    <3>2. r \in gone => r \in SubjectsOfAll(msgs)
      BY <2>5, <3>1, AllSubjects
    <3>3. QED
      BY <1>3, <2>2, <2>3, <2>4, <2>6, <3>1, <3>2
  <2>9. QED
    BY <2>7, <2>8
<1>8. CASE GitPush(i)
  <2> DEFINE p == task[i].id
  <2>1. p \in Pushes /\ task[i].kind = "git_push"
    BY <1>8, TurnIs DEF GitPush, FitTask
  <2>2. PICK ok \in BOOLEAN : /\ pushed' = IF ok THEN pushed \cup {p} ELSE pushed
                              /\ Send(<<Result(p, ok)>>)
    BY <1>8 DEF GitPush
  <2> DEFINE m == Result(p, ok)
             msgs == <<m>>
  <2>3. m \in FitReport(pushed')
    BY <2>1, <2>2, ResultFits
  <2>4. ~Claims(m, r)
    BY DEF Claims, Result
  <2>5. ~Tells(task[i], r)
    BY <2>1, TellsNot
  <2>6. Send(msgs)
    BY <2>2
  <2> HIDE DEF m
  <2>7. msgs \in Seq(FitReport(pushed')) /\ DOMAIN msgs = {1} /\ msgs[1] = m
    BY <2>3
  <2> HIDE DEF msgs
  <2>8. QED
    BY <1>3, <2>4, <2>5, <2>6, <2>7
<1>9. CASE ContainerFails(i) \/ KeepaliveEnds(i)
  <2> DEFINE q == task[i].run
  <2>1. PICK status \in {"error", "missing"} : Send(<<Status(q, status)>>)
    BY <1>9 DEF ContainerFails, KeepaliveEnds
  <2>2. q \in Runs /\ task[i].kind # "prune_orphans"
    BY <1>9, TurnIs DEF ContainerFails, KeepaliveEnds, Proxywide
  <2>3. r # q => (Telling(r) => Telling(r)')
    BY <1>2, <2>2 DEF Tells
  <2>4. status \in RowStatuses /\ status # "running"
    BY DEF RowStatuses, Statuses
  <2> HIDE DEF q
  <2>5. QED
    BY <1>1, <2>1, <2>2, <2>3, <2>4, StatusLays
<1>10. QED
  BY <1>5, <1>6, <1>7, <1>8, <1>9

\* Orders, timers, exits and connections.
LEMMA OrdersLay ==
  ASSUME Shape,
         \/ \E r \in Runs :
              \/ \E action \in {"inspect", "ensure_running", "stop", "remove", "remove_workspace"} :
                   OrderRun(action, r) \/ OrderInstance(action, r)
              \/ OrderOpen(r) \/ OrderClose(r)
              \/ \E p \in Pushes : RequestPush(p, r)
         \/ \E action \in {"report_inventory", "prune_orphans", "gc"} : OrderProxy(action)
         \/ \E p \in Pushes : TimesOut(p)
         \/ ProxyDisconnected
         \/ UNCHANGED sandboxVars,
         NEW q \in Runs, Laid(q)
  PROVE  Laid(q)'
<1>1. UNCHANGED <<reports, filing, row, instance, task>>
  BY DEF OrderRun, OrderInstance, OrderOpen, OrderClose, RequestPush, OrderProxy, TimesOut,
         ProxyDisconnected, sandboxVars, backendVars, proxyVars
<1>2. Telling(q) => Telling(q)'
  BY <1>1 DEF Telling
<1>3. QED
  BY <1>1, <1>2, QuietLays

LEMMA BegunLays ==
  ASSUME Shape, Shape',
         TakeOrder \/ Reconnect \/ PeriodicInventory \/ \E q \in Runs : KeepaliveExpires(q),
         NEW r \in Runs, Laid(r)
  PROVE  Laid(r)'
<1>1. UNCHANGED <<reports, filing, row, instance>>
  BY DEF TakeOrder, Reconnect, PeriodicInventory, KeepaliveExpires, backendVars
<1>2. task' = task \/ \E t : task' = Append(task, t)
  BY DEF TakeOrder, TakeOpen, TakeClose, TakeControl, Reconnect, PeriodicInventory, KeepaliveExpires
<1>3. Telling(r) => Telling(r)'
  <2>1. ASSUME NEW t, task' = Append(task, t), Telling(r) PROVE Telling(r)'
    <3>1. task \in Seq(FitTask) /\ DOMAIN task = 1 .. Len(task) /\ Len(task) \in Nat
      BY SeqIs DEF Shape
    <3>2. \A i \in DOMAIN task : i \in DOMAIN task' /\ task'[i] = task[i]
      BY <2>1, <3>1
    <3>3. QED
      BY <2>1, <3>2 DEF Telling
  <2>2. CASE task' = task
    BY <2>2 DEF Telling
  <2>3. QED
    BY <1>2, <2>1, <2>2
<1>4. QED
  BY <1>1, <1>3, QuietLays

LEMMA ExitLays ==
  ASSUME Shape, NEW q \in Runs, AgentExits(q), NEW r \in Runs, r \notin muddled', Laid(r)
  PROVE  Laid(r)'
<1>1. UNCHANGED <<filing, row, task>> /\ pushed' = pushed
  BY DEF AgentExits, backendVars
<1>2. instance'[r].status = "missing" => instance[r].status = "missing"
  <2>1. instance' = instance \/ instance' = [instance EXCEPT ![q].status = "stopped"]
    BY DEF AgentExits, SetInstance
  <2>2. instance \in [Runs -> [status : Statuses, workspace : BOOLEAN]]
    BY DEF Shape, Plain
  <2>3. QED
    BY <2>1, <2>2
<1>3. Telling(r) => Telling(r)'
  BY <1>1 DEF Telling
<1>4. PICK status \in {"stopped", "error"} :
        Send(<<[t |-> "exit", run |-> q, status |-> status]>>)
  BY DEF AgentExits
<1>5. status \in RowStatuses /\ status # "running"
  BY DEF RowStatuses, Statuses
<1> DEFINE m == [t |-> "exit", run |-> q, status |-> status]
<1>6. Send(<<m>>)
  BY <1>4
<1>7. \/ m = Status(q, status)
      \/ m = [t |-> "exit", run |-> q, status |-> status]
  OBVIOUS
<1> HIDE DEF m
<1>8. QED
  BY <1>1, <1>2, <1>3, <1>5, <1>6, <1>7, StatusLays

LEMMA ResultLays ==
  ASSUME Shape, ReceiveResult, NEW r \in Runs, Laid(r)
  PROVE  Laid(r)'
<1>1. /\ reports # <<>> /\ reports' = Tail(reports) /\ Head(reports).t = "result"
      /\ UNCHANGED <<filing, row, instance, task>>
  BY DEF ReceiveResult, proxyVars
<1>2. r \notin SubjectsOf(Head(reports))
  BY <1>1 DEF SubjectsOf
<1>3. QED
  BY <1>1, <1>2, OtherLays

-----------------------------------------------------------------------------
(* The rows.                                                                 *)

\* What is muddled stays so.
LEMMA MuddledGrows == SandboxNext => muddled \subseteq muddled'
<1>1. \A msgs, items :
        Unsaid \/ Send(msgs) \/ SendSeen(msgs, items) => muddled \subseteq muddled'
  BY DEF Unsaid, Send, SendSeen
<1>2. ASSUME NEW r \in Runs,
             \/ \E action \in {"inspect", "ensure_running", "stop", "remove", "remove_workspace"} :
                  OrderRun(action, r) \/ OrderInstance(action, r)
             \/ OrderOpen(r) \/ OrderClose(r)
             \/ \E p \in Pushes : RequestPush(p, r)
             \/ KeepaliveExpires(r) \/ AgentExits(r)
      PROVE  muddled \subseteq muddled'
  BY <1>1, <1>2 DEF OrderRun, OrderInstance, OrderOpen, OrderClose, RequestPush, KeepaliveExpires,
                    AgentExits
<1>3. ASSUME \/ \E action \in {"report_inventory", "prune_orphans", "gc"} : OrderProxy(action)
             \/ \E p \in Pushes : RequestPushOffline(p) \/ TimesOut(p)
      PROVE  muddled \subseteq muddled'
  BY <1>3 DEF OrderProxy, RequestPushOffline, TimesOut
<1>4. ASSUME \/ ReceiveResult \/ ReceiveStatus \/ ReceiveExit \/ ReceiveInventory
             \/ \E k \in DOMAIN filing : FileItem(k)
      PROVE  muddled \subseteq muddled'
  BY <1>4 DEF ReceiveResult, ReceiveStatus, ReceiveExit, ReceiveOfRun, ReceiveInventory, FileItem
<1>5. ASSUME Disconnect \/ ProxyDisconnected \/ Reconnect \/ PeriodicInventory \/ TakeOrder
      PROVE  muddled \subseteq muddled'
  BY <1>5 DEF Disconnect, ProxyDisconnected, Reconnect, PeriodicInventory, TakeOrder
<1>6. ASSUME NEW i \in DOMAIN task,
             \/ Expire(i) \/ EnsureNative(i) \/ EnsureContainer(i) \/ TellEnsured(i)
             \/ StartAgent(i) \/ Look(i) \/ TellStatus(i) \/ Inspect(i) \/ EnsureRunning(i)
             \/ StopOrRemove(i) \/ Stop(i) \/ DeleteRuntime(i)
      PROVE  muddled \subseteq muddled'
  BY <1>1, <1>6 DEF Expire, EnsureNative, EnsureContainer, TellEnsured, StartAgent, Look,
                    TellStatus, Inspect, EnsureRunning, StopOrRemove, Stop, DeleteRuntime
<1>7. ASSUME NEW i \in DOMAIN task,
             \/ RemoveInstance(i) \/ List(i) \/ TellRemoved(i) \/ TellInventory(i)
             \/ PruneOne(i) \/ TellPruned(i) \/ PlanGc(i) \/ RemoveWorkspace(i) \/ GitPush(i)
             \/ ContainerFails(i) \/ KeepaliveEnds(i)
      PROVE  muddled \subseteq muddled'
  BY <1>1, <1>7 DEF RemoveInstance, List, TellRemoved, TellInventory, PruneOne, TellPruned, PlanGc,
                    RemoveWorkspace, GitPush, ContainerFails, KeepaliveEnds
<1>8. QED
  BY <1>2, <1>3, <1>4, <1>5, <1>6, <1>7 DEF SandboxNext

LEMMA GhostInit == SandboxInit => GhostInv
<1> SUFFICES ASSUME SandboxInit PROVE GhostInv
  OBVIOUS
<1>1. Shape
  BY ShapeInit
<1>2. DOMAIN filing = {} /\ DOMAIN reports = {}
  <2>1. <<>> \in Seq(Item) /\ DOMAIN <<>> = {}
    BY EmptySeq
  <2>2. QED
    BY <2>1 DEF SandboxInit
<1>3. ASSUME NEW r \in Runs PROVE Laid(r)
  <2>1. Tidy(r) /\ AnsweredReports(r) /\ AnsweredFiling(r)
    BY <1>2 DEF Tidy, AnsweredReports, AnsweredFiling
  <2>2. AnsweredRow(r)
    BY DEF SandboxInit, AnsweredRow
  <2>3. QED
    BY <2>1, <2>2 DEF Laid, Answered
<1>4. QED
  BY <1>1, <1>3 DEF GhostInv

LEMMA GhostNext == GhostInv /\ [SandboxNext]_sandboxVars => GhostInv'
<1> SUFFICES ASSUME GhostInv, [SandboxNext]_sandboxVars PROVE GhostInv'
  OBVIOUS
<1>1. Shape /\ Shape'
  BY ShapeNext DEF GhostInv
<1>2. ASSUME NEW r \in Runs, r \notin muddled' PROVE Laid(r)'
  <2>1. Laid(r)
    <3>1. muddled \subseteq muddled'
      BY MuddledGrows DEF sandboxVars
    <3>2. QED
      BY <1>2, <3>1 DEF GhostInv
  <2>2. CASE UNCHANGED sandboxVars
    BY <1>1, <2>1, <2>2, OrdersLay
  <2>3. CASE SandboxNext
    <3>1. CASE \/ \E q \in Runs :
                    \/ \E action \in {"inspect", "ensure_running", "stop", "remove",
                                      "remove_workspace"} :
                         OrderRun(action, q) \/ OrderInstance(action, q)
                    \/ OrderOpen(q) \/ OrderClose(q)
                    \/ \E p \in Pushes : RequestPush(p, q)
               \/ \E action \in {"report_inventory", "prune_orphans", "gc"} : OrderProxy(action)
               \/ \E p \in Pushes : TimesOut(p)
               \/ ProxyDisconnected
      BY <1>1, <2>1, <3>1, OrdersLay
    <3>2. CASE Disconnect \/ \E p \in Pushes : RequestPushOffline(p)
      BY <1>1, <1>2, <2>1, <3>2, LossLays
    <3>3. CASE ReceiveResult \/ ReceiveInventory \/ \E k \in DOMAIN filing : FileItem(k)
      BY <1>1, <1>2, <2>1, <3>3, ResultLays, InventoryLays, FileLays
    <3>4. CASE ReceiveStatus \/ ReceiveExit
      BY <1>1, <1>2, <2>1, <3>4, OfRunLays DEF ReceiveStatus, ReceiveExit
    <3>5. CASE TakeOrder \/ Reconnect \/ PeriodicInventory \/ \E q \in Runs : KeepaliveExpires(q)
      BY <1>1, <2>1, <3>5, BegunLays
    <3>6. CASE \E q \in Runs : AgentExits(q)
      BY <1>1, <1>2, <2>1, <3>6, ExitLays
    <3>7. CASE \E i \in DOMAIN task :
                 \/ Expire(i) \/ EnsureContainer(i) \/ Look(i) \/ StopOrRemove(i)
                 \/ DeleteRuntime(i) \/ List(i) \/ PlanGc(i) \/ RemoveWorkspace(i)
      BY <1>1, <2>1, <3>7, QuietTaskLays
    <3>8. CASE \E i \in DOMAIN task : RemoveInstance(i) \/ PruneOne(i)
      BY <1>1, <2>1, <3>8, RemovalLays
    <3>9. CASE \E i \in DOMAIN task :
                 \/ EnsureNative(i) \/ TellEnsured(i) \/ StartAgent(i) \/ TellStatus(i)
                 \/ Inspect(i) \/ EnsureRunning(i) \/ Stop(i)
      BY <1>1, <1>2, <2>1, <3>9, StatusTaskLays
    <3>10. CASE \E i \in DOMAIN task :
                 \/ TellRemoved(i) \/ TellInventory(i) \/ TellPruned(i) \/ GitPush(i)
                 \/ ContainerFails(i) \/ KeepaliveEnds(i)
      BY <1>1, <1>2, <2>1, <3>10, TellsLays
    <3>11. QED
      BY <2>3, <3>1, <3>2, <3>3, <3>4, <3>5, <3>6, <3>7, <3>8, <3>9, <3>10 DEF SandboxNext
  <2>4. QED
    BY <2>2, <2>3
<1>3. QED
  BY <1>1, <1>2 DEF GhostInv

LEMMA GhostSafe == GhostInv => NoGhost
<1> SUFFICES ASSUME GhostInv, Idle, NEW r \in Runs \ muddled, row[r].status = "running",
                    instance[r].status = "missing"
             PROVE  FALSE
  BY DEF NoGhost
<1>1. DOMAIN task = {} /\ DOMAIN reports = {} /\ DOMAIN filing = {}
  <2>1. <<>> \in Seq(Item) /\ DOMAIN <<>> = {}
    BY EmptySeq
  <2>2. QED
    BY <2>1 DEF Idle
<1>2. Laid(r)
  BY DEF GhostInv
<1>3. QED
  BY <1>1, <1>2 DEF Laid, Telling, Answered, AnsweredRow, Heard

\* When nothing is under way, no row says that an instance runs which an order, the keepalive
\* or the pruning of orphans removed, but for reports that were lost with a connection or came
\* after what they report had gone: for any runs, whatever runs beside (handleSandboxControl,
\* handleSandboxInventory, RunManager).
THEOREM NoGhostHolds == SandboxSpec => []NoGhost
<1>1. SandboxSpec => []GhostInv
  BY GhostInit, GhostNext, PTL DEF SandboxSpec
<1>2. QED
  BY <1>1, GhostSafe, PTL
===============================================================================
