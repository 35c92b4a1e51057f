------------------------- MODULE SkillRegistry_proofs -------------------------
(***************************************************************************)
(* Proofs about SkillRegistry, for any skills, names, lists, requests,     *)
(* runs, roles and faults.  What a binding names was imported before, what *)
(* was imported is stored, and none of it is ever taken back: so what a    *)
(* start read some awaits ago still holds when it is used.                 *)
(***************************************************************************)
EXTENDS SkillRegistry, FiniteSetTheorems, SequenceTheorems, TLAPS

\* The functions of some of the skills to T.
OfSkills(T) == UNION {[D -> T] : D \in SUBSET Skills}

RequestPlaces == {"rest", "prepared", "update", "copy", "copying", "stored", "publish",
                  "put", "replace"}
BindingRows == [role : Nat, skill : Skills, policy : Policies, put : Nat]
RequestRows == [at : RequestPlaces, kind : {"none", "import", "update", "publish", "put"},
                skill : Skills \cup {None}, content : Contents \cup {None},
                ids : SUBSET Skills, publish : BOOLEAN, role : Nat, put : Nat,
                list : Lists \cup {<<>>}, gone : SUBSET BindingRows]

RunPlaces == {"none", "bindings", "skills", "versions", "unresolved", "open", "running",
              "stranded", "failed"}
Dirs == {<<NameOf[s]>> : s \in Skills} \cup {<<NameOf[s], c>> : s \in Skills, c \in Contents}
Items == [skill : Skills, content : Contents, dir : Dirs]
RunRows == [at : RunPlaces, role : Nat, bound : OfSkills(Policies), want : OfSkills(Contents),
            items : Seq(Items)]

RegistryTypes ==
  /\ upstream \in [Skills -> Contents] /\ skills \subseteq Skills
  /\ versions \in [Skills -> SUBSET Contents] /\ latest \in [Skills -> Contents \cup {None}]
  /\ packages \in [Contents -> {"none", "part", "whole"}] /\ offered \subseteq Skills
SkillTypes ==
  /\ RegistryTypes
  /\ role \in Nat /\ bindings \subseteq BindingRows
  /\ pc \in [Requests -> RequestRows] /\ run \in [Runs -> RunRows] /\ DOMAIN home = Runs
  /\ count \in [requests : Nat, roles : Nat, faults : Nat]

\* What K, l, v and p stand for: the skills, their latest versions, the versions and the
\* packages that are there.  A policy for skill s that can be followed:
Follows(K, l, v, s, policy) ==
  /\ s \in K
  /\ policy \in {"latest", "disabled"} => l[s] # None
  /\ policy \in Contents => policy \in v[s]

\* What a request relies on between its reads and its writes.
RequestOk(K, l, v, p, t) ==
  /\ t.at \in {"prepared", "copy", "copying", "stored"} => t.skill \in Skills /\ t.content \in Contents
  /\ t.at \in {"copying", "stored"} => p[t.content] # "none"
  /\ t.at = "publish" => t.skill \in Skills /\ t.content \in v[t.skill]
  /\ t.at \in {"put", "replace"} => \A s \in DOMAIN t.list : Follows(K, l, v, s, t.list[s])

\* A home that is being filled: what is wanted is there and stays, or is still to come.
Filling(items, want, dirs) ==
  /\ \A i \in DOMAIN items :
       /\ items[i].skill \in DOMAIN want /\ items[i].content = want[items[i].skill]
       /\ items[i].dir[1] = NameOf[items[i].skill]
  /\ \A i, j \in DOMAIN items :
       items[i].dir = items[j].dir => items[i].content = items[j].content
  /\ \A s \in DOMAIN want :
       \/ \E i \in DOMAIN items : items[i].skill = s
       \/ \E d \in DOMAIN dirs :
            /\ d[1] = NameOf[s] /\ dirs[d] = want[s]
            /\ \A i \in DOMAIN items : items[i].dir = d => items[i].content = want[s]

\* What the start of a run relies on, and what its home holds.
RunOk(K, l, v, t, dirs) ==
  /\ t.at # "unresolved"
  /\ t.at = "skills" => \A s \in DOMAIN t.bound : /\ t.bound[s] # "disabled"
                                                  /\ Follows(K, l, v, s, t.bound[s])
  /\ t.at \in {"versions", "open"} => \A s \in DOMAIN t.want : t.want[s] \in v[s]
  /\ t.at = "open" => Filling(t.items, t.want, dirs)
  /\ t.at = "running" =>
       \A s \in DOMAIN t.want : \E d \in DOMAIN dirs : d[1] = NameOf[s] /\ dirs[d] = t.want[s]

\* What is published was imported, what was imported is stored.
Founded(l, v, p) ==
  \A s \in Skills : /\ l[s] # None => l[s] \in v[s]
                    /\ \A c \in v[s] : p[c] # "none"

SkillInv ==
  /\ SkillTypes
  /\ Founded(latest, versions, packages)
  /\ \A b \in bindings : Follows(skills, latest, versions, b.skill, b.policy)
  /\ \A q \in Requests : RequestOk(skills, latest, versions, packages, pc[q])
  /\ \A r \in Runs : RunOk(skills, latest, versions, run[r], home[r])

\* Nothing is ever taken back.
Grows ==
  /\ skills \subseteq skills'
  /\ \A s \in Skills : /\ versions[s] \subseteq versions'[s]
                       /\ latest[s] # None => latest'[s] # None
  /\ \A c \in Contents : packages[c] # "none" => packages'[c] # "none"

-----------------------------------------------------------------------------
(* Functions and rows.                                                       *)

LEMMA Put ==
  ASSUME NEW S, NEW T, NEW f \in [S -> T], NEW i \in S, NEW x \in T
  PROVE  /\ [f EXCEPT ![i] = x] \in [S -> T]
         /\ \A j \in S : [f EXCEPT ![i] = x][j] = IF j = i THEN x ELSE f[j]
OBVIOUS

LEMMA OfSkillsIs ==
  ASSUME NEW T, NEW f \in OfSkills(T)
  PROVE  DOMAIN f \subseteq Skills /\ \A s \in DOMAIN f : f[s] \in T
BY DEF OfSkills

LEMMA NoSkills ==
  ASSUME NEW T
  PROVE  <<>> \in OfSkills(T)
<1>1. <<>> \in [{} -> T]
  OBVIOUS
<1>2. QED
  BY <1>1 DEF OfSkills

LEMMA RestIs == Rest \in RequestRows /\ Rest.at = "rest" /\ Rest.ids = {}
BY DEF Rest, RequestRows, RequestPlaces

LEMMA NotStartedIs == NotStarted \in RunRows /\ NotStarted.at = "none"
BY NoSkills DEF NotStarted, RunRows, RunPlaces

\* Growing keeps what requests, runs and bindings rely on.
LEMMA GrowsKeeps ==
  ASSUME SkillTypes, Grows
  PROVE  /\ \A s, policy : s \in Skills /\ Follows(skills, latest, versions, s, policy)
              => Follows(skills', latest', versions', s, policy)
         /\ \A t : RequestOk(skills, latest, versions, packages, t)
              => RequestOk(skills', latest', versions', packages', t)
         /\ \A t \in RunRows : \A dirs : RunOk(skills, latest, versions, t, dirs)
              => RunOk(skills', latest', versions', t, dirs)
<1>1. ASSUME NEW s \in Skills, NEW policy, Follows(skills, latest, versions, s, policy)
      PROVE  Follows(skills', latest', versions', s, policy)
  BY <1>1 DEF Follows, Grows
<1>2. ASSUME NEW t, RequestOk(skills, latest, versions, packages, t)
      PROVE  RequestOk(skills', latest', versions', packages', t)
  <2>1. t.at \in {"copying", "stored"} => packages'[t.content] # "none"
    BY <1>2 DEF RequestOk, Grows
  <2>2. t.at = "publish" => t.content \in versions'[t.skill]
    BY <1>2 DEF RequestOk, Grows
  <2>3. ASSUME t.at \in {"put", "replace"}, NEW s \in DOMAIN t.list
        PROVE  Follows(skills', latest', versions', s, t.list[s])
    <3>1. Follows(skills, latest, versions, s, t.list[s])
      BY <1>2, <2>3 DEF RequestOk
    <3>2. s \in Skills
      BY <3>1 DEF Follows, SkillTypes, RegistryTypes
    <3>3. QED
      BY <1>1, <3>1, <3>2
  <2>4. QED
    BY <1>2, <2>1, <2>2, <2>3 DEF RequestOk
<1>3. ASSUME NEW t \in RunRows, NEW dirs, RunOk(skills, latest, versions, t, dirs)
      PROVE  RunOk(skills', latest', versions', t, dirs)
  <2>1. /\ DOMAIN t.bound \subseteq Skills
        /\ DOMAIN t.want \subseteq Skills
    BY OfSkillsIs DEF RunRows
  <2>2. t.at = "skills" => \A s \in DOMAIN t.bound :
          t.bound[s] # "disabled" /\ Follows(skills', latest', versions', s, t.bound[s])
    BY <1>1, <1>3, <2>1 DEF RunOk
  <2>3. t.at \in {"versions", "open"} => \A s \in DOMAIN t.want : t.want[s] \in versions'[s]
    BY <1>3, <2>1 DEF RunOk, Grows
  <2>4. QED
    BY <1>3, <2>2, <2>3 DEF RunOk
<1>4. QED
  BY <1>1, <1>2, <1>3

\* A step that grows and whose own rows are in order keeps the invariant.
LEMMA Kept ==
  ASSUME SkillInv, SkillTypes', Grows, Founded(latest', versions', packages'),
         \A b \in bindings' \ bindings : Follows(skills', latest', versions', b.skill, b.policy),
         \A q \in Requests : \/ pc'[q] = pc[q]
                             \/ RequestOk(skills', latest', versions', packages', pc'[q]),
         \A r \in Runs : \/ run'[r] = run[r] /\ home'[r] = home[r]
                         \/ RunOk(skills', latest', versions', run'[r], home'[r])
  PROVE  SkillInv'
<1>1. SkillTypes
  BY DEF SkillInv
<1>2. \A b \in bindings' : Follows(skills', latest', versions', b.skill, b.policy)
  <2>1. ASSUME NEW b \in bindings' \cap bindings
        PROVE  Follows(skills', latest', versions', b.skill, b.policy)
    <3>1. b.skill \in Skills /\ Follows(skills, latest, versions, b.skill, b.policy)
      BY DEF SkillInv, SkillTypes, BindingRows
    <3>2. QED
      BY <1>1, <3>1, GrowsKeeps
  <2>2. QED
    BY <2>1
<1>3. \A q \in Requests : RequestOk(skills', latest', versions', packages', pc'[q])
  <2> TAKE q \in Requests
  <2>1. RequestOk(skills, latest, versions, packages, pc[q])
    BY DEF SkillInv
  <2>2. QED
    BY <1>1, <2>1, GrowsKeeps
<1>4. \A r \in Runs : RunOk(skills', latest', versions', run'[r], home'[r])
  <2> TAKE r \in Runs
  <2>1. RunOk(skills, latest, versions, run[r], home[r]) /\ run[r] \in RunRows
    BY DEF SkillInv, SkillTypes
  <2>2. CASE run'[r] = run[r] /\ home'[r] = home[r]
    BY <1>1, <2>1, <2>2, GrowsKeeps
  <2>3. QED
    BY <2>2
<1>5. QED
  BY <1>2, <1>3, <1>4 DEF SkillInv

-----------------------------------------------------------------------------
(* Requests.                                                                 *)

\* A step of a request that changes nothing else.
LEMMA RequestMoves ==
  ASSUME SkillInv, NEW q \in Requests, NEW t \in RequestRows, pc' = [pc EXCEPT ![q] = t],
         RequestOk(skills, latest, versions, packages, t),
         UNCHANGED <<registryVars, bindingVars, runVars>>,
         count' \in [requests : Nat, roles : Nat, faults : Nat]
  PROVE  SkillInv'
<1> USE DEF registryVars, bindingVars, runVars
<1>1. /\ pc' \in [Requests -> RequestRows]
      /\ \A p \in Requests : pc'[p] = IF p = q THEN t ELSE pc[p]
  BY Put DEF SkillInv, SkillTypes
<1>2. SkillTypes'
  BY <1>1 DEF SkillInv, SkillTypes, RegistryTypes
<1>3. Grows
  BY DEF Grows
<1>4. Founded(latest', versions', packages')
  BY DEF SkillInv
<1>5. QED
  BY <1>1, <1>2, <1>3, <1>4, Kept

LEMMA CountUp ==
  ASSUME SkillInv
  PROVE  /\ \A q \in Requests : Arrives(q) => count' \in [requests : Nat, roles : Nat, faults : Nat]
         /\ Fault => count' \in [requests : Nat, roles : Nat, faults : Nat]
         /\ count' = count => count' \in [requests : Nat, roles : Nat, faults : Nat]
<1>1. count \in [requests : Nat, roles : Nat, faults : Nat]
  BY DEF SkillInv, SkillTypes
<1>2. QED
  BY <1>1 DEF Arrives, Fault

LEMMA GotoRow ==
  ASSUME SkillInv, NEW q \in Requests, NEW place \in RequestPlaces
  PROVE  LET t == [pc[q] EXCEPT !.at = place] IN
         /\ t \in RequestRows /\ t.at = place /\ t.skill = pc[q].skill
         /\ t.content = pc[q].content /\ t.list = pc[q].list
         /\ Goto(q, place) => pc' = [pc EXCEPT ![q] = t]
<1>1. pc[q] \in RequestRows
  BY DEF SkillInv, SkillTypes
<1>2. QED
  BY <1>1 DEF RequestRows, Goto

LEMMA PreparedKeeps ==
  ASSUME SkillInv, NEW q \in Requests, NEW s \in Skills, NEW base \in RequestRows,
         Prepared(q, s, base), UNCHANGED <<registryVars, bindingVars, runVars>>,
         count' \in [requests : Nat, roles : Nat, faults : Nat]
  PROVE  SkillInv'
<1> DEFINE t == [base EXCEPT !.at = "prepared", !.skill = s, !.content = upstream[s]]
<1>1. upstream[s] \in Contents
  BY DEF SkillInv, SkillTypes, RegistryTypes
<1>2. "prepared" \in RequestPlaces
  BY DEF RequestPlaces
<1>3. t \in RequestRows /\ t.at = "prepared" /\ t.skill = s /\ t.content = upstream[s]
  BY <1>1, <1>2 DEF RequestRows
<1>4. pc' = [pc EXCEPT ![q] = t]
  BY DEF Prepared
<1> HIDE DEF t
<1>5. RequestOk(skills, latest, versions, packages, t)
  BY <1>1, <1>3 DEF RequestOk
<1>6. QED
  BY <1>3, <1>4, <1>5, RequestMoves

\* A request that is over, or goes on with the next skill of an update, relies on nothing.
LEMMA NextRow ==
  ASSUME SkillInv, NEW q \in Requests
  PROVE  LET t == IF pc[q].ids = {} THEN Rest ELSE [pc[q] EXCEPT !.at = "update"] IN
         /\ t \in RequestRows /\ t.at \in {"rest", "update"}
         /\ NextSkill(q) => pc' = [pc EXCEPT ![q] = t]
<1>1. pc[q] \in RequestRows /\ "update" \in RequestPlaces
  BY DEF SkillInv, SkillTypes, RequestPlaces
<1>2. [pc[q] EXCEPT !.at = "update"] \in RequestRows /\ [pc[q] EXCEPT !.at = "update"].at = "update"
  BY <1>1 DEF RequestRows
<1>3. pc \in [Requests -> RequestRows]
  BY DEF SkillInv, SkillTypes
<1>4. QED
  BY <1>2, <1>3, RestIs DEF NextSkill

LEMMA RestOk ==
  ASSUME NEW K, NEW l, NEW v, NEW p, NEW t, t.at \in {"rest", "update"}
  PROVE  RequestOk(K, l, v, p, t)
BY DEF RequestOk

LEMMA ImportKeeps ==
  ASSUME SkillInv, NEW q \in Requests, NEW s \in Skills, Import(q, s)
  PROVE  SkillInv'
<1>1. [Rest EXCEPT !.kind = "import"] \in RequestRows
  BY RestIs DEF RequestRows
<1>2. QED
  BY <1>1, CountUp, PreparedKeeps DEF Import

LEMMA UpdateNextKeeps ==
  ASSUME SkillInv, NEW q \in Requests, NEW s \in Skills, UpdateNext(q, s)
  PROVE  SkillInv'
<1>1. [pc[q] EXCEPT !.ids = pc[q].ids \ {s}] \in RequestRows
  <2>1. pc[q] \in RequestRows
    BY DEF SkillInv, SkillTypes
  <2>2. QED
    BY <2>1 DEF RequestRows
<1>2. CASE Prepared(q, s, [pc[q] EXCEPT !.ids = pc[q].ids \ {s}])
  BY <1>1, <1>2, CountUp, PreparedKeeps DEF UpdateNext
<1>3. CASE pc' = [pc EXCEPT ![q] = Rest]
  <2>1. Rest \in RequestRows /\ RequestOk(skills, latest, versions, packages, Rest)
    BY RestIs, RestOk
  <2>2. QED
    BY <1>3, <2>1, CountUp, RequestMoves DEF UpdateNext
<1>4. QED
  BY <1>2, <1>3 DEF UpdateNext

LEMMA UpdateAllKeeps ==
  ASSUME SkillInv, NEW q \in Requests, NEW publish \in BOOLEAN, UpdateAll(q, publish)
  PROVE  SkillInv'
<1> DEFINE t == [Rest EXCEPT !.at = "update", !.kind = "update", !.ids = offered,
                             !.publish = publish]
<1>1. offered \subseteq Skills /\ "update" \in RequestPlaces
  BY DEF SkillInv, SkillTypes, RegistryTypes, RequestPlaces
<1>2. t \in RequestRows /\ t.at = "update"
  BY <1>1, RestIs DEF RequestRows
<1>3. pc' = [pc EXCEPT ![q] = t]
  BY DEF UpdateAll
<1> HIDE DEF t
<1>4. RequestOk(skills, latest, versions, packages, t)
  BY <1>2, RestOk
<1>5. QED
  BY <1>2, <1>3, <1>4, CountUp, RequestMoves DEF UpdateAll

LEMMA CheckUpdatesKeeps ==
  ASSUME SkillInv, NEW found, CheckUpdates(found)
  PROVE  SkillInv'
<1>1. SkillTypes'
  BY DEF CheckUpdates, bindingVars, runVars, SkillInv, SkillTypes, RegistryTypes
<1>2. Grows
  BY DEF CheckUpdates, Grows
<1>3. Founded(latest', versions', packages')
  BY DEF CheckUpdates, SkillInv
<1>4. QED
  BY <1>1, <1>2, <1>3, Kept DEF CheckUpdates, bindingVars, runVars

LEMMA LookForPackageKeeps ==
  ASSUME SkillInv, NEW q \in Requests, LookForPackage(q)
  PROVE  SkillInv'
<1>1. PICK place \in {"copy", "stored"} :
        /\ Goto(q, place)
        /\ place = "stored" => packages[pc[q].content] # "none"
  BY DEF LookForPackage
<1>2. place \in RequestPlaces
  BY DEF RequestPlaces
<1> DEFINE t == [pc[q] EXCEPT !.at = place]
<1>3. /\ t \in RequestRows /\ t.at = place /\ t.skill = pc[q].skill /\ t.content = pc[q].content
      /\ pc' = [pc EXCEPT ![q] = t]
  BY <1>1, <1>2, GotoRow
<1> HIDE DEF t
<1>4. RequestOk(skills, latest, versions, packages, t)
  <2>1. RequestOk(skills, latest, versions, packages, pc[q]) /\ pc[q].at = "prepared"
    BY DEF LookForPackage, At, SkillInv
  <2>2. QED
    BY <1>1, <1>3, <2>1 DEF RequestOk
<1>5. QED
  BY <1>3, <1>4, CountUp, RequestMoves DEF LookForPackage

\* Copying, from its first byte to its last, makes the file of one package be there.
LEMMA CopyKeeps ==
  ASSUME SkillInv, NEW q \in Requests, CopyPackage(q) \/ PackageCopied(q)
  PROVE  SkillInv'
<1>1. PICK place \in {"copying", "stored"}, size \in {"part", "whole"} :
        /\ packages' = [packages EXCEPT ![pc[q].content] = size] /\ Goto(q, place)
        /\ UNCHANGED <<upstream, skills, versions, latest, offered, bindingVars, runVars, count>>
  BY DEF CopyPackage, PackageCopied
<1>2. place \in RequestPlaces
  BY DEF RequestPlaces
<1> DEFINE t == [pc[q] EXCEPT !.at = place]
<1>3. /\ t \in RequestRows /\ t.at = place /\ t.skill = pc[q].skill /\ t.content = pc[q].content
      /\ pc' = [pc EXCEPT ![q] = t]
  BY <1>1, <1>2, GotoRow
<1> HIDE DEF t
<1>4. pc[q].skill \in Skills /\ pc[q].content \in Contents
  BY DEF SkillInv, RequestOk, CopyPackage, PackageCopied, At
<1>5. /\ packages' \in [Contents -> {"none", "part", "whole"}]
      /\ packages'[pc[q].content] = size
      /\ \A c \in Contents : packages'[c] = IF c = pc[q].content THEN size ELSE packages[c]
  BY <1>1, <1>4, Put DEF SkillInv, SkillTypes, RegistryTypes
<1>6. /\ pc' \in [Requests -> RequestRows]
      /\ \A p \in Requests : pc'[p] = IF p = q THEN t ELSE pc[p]
  BY <1>3, Put DEF SkillInv, SkillTypes
<1>7. SkillTypes'
  BY <1>1, <1>5, <1>6 DEF bindingVars, runVars, SkillInv, SkillTypes, RegistryTypes
<1>8. Grows
  BY <1>1, <1>5 DEF Grows
<1>9. RequestOk(skills', latest', versions', packages', t)
  BY <1>3, <1>4, <1>5 DEF RequestOk
<1>10. Founded(latest', versions', packages')
  BY <1>1, <1>5 DEF SkillInv, SkillTypes, RegistryTypes, Founded
<1>11. QED
  BY <1>1, <1>6, <1>7, <1>8, <1>9, <1>10, Kept DEF bindingVars, runVars

\* An import or an update records what is stored, and may publish it.
LEMMA CommitKeeps ==
  ASSUME SkillInv, NEW q \in Requests, ImportCommit(q) \/ UpdateCommit(q)
  PROVE  SkillInv'
<1> DEFINE s == pc[q].skill
           c == pc[q].content
           t == IF pc[q].ids = {} THEN Rest ELSE [pc[q] EXCEPT !.at = "update"]
<1>1. s \in Skills /\ c \in Contents /\ packages[c] # "none"
  BY DEF SkillInv, RequestOk, ImportCommit, UpdateCommit, At
<1>2. PICK next \in {latest[s], c} :
        /\ versions' = [versions EXCEPT ![s] = versions[s] \cup {c}]
        /\ latest' = [latest EXCEPT ![s] = next]
        /\ skills' \in {skills, skills \cup {s}} /\ NextSkill(q)
        /\ UNCHANGED <<upstream, packages, offered, bindingVars, runVars, count>>
  BY DEF ImportCommit, UpdateCommit
<1>3. t \in RequestRows /\ t.at \in {"rest", "update"} /\ pc' = [pc EXCEPT ![q] = t]
  BY <1>2, NextRow
<1> HIDE DEF s, c, t
<1>4. /\ skills \subseteq Skills /\ versions \in [Skills -> SUBSET Contents]
      /\ latest \in [Skills -> Contents \cup {None}] /\ Founded(latest, versions, packages)
  BY DEF SkillInv, SkillTypes, RegistryTypes
<1>5. /\ versions' \in [Skills -> SUBSET Contents]
      /\ \A k \in Skills : versions'[k] = IF k = s THEN versions[s] \cup {c} ELSE versions[k]
  BY <1>1, <1>2, <1>4, Put
<1>6. /\ latest' \in [Skills -> Contents \cup {None}]
      /\ \A k \in Skills : latest'[k] = IF k = s THEN next ELSE latest[k]
  BY <1>1, <1>2, <1>4, Put
<1>7. /\ pc' \in [Requests -> RequestRows]
      /\ \A p \in Requests : pc'[p] = IF p = q THEN t ELSE pc[p]
  BY <1>3, Put DEF SkillInv, SkillTypes
<1>8. SkillTypes'
  BY <1>1, <1>2, <1>4, <1>5, <1>6, <1>7 DEF bindingVars, runVars, SkillInv, SkillTypes, RegistryTypes
<1>9. Grows
  BY <1>1, <1>2, <1>5, <1>6, NoneIsNoContent DEF Grows
<1>10. Founded(latest', versions', packages')
  BY <1>1, <1>2, <1>4, <1>5, <1>6 DEF Founded
<1>11. QED
  BY <1>2, <1>3, <1>7, <1>8, <1>9, <1>10, RestOk, Kept DEF bindingVars, runVars

LEMMA StoreFailsKeeps ==
  ASSUME SkillInv, NEW q \in Requests, StoreFails(q)
  PROVE  SkillInv'
<1> DEFINE t == IF pc[q].ids = {} THEN Rest ELSE [pc[q] EXCEPT !.at = "update"]
<1>1. t \in RequestRows /\ t.at \in {"rest", "update"} /\ pc' = [pc EXCEPT ![q] = t]
  BY NextRow DEF StoreFails
<1> HIDE DEF t
<1>2. RequestOk(skills, latest, versions, packages, t)
  BY <1>1, RestOk
<1>3. QED
  BY <1>1, <1>2, CountUp, RequestMoves DEF StoreFails

LEMMA PublishReadKeeps ==
  ASSUME SkillInv, NEW q \in Requests, NEW s \in Skills, NEW c \in Contents, PublishRead(q, s, c)
  PROVE  SkillInv'
<1> DEFINE t == [Rest EXCEPT !.at = "publish", !.kind = "publish", !.skill = s, !.content = c]
<1>1. "publish" \in RequestPlaces
  BY DEF RequestPlaces
<1>2. t \in RequestRows /\ t.at = "publish" /\ t.skill = s /\ t.content = c
  BY <1>1, RestIs DEF RequestRows
<1>3. pc' = [pc EXCEPT ![q] = t] /\ c \in versions[s]
  BY DEF PublishRead
<1> HIDE DEF t
<1>4. RequestOk(skills, latest, versions, packages, t)
  BY <1>2, <1>3 DEF RequestOk
<1>5. QED
  BY <1>2, <1>3, <1>4, CountUp, RequestMoves DEF PublishRead

LEMMA PublishWriteKeeps ==
  ASSUME SkillInv, NEW q \in Requests, PublishWrite(q)
  PROVE  SkillInv'
<1> DEFINE s == pc[q].skill
           c == pc[q].content
<1>1. s \in Skills /\ c \in versions[s]
  BY DEF SkillInv, RequestOk, PublishWrite, At
<1>2. /\ latest' = [latest EXCEPT ![s] = c] /\ pc' = [pc EXCEPT ![q] = Rest]
      /\ UNCHANGED <<upstream, skills, versions, packages, offered, bindingVars, runVars, count>>
  BY DEF PublishWrite
<1> HIDE DEF s, c
<1>3. /\ versions \in [Skills -> SUBSET Contents] /\ latest \in [Skills -> Contents \cup {None}]
      /\ Founded(latest, versions, packages)
  BY DEF SkillInv, SkillTypes, RegistryTypes
<1>4. c \in Contents
  BY <1>1, <1>3
<1>5. /\ latest' \in [Skills -> Contents \cup {None}]
      /\ \A k \in Skills : latest'[k] = IF k = s THEN c ELSE latest[k]
  BY <1>1, <1>2, <1>3, <1>4, Put
<1>6. /\ pc' \in [Requests -> RequestRows]
      /\ \A p \in Requests : pc'[p] = IF p = q THEN Rest ELSE pc[p]
  BY <1>2, RestIs, Put DEF SkillInv, SkillTypes
<1>7. SkillTypes'
  BY <1>2, <1>5, <1>6 DEF bindingVars, runVars, SkillInv, SkillTypes, RegistryTypes
<1>8. Grows
  BY <1>2, <1>4, <1>5, NoneIsNoContent DEF Grows
<1>9. Founded(latest', versions', packages')
  BY <1>1, <1>2, <1>3, <1>5 DEF Founded
<1>10. QED
  BY <1>2, <1>6, <1>7, <1>8, <1>9, RestIs, RestOk, Kept DEF bindingVars, runVars

-----------------------------------------------------------------------------
(* Roles and lists.                                                          *)

LEMMA CreateRoleKeeps ==
  ASSUME SkillInv, CreateRole
  PROVE  SkillInv'
<1>1. count' \in [requests : Nat, roles : Nat, faults : Nat] /\ role' \in Nat
  <2>1. count \in [requests : Nat, roles : Nat, faults : Nat]
    BY DEF SkillInv, SkillTypes
  <2>2. QED
    BY <2>1 DEF CreateRole
<1>2. SkillTypes'
  BY <1>1 DEF CreateRole, registryVars, runVars, SkillInv, SkillTypes, RegistryTypes
<1>3. Grows /\ Founded(latest', versions', packages')
  BY DEF CreateRole, registryVars, Grows, SkillInv
<1>4. QED
  BY <1>2, <1>3, Kept DEF CreateRole, registryVars, runVars

LEMMA DeleteRoleKeeps ==
  ASSUME SkillInv, DeleteRole
  PROVE  SkillInv'
<1>1. bindings' \subseteq bindings /\ role' = 0
  BY DEF DeleteRole
<1>2. SkillTypes'
  BY <1>1 DEF DeleteRole, registryVars, runVars, SkillInv, SkillTypes, RegistryTypes
<1>3. Grows /\ Founded(latest', versions', packages')
  BY DEF DeleteRole, registryVars, Grows, SkillInv
<1>4. QED
  BY <1>1, <1>2, <1>3, Kept DEF DeleteRole, registryVars, runVars

\* What the PUT accepted can be followed when it commits.
LEMMA PutReadKeeps ==
  ASSUME SkillInv, NEW q \in Requests, NEW w \in Lists, PutRead(q, w)
  PROVE  SkillInv'
<1> DEFINE n == count.requests + 1
           t == [Rest EXCEPT !.at = "put", !.kind = "put", !.role = role, !.put = n, !.list = w]
<1>1. "put" \in RequestPlaces /\ role \in Nat /\ n \in Nat
  BY DEF RequestPlaces, SkillInv, SkillTypes
<1>2. pc' = [pc EXCEPT ![q] = t]
  BY DEF PutRead
<1> HIDE DEF n
<1>3. t \in RequestRows /\ t.at = "put" /\ t.list = w
  BY <1>1, RestIs DEF RequestRows
<1> HIDE DEF t
<1>4. \A s \in DOMAIN w : Follows(skills, latest, versions, s, w[s])
  BY DEF PutRead, Acceptable, Follows
<1>5. RequestOk(skills, latest, versions, packages, t)
  BY <1>3, <1>4 DEF RequestOk
<1>6. QED
  BY <1>2, <1>3, <1>5, CountUp, RequestMoves DEF PutRead

LEMMA PutDeleteKeeps ==
  ASSUME SkillInv, NEW q \in Requests, PutDelete(q)
  PROVE  SkillInv'
<1> DEFINE gone == {b \in bindings : b.role = pc[q].role}
           t == [pc[q] EXCEPT !.at = "replace", !.gone = gone]
<1>1. pc \in [Requests -> RequestRows] /\ gone \in SUBSET BindingRows /\ "replace" \in RequestPlaces
  BY DEF SkillInv, SkillTypes, RequestPlaces
<1>2. pc' = [pc EXCEPT ![q] = t]
  BY <1>1 DEF PutDelete
<1> HIDE DEF gone
<1>3. t \in RequestRows /\ t.at = "replace" /\ t.list = pc[q].list
  BY <1>1 DEF RequestRows
<1> HIDE DEF t
<1>4. RequestOk(skills, latest, versions, packages, t)
  <2>1. RequestOk(skills, latest, versions, packages, pc[q]) /\ pc[q].at = "put"
    BY DEF PutDelete, At, SkillInv
  <2>2. QED
    BY <1>3, <2>1 DEF RequestOk
<1>5. QED
  BY <1>2, <1>3, <1>4, CountUp, RequestMoves DEF PutDelete

LEMMA PutCommitKeeps ==
  ASSUME SkillInv, NEW q \in Requests, PutCommit(q)
  PROVE  SkillInv'
<1> DEFINE w == pc[q].list
           rows == {[role |-> pc[q].role, skill |-> s, policy |-> w[s], put |-> pc[q].put] :
                      s \in DOMAIN w}
<1>1. /\ bindings' \subseteq bindings \cup rows /\ pc' = [pc EXCEPT ![q] = Rest]
      /\ UNCHANGED <<registryVars, role, runVars, count>>
  BY DEF PutCommit
<1>2. pc[q] \in RequestRows /\ pc[q].at = "replace"
  BY DEF PutCommit, At, SkillInv, SkillTypes
<1>3. \A s \in DOMAIN w : Follows(skills, latest, versions, s, w[s])
  BY <1>2 DEF SkillInv, RequestOk
<1>4. \A s \in DOMAIN w : s \in Skills /\ w[s] \in Policies
  <2>1. w \in Lists \cup {<<>>}
    BY <1>2 DEF RequestRows
  <2>2. CASE w = <<>>
    BY <2>2
  <2>3. CASE w \in Lists
    BY <2>3, ListsAreLists
  <2>4. QED
    BY <2>1, <2>2, <2>3
<1>5. \A b \in rows : b \in BindingRows /\ Follows(skills, latest, versions, b.skill, b.policy)
  <2>1. pc[q].role \in Nat /\ pc[q].put \in Nat
    BY <1>2 DEF RequestRows
  <2> HIDE DEF w
  <2>2. QED
    BY <1>3, <1>4, <2>1 DEF BindingRows
<1> HIDE DEF w, rows
<1>6. /\ pc' \in [Requests -> RequestRows]
      /\ \A p \in Requests : pc'[p] = IF p = q THEN Rest ELSE pc[p]
  BY <1>1, RestIs, Put DEF SkillInv, SkillTypes
<1>7. SkillTypes'
  BY <1>1, <1>5, <1>6 DEF registryVars, runVars, SkillInv, SkillTypes, RegistryTypes
<1>8. Grows /\ Founded(latest', versions', packages')
  BY <1>1 DEF registryVars, Grows, SkillInv
<1>9. \A b \in bindings' \ bindings : Follows(skills', latest', versions', b.skill, b.policy)
  BY <1>1, <1>5 DEF registryVars
<1>10. RequestOk(skills', latest', versions', packages', Rest)
  BY RestIs, RestOk
<1>11. QED
  BY <1>1, <1>6, <1>7, <1>8, <1>9, <1>10, Kept DEF runVars

-----------------------------------------------------------------------------
(* The start of a run and the filling of its home.                           *)

\* Every wanted skill is in every order of them.
LEMMA OrderIs ==
  ASSUME NEW D, D \subseteq Skills, NEW order \in SetToSeqs(D)
  PROVE  /\ DOMAIN order = 1 .. Cardinality(D) /\ Cardinality(D) \in Nat
         /\ \A i \in DOMAIN order : order[i] \in D
         /\ \A s \in D : \E i \in DOMAIN order : order[i] = s
<1> DEFINE n == Cardinality(D)
<1>1. IsFiniteSet(D) /\ n \in Nat
  BY SkillsAreFinite, FS_Subset, FS_CardinalityType
<1>2. order \in [1 .. n -> D] /\ \A i, j \in 1 .. n : i # j => order[i] # order[j]
  BY DEF SetToSeqs
<1>3. ASSUME NEW s \in D, \A i \in 1 .. n : order[i] # s
      PROVE  FALSE
  <2>1. order \in [1 .. n -> D \ {s}]
    BY <1>2, <1>3
  <2>2. IsFiniteSet(D \ {s}) /\ Cardinality(D \ {s}) = n - 1
    BY <1>1, FS_RemoveElement
  <2>3. IsFiniteSet(1 .. n) /\ Cardinality(1 .. n) = n
    <3>1. 1 \in Int /\ n \in Int
      BY <1>1
    <3>2. IsFiniteSet(1 .. n) /\ Cardinality(1 .. n) = IF 1 > n THEN 0 ELSE n - 1 + 1
      BY <3>1, FS_Interval
    <3>3. QED
      BY <1>1, <3>2
  <2>4. \E x, y \in 1 .. n : x # y /\ order[x] = order[y]
    <3>1. Cardinality(D \ {s}) < Cardinality(1 .. n)
      BY <1>1, <2>2, <2>3
    <3> DEFINE S == 1 .. n
               T == D \ {s}
    <3>2. /\ IsFiniteSet(S) /\ IsFiniteSet(T) /\ Cardinality(T) < Cardinality(S)
          /\ order \in [S -> T]
      BY <2>1, <2>2, <2>3, <3>1
    <3> HIDE DEF S, T
    <3>3. \E x, y \in S : x # y /\ order[x] = order[y]
      BY <3>2, FS_PigeonHole
    <3>4. QED
      BY <3>3 DEF S
  <2>5. QED
    BY <1>2, <2>4
<1>4. QED
  BY <1>1, <1>2, <1>3

LEMMA PlacedFills ==
  ASSUME NEW want \in OfSkills(Contents), NEW order \in SetToSeqs(DOMAIN want), NEW dirs
  PROVE  Placed(order, want) \in Seq(Items) /\ Filling(Placed(order, want), want, dirs)
<1> DEFINE items == Placed(order, want)
           n == Cardinality(DOMAIN want)
           name(i) == NameOf[order[i]]
           content(i) == want[order[i]]
<1>1. DOMAIN want \subseteq Skills /\ \A s \in DOMAIN want : want[s] \in Contents
  BY OfSkillsIs
<1>2. /\ DOMAIN order = 1 .. n /\ n \in Nat
      /\ \A i \in DOMAIN order : order[i] \in DOMAIN want
      /\ \A s \in DOMAIN want : \E i \in DOMAIN order : order[i] = s
  BY <1>1, OrderIs
<1>3. /\ DOMAIN items = 1 .. n
      /\ \A i \in 1 .. n : /\ items[i].skill = order[i] /\ items[i].content = content(i)
                           /\ items[i] = [skill |-> order[i], content |-> content(i),
                                          dir |-> items[i].dir]
                           /\ items[i].dir =
                                IF \E j \in 1 .. i - 1 : name(j) = name(i)
                                THEN <<name(i), content(i)>> ELSE <<name(i)>>
  BY <1>2 DEF Placed
<1>c. \A i \in 1 .. n : /\ content(i) = want[order[i]] /\ name(i) = NameOf[order[i]]
                       /\ order[i] \in Skills /\ order[i] \in DOMAIN want
                       /\ content(i) \in Contents
  BY <1>1, <1>2
<1>d. \A i \in 1 .. n : <<name(i), content(i)>> \in Dirs /\ <<name(i)>> \in Dirs
  BY <1>c DEF Dirs
<1> HIDE DEF items, n, name, content
<1>4. \A i \in 1 .. n : items[i].dir \in Dirs /\ items[i].dir[1] = name(i)
  <2> TAKE i \in 1 .. n
  <2>2. <<name(i), content(i)>> \in Dirs /\ <<name(i)>> \in Dirs
    BY <1>d
  <2>3. items[i].dir = <<name(i), content(i)>> \/ items[i].dir = <<name(i)>>
    BY <1>3
  <2>4. QED
    BY <2>2, <2>3
<1>5. items \in Seq(Items)
  <2>1. ASSUME NEW i \in 1 .. n PROVE items[i] \in Items
    <3>1. order[i] \in Skills /\ content(i) \in Contents /\ items[i].dir \in Dirs
      BY <1>4, <1>c
    <3>2. items[i] = [skill |-> order[i], content |-> content(i), dir |-> items[i].dir]
      BY <1>3
    <3>3. QED
      BY <3>1, <3>2 DEF Items
  <2>2. items \in [1 .. n -> Items]
    BY <1>3, <2>1 DEF items, Placed
  <2>3. QED
    BY <1>2, <2>2
<1>6. ASSUME NEW i \in 1 .. n, NEW j \in 1 .. n, i < j, items[i].dir = items[j].dir
      PROVE  content(i) = content(j)
  <2>1. name(i) = name(j)
    BY <1>4, <1>6
  <2>2. items[j].dir = <<name(j), content(j)>>
    <3>1. i \in 1 .. j - 1
      BY <1>2, <1>6
    <3>2. QED
      BY <1>3, <2>1, <3>1
  <2>3. items[i].dir = <<name(i), content(i)>> \/ items[i].dir = <<name(i)>>
    BY <1>3
  <2>4. QED
    BY <1>6, <2>2, <2>3
<1>e. \A i \in 1 .. n : items[i].content = content(i)
  BY <1>3
<1>7. \A i, j \in 1 .. n : items[i].dir = items[j].dir => items[i].content = items[j].content
  <2> SUFFICES ASSUME NEW i \in 1 .. n, NEW j \in 1 .. n, items[i].dir = items[j].dir
               PROVE  content(i) = content(j)
    BY <1>e
  <2>1. CASE i < j
    BY <1>6, <2>1
  <2>2. CASE j < i
    BY <1>6, <2>2
  <2>3. CASE i = j
    BY <2>3
  <2>4. i \in Int /\ j \in Int
    BY <1>2
  <2>5. QED
    BY <2>1, <2>2, <2>3, <2>4
<1>8. Filling(items, want, dirs)
  <2>1. ASSUME NEW i \in DOMAIN items
        PROVE  /\ items[i].skill \in DOMAIN want /\ items[i].content = want[items[i].skill]
               /\ items[i].dir[1] = NameOf[items[i].skill]
    <3>1. i \in 1 .. n /\ items[i].skill = order[i] /\ items[i].content = content(i)
      BY <1>3
    <3>2. /\ content(i) = want[order[i]] /\ name(i) = NameOf[order[i]]
          /\ order[i] \in DOMAIN want /\ items[i].dir[1] = name(i)
      BY <1>4, <1>c, <3>1
    <3>3. QED
      BY <3>1, <3>2
  <2>2. \A s \in DOMAIN want : \E i \in DOMAIN items : items[i].skill = s
    BY <1>2, <1>3
  <2>3. QED
    BY <1>3, <1>7, <2>1, <2>2 DEF Filling
<1>9. QED
  BY <1>5, <1>8 DEF items

\* One item is put into its directory.
LEMMA ItemFills ==
  ASSUME NEW items \in Seq(Items), items # <<>>, NEW want, NEW dirs, Filling(items, want, dirs)
  PROVE  LET item == Head(items) IN
         /\ item.content \in Contents /\ Tail(items) \in Seq(Items)
         /\ Filling(Tail(items), want, Installed(dirs, item))
<1> DEFINE item == Head(items)
           rest == Tail(items)
           after == Installed(dirs, item)
<1>1. /\ Len(items) \in Nat \ {0} /\ DOMAIN items = 1 .. Len(items) /\ item = items[1]
      /\ rest \in Seq(Items) /\ Len(rest) = Len(items) - 1 /\ DOMAIN rest = 1 .. Len(rest)
      /\ \A i \in DOMAIN rest : rest[i] = items[i + 1]
  BY EmptySeq
<1>2. \A i \in DOMAIN rest : i + 1 \in DOMAIN items /\ rest[i] = items[i + 1]
  BY <1>1
<1>3. 1 \in DOMAIN items /\ \A i \in DOMAIN items : i = 1 \/ (i - 1 \in DOMAIN rest /\ rest[i - 1] = items[i])
  BY <1>1
<1>4. item \in Items
  BY <1>1
<1>5. /\ DOMAIN after = {item.dir} \cup DOMAIN dirs
      /\ after[item.dir] = item.content
      /\ \A d \in DOMAIN dirs : d # item.dir => after[d] = dirs[d]
  BY DEF Installed
<1> HIDE DEF item, rest, after
<1>6. \A i \in DOMAIN rest :
        /\ rest[i].skill \in DOMAIN want /\ rest[i].content = want[rest[i].skill]
        /\ rest[i].dir[1] = NameOf[rest[i].skill]
        /\ rest[i].dir = item.dir => rest[i].content = item.content
  <2>1. item = items[1]
    BY <1>1
  <2>2. QED
    BY <1>2, <1>3, <2>1 DEF Filling
<1>7. \A i, j \in DOMAIN rest : rest[i].dir = rest[j].dir => rest[i].content = rest[j].content
  BY <1>2 DEF Filling
<1>8. /\ item.skill \in DOMAIN want /\ item.content = want[item.skill]
      /\ item.dir[1] = NameOf[item.skill]
  BY <1>1, <1>3 DEF Filling
<1>9. ASSUME NEW s \in DOMAIN want
      PROVE  \/ \E i \in DOMAIN rest : rest[i].skill = s
             \/ \E d \in DOMAIN after :
                  /\ d[1] = NameOf[s] /\ after[d] = want[s]
                  /\ \A i \in DOMAIN rest : rest[i].dir = d => rest[i].content = want[s]
  <2>1. CASE item.skill = s
    BY <1>5, <1>6, <1>8, <2>1
  <2>2. ASSUME NEW i \in DOMAIN items, items[i].skill = s, item.skill # s
        PROVE  \E j \in DOMAIN rest : rest[j].skill = s
    <3>1. i # 1
      BY <1>1, <2>2
    <3>2. QED
      BY <1>3, <2>2, <3>1
  <2>3. ASSUME NEW d \in DOMAIN dirs, d[1] = NameOf[s], dirs[d] = want[s],
               \A i \in DOMAIN items : items[i].dir = d => items[i].content = want[s]
        PROVE  /\ d \in DOMAIN after /\ after[d] = want[s]
               /\ \A i \in DOMAIN rest : rest[i].dir = d => rest[i].content = want[s]
    <3>1. item.dir = d => item.content = want[s]
      BY <1>1, <1>3, <2>3
    <3>2. QED
      BY <1>2, <1>5, <2>3, <3>1
  <2>4. QED
    BY <2>1, <2>2, <2>3 DEF Filling
<1>10. Filling(rest, want, after)
  BY <1>6, <1>7, <1>9 DEF Filling
<1>11. QED
  BY <1>1, <1>4, <1>10 DEF Items, item, rest, after

\* A step of one run that changes nothing else but the caches.
LEMMA RunMoves ==
  ASSUME SkillInv, NEW r \in Runs, NEW t \in RunRows, run' = [run EXCEPT ![r] = t],
         RunOk(skills, latest, versions, t, home'[r]),
         DOMAIN home' = DOMAIN home, \A k \in Runs \ {r} : home'[k] = home[k],
         UNCHANGED <<registryVars, bindingVars, pc>>,
         count' \in [requests : Nat, roles : Nat, faults : Nat]
  PROVE  SkillInv'
<1> USE DEF registryVars, bindingVars
<1>1. /\ run' \in [Runs -> RunRows]
      /\ \A k \in Runs : run'[k] = IF k = r THEN t ELSE run[k]
  BY Put DEF SkillInv, SkillTypes
<1>2. SkillTypes'
  BY <1>1 DEF SkillInv, SkillTypes, RegistryTypes
<1>3. Grows
  BY DEF Grows
<1>4. Founded(latest', versions', packages')
  BY DEF SkillInv
<1>5. QED
  BY <1>1, <1>2, <1>3, <1>4, Kept

LEMMA ResolveKeeps ==
  ASSUME SkillInv, NEW r \in Runs, StartRun(r) \/ RecoverRun(r)
  PROVE  SkillInv'
<1>1. UNCHANGED <<registryVars, bindingVars, pc, home, cache, count>> /\ run[r] \in RunRows
  BY DEF StartRun, RecoverRun, SkillInv, SkillTypes
<1>2. CASE Resolve(r)
  <2> DEFINE t == [NotStarted EXCEPT !.at = "bindings", !.role = role]
  <2>1. role \in Nat /\ "bindings" \in RunPlaces
    BY DEF SkillInv, SkillTypes, RunPlaces
  <2>2. t \in RunRows /\ t.at = "bindings"
    BY <2>1, NotStartedIs DEF RunRows
  <2>3. run' = [run EXCEPT ![r] = t]
    BY <1>2 DEF Resolve
  <2> HIDE DEF t
  <2>4. RunOk(skills, latest, versions, t, home'[r])
    BY <2>2 DEF RunOk
  <2>5. QED
    BY <1>1, <2>2, <2>3, <2>4, CountUp, RunMoves
<1>3. CASE run' = [run EXCEPT ![r].at = "failed"]
  <2> DEFINE t == [run[r] EXCEPT !.at = "failed"]
  <2>1. "failed" \in RunPlaces
    BY DEF RunPlaces
  <2>2. t \in RunRows /\ t.at = "failed"
    BY <1>1, <2>1 DEF RunRows
  <2>3. run' = [run EXCEPT ![r] = t]
    BY <1>3
  <2> HIDE DEF t
  <2>4. RunOk(skills, latest, versions, t, home'[r])
    BY <2>2 DEF RunOk
  <2>5. QED
    BY <1>1, <2>2, <2>3, <2>4, CountUp, RunMoves
<1>4. QED
  BY <1>2, <1>3 DEF StartRun, RecoverRun

LEMMA ReadBindingsKeeps ==
  ASSUME SkillInv, NEW r \in Runs, ReadBindings(r)
  PROVE  SkillInv'
<1> DEFINE rows == {b \in bindings : b.role = run[r].role /\ b.policy # "disabled"}
           D == {b.skill : b \in rows}
           bound == [s \in D |-> (CHOOSE b \in rows : b.skill = s).policy]
           t == [run[r] EXCEPT !.at = "skills", !.bound = bound]
<1>1. run \in [Runs -> RunRows] /\ "skills" \in RunPlaces
  BY DEF SkillInv, SkillTypes, RunPlaces
<1>2. run' = [run EXCEPT ![r] = t]
  BY <1>1 DEF ReadBindings
<1>3. \A b \in rows : /\ b.skill \in Skills /\ b.policy \in Policies /\ b.policy # "disabled"
                      /\ Follows(skills, latest, versions, b.skill, b.policy)
  BY DEF SkillInv, SkillTypes, BindingRows
<1> HIDE DEF rows
<1>4. ASSUME NEW s \in D
      PROVE  /\ s \in Skills /\ bound[s] \in Policies /\ bound[s] # "disabled"
             /\ Follows(skills, latest, versions, s, bound[s])
  <2>1. PICK b \in rows : b.skill = s
    BY <1>4
  <2> DEFINE c == CHOOSE k \in rows : k.skill = s
  <2>2. c \in rows /\ c.skill = s
    BY <2>1
  <2>3. bound[s] = c.policy
    BY <1>4
  <2> HIDE DEF c
  <2>4. QED
    BY <1>3, <2>2, <2>3
<1>5. DOMAIN bound = D /\ bound \in OfSkills(Policies)
  <2>1. bound \in [D -> Policies]
    BY <1>4
  <2>2. D \in SUBSET Skills
    BY <1>3
  <2>3. QED
    BY <2>1, <2>2 DEF OfSkills
<1> HIDE DEF bound, D
<1>6. t \in RunRows /\ t.at = "skills" /\ t.bound = bound
  BY <1>1, <1>5 DEF RunRows
<1> HIDE DEF t
<1>7. RunOk(skills, latest, versions, t, home'[r])
  BY <1>4, <1>5, <1>6 DEF RunOk
<1>8. QED
  BY <1>2, <1>6, <1>7, CountUp, RunMoves DEF ReadBindings

\* Every skill of the list is found, with a version.
LEMMA ReadSkillsKeeps ==
  ASSUME SkillInv, NEW r \in Runs, ReadSkills(r)
  PROVE  SkillInv'
<1> DEFINE bound == run[r].bound
           want == [s \in DOMAIN bound |-> IF bound[s] = "latest" THEN latest[s] ELSE bound[s]]
           t == [run[r] EXCEPT !.at = "versions", !.want = want]
<1>1. run[r] \in RunRows /\ bound \in OfSkills(Policies) /\ "versions" \in RunPlaces
  BY DEF SkillInv, SkillTypes, RunPlaces, RunRows
<1>2. ASSUME NEW s \in DOMAIN bound
      PROVE  s \in skills /\ s \in Skills /\ want[s] \in versions[s] /\ want[s] \in Contents
  <2>1. bound[s] # "disabled" /\ Follows(skills, latest, versions, s, bound[s])
    BY <1>2 DEF SkillInv, RunOk, ReadSkills
  <2>2. s \in Skills /\ bound[s] \in Policies
    BY <1>1, <1>2, OfSkillsIs
  <2>3. versions[s] \subseteq Contents /\ (latest[s] # None => latest[s] \in versions[s])
    BY <2>2 DEF SkillInv, SkillTypes, RegistryTypes, Founded
  <2>4. CASE bound[s] = "latest"
    BY <1>2, <2>1, <2>2, <2>3, <2>4 DEF Follows
  <2>5. CASE bound[s] # "latest"
    BY <1>2, <2>1, <2>2, <2>3, <2>5 DEF Follows, Policies
  <2>6. QED
    BY <2>4, <2>5
<1>3. run' = [run EXCEPT ![r] = t]
  <2>1. \A s \in DOMAIN bound : s \in skills /\ want[s] # None
    BY <1>2, NoneIsNoContent
  <2>2. run' = [run EXCEPT ![r].at = "versions", ![r].want = want]
    BY <2>1 DEF ReadSkills
  <2>3. QED
    BY <2>2 DEF SkillInv, SkillTypes
<1>4. DOMAIN want = DOMAIN bound /\ want \in OfSkills(Contents)
  <2>1. want \in [DOMAIN bound -> Contents] /\ DOMAIN bound \in SUBSET Skills
    BY <1>2
  <2>2. QED
    BY <2>1 DEF OfSkills
<1> HIDE DEF want
<1>5. t \in RunRows /\ t.at = "versions" /\ t.want = want
  BY <1>1, <1>4 DEF RunRows
<1> HIDE DEF t
<1>6. RunOk(skills, latest, versions, t, home'[r])
  BY <1>2, <1>4, <1>5 DEF RunOk
<1>7. QED
  BY <1>3, <1>5, <1>6, CountUp, RunMoves DEF ReadSkills

LEMMA ReadVersionsKeeps ==
  ASSUME SkillInv, NEW r \in Runs, NEW order \in SetToSeqs(DOMAIN run[r].want),
         ReadVersions(r, order)
  PROVE  SkillInv'
<1> DEFINE want == run[r].want
           items == Placed(order, want)
           t == [run[r] EXCEPT !.at = "open", !.items = items]
<1>1. run[r] \in RunRows /\ want \in OfSkills(Contents) /\ "open" \in RunPlaces
  BY DEF SkillInv, SkillTypes, RunPlaces, RunRows
<1>2. \A s \in DOMAIN want : want[s] \in versions[s]
  BY DEF SkillInv, RunOk, ReadVersions
<1>3. run' = [run EXCEPT ![r] = t]
  <2>1. run' = [run EXCEPT ![r].at = "open", ![r].items = items]
    BY <1>2 DEF ReadVersions
  <2>2. QED
    BY <2>1 DEF SkillInv, SkillTypes
<1>4. items \in Seq(Items) /\ Filling(items, want, home'[r])
  BY <1>1, PlacedFills
<1> HIDE DEF items
<1>5. t \in RunRows /\ t.at = "open" /\ t.want = want /\ t.items = items
  BY <1>1, <1>4 DEF RunRows
<1> HIDE DEF t
<1>6. RunOk(skills, latest, versions, t, home'[r])
  BY <1>2, <1>4, <1>5 DEF RunOk
<1>7. QED
  BY <1>3, <1>5, <1>6, CountUp, RunMoves DEF ReadVersions

LEMMA ApplyItemKeeps ==
  ASSUME SkillInv, NEW r \in Runs, ApplyItem(r)
  PROVE  SkillInv'
<1> DEFINE items == run[r].items
           item == Head(items)
           dirs == Installed(home[r], item)
<1>1. /\ run[r] \in RunRows /\ items \in Seq(Items) /\ items # <<>> /\ DOMAIN home = Runs
      /\ Filling(items, run[r].want, home[r])
      /\ \A s \in DOMAIN run[r].want : run[r].want[s] \in versions[s]
      /\ run \in [Runs -> RunRows]
  BY DEF SkillInv, SkillTypes, RunRows, RunOk, ApplyItem
<1>2. UNCHANGED <<registryVars, bindingVars, pc, count>>
  BY DEF ApplyItem
<1>3. CASE run' = [run EXCEPT ![r].at = "failed"] /\ UNCHANGED home
  <2> DEFINE t == [run[r] EXCEPT !.at = "failed"]
  <2>1. "failed" \in RunPlaces
    BY DEF RunPlaces
  <2>2. t \in RunRows /\ t.at = "failed"
    BY <1>1, <2>1 DEF RunRows
  <2>3. run' = [run EXCEPT ![r] = t]
    BY <1>3
  <2> HIDE DEF t
  <2>4. RunOk(skills, latest, versions, t, home'[r])
    BY <2>2 DEF RunOk
  <2>5. QED
    BY <1>2, <1>3, <2>2, <2>3, <2>4, CountUp, RunMoves
<1>4. CASE home' = [home EXCEPT ![r] = dirs] /\ run' = [run EXCEPT ![r].items = Tail(items)]
  <2> DEFINE rest == Tail(items)
             t == [run[r] EXCEPT !.items = rest]
  <2>1. rest \in Seq(Items) /\ Filling(rest, run[r].want, dirs)
    BY <1>1, ItemFills
  <2>2. run' = [run EXCEPT ![r] = t]
    BY <1>1, <1>4
  <2>3. /\ home'[r] = dirs /\ DOMAIN home' = DOMAIN home
        /\ \A k \in Runs \ {r} : home'[k] = home[k]
    BY <1>1, <1>4
  <2> HIDE DEF rest, dirs
  <2>4. t \in RunRows /\ t.at = "open" /\ t.want = run[r].want /\ t.items = rest
    BY <1>1, <2>1 DEF RunRows, ApplyItem
  <2> HIDE DEF t
  <2>5. RunOk(skills, latest, versions, t, home'[r])
    BY <1>1, <2>1, <2>3, <2>4 DEF RunOk
  <2>6. QED
    BY <1>2, <2>2, <2>3, <2>4, <2>5, CountUp, RunMoves
<1>5. QED
  BY <1>3, <1>4 DEF ApplyItem

LEMMA StartAgentKeeps ==
  ASSUME SkillInv, NEW r \in Runs, StartAgent(r)
  PROVE  SkillInv'
<1> DEFINE t == [run[r] EXCEPT !.at = "running"]
<1>1. /\ run \in [Runs -> RunRows] /\ run[r].items = <<>> /\ "running" \in RunPlaces
      /\ Filling(run[r].items, run[r].want, home[r])
  BY DEF SkillInv, SkillTypes, RunPlaces, RunOk, StartAgent
<1>2. t \in RunRows /\ t.at = "running" /\ t.want = run[r].want
  BY <1>1 DEF RunRows
<1>3. run' = [run EXCEPT ![r] = t]
  BY <1>1 DEF StartAgent
<1> HIDE DEF t
<1>4. \A s \in DOMAIN run[r].want :
        \E d \in DOMAIN home[r] : d[1] = NameOf[s] /\ home[r][d] = run[r].want[s]
  <2>1. DOMAIN run[r].items = {}
    BY <1>1
  <2>2. QED
    BY <1>1, <2>1 DEF Filling
<1>5. RunOk(skills, latest, versions, t, home'[r])
  BY <1>2, <1>4 DEF RunOk, StartAgent
<1>6. QED
  BY <1>2, <1>3, <1>5, CountUp, RunMoves DEF StartAgent

LEMMA StrandedOk ==
  ASSUME NEW t \in RunRows, NEW K, NEW l, NEW v, NEW dirs
  PROVE  LET u == [t EXCEPT !.at = "stranded"] IN u \in RunRows /\ RunOk(K, l, v, u, dirs)
<1>1. "stranded" \in RunPlaces
  BY DEF RunPlaces
<1>2. [t EXCEPT !.at = "stranded"] \in RunRows /\ [t EXCEPT !.at = "stranded"].at = "stranded"
  BY <1>1 DEF RunRows
<1>3. QED
  BY <1>2 DEF RunOk

LEMMA AgentExitKeeps ==
  ASSUME SkillInv, NEW r \in Runs, AgentExit(r)
  PROVE  SkillInv'
<1> DEFINE t == [run[r] EXCEPT !.at = "stranded"]
<1>1. run[r] \in RunRows /\ run' = [run EXCEPT ![r] = t]
  BY DEF AgentExit, SkillInv, SkillTypes
<1>2. t \in RunRows /\ RunOk(skills, latest, versions, t, home'[r])
  BY <1>1, StrandedOk
<1> HIDE DEF t
<1>3. QED
  BY <1>1, <1>2, CountUp, RunMoves DEF AgentExit

LEMMA BackendCrashKeeps ==
  ASSUME SkillInv, BackendCrash
  PROVE  SkillInv'
<1>1. /\ UNCHANGED <<registryVars, bindingVars, home>>
      /\ \A q \in Requests : pc'[q] = Rest
      /\ pc' = [q \in Requests |-> Rest]
      /\ run' = [r \in Runs |-> IF run[r].at \in Resolving
                                THEN [run[r] EXCEPT !.at = "stranded"] ELSE run[r]]
  BY DEF BackendCrash
<1>2. pc' \in [Requests -> RequestRows]
  BY <1>1, RestIs
<1>3. ASSUME NEW r \in Runs
      PROVE  /\ run'[r] \in RunRows
             /\ \/ run'[r] = run[r] /\ home'[r] = home[r]
                \/ RunOk(skills', latest', versions', run'[r], home'[r])
  <2>1. run[r] \in RunRows
    BY DEF SkillInv, SkillTypes
  <2>2. CASE run'[r] = run[r]
    BY <1>1, <2>1, <2>2
  <2>3. CASE run'[r] = [run[r] EXCEPT !.at = "stranded"]
    BY <2>1, <2>3, StrandedOk
  <2>4. QED
    BY <1>1, <2>2, <2>3
<1>4. run' \in [Runs -> RunRows]
  BY <1>1, <1>3
<1>5. SkillTypes'
  BY <1>1, <1>2, <1>4, CountUp
     DEF BackendCrash, registryVars, bindingVars, SkillInv, SkillTypes, RegistryTypes
<1>6. Grows /\ Founded(latest', versions', packages')
  BY <1>1 DEF registryVars, Grows, SkillInv
<1>7. RequestOk(skills', latest', versions', packages', Rest)
  BY RestIs, RestOk
<1>8. QED
  BY <1>1, <1>3, <1>5, <1>6, <1>7, Kept DEF bindingVars

LEMMA UpstreamKeeps ==
  ASSUME SkillInv, NEW s \in Skills, NEW c \in Contents, Upstream(s, c)
  PROVE  SkillInv'
<1>1. SkillTypes'
  BY CountUp DEF Upstream, bindingVars, runVars, SkillInv, SkillTypes, RegistryTypes
<1>2. Grows /\ Founded(latest', versions', packages')
  BY DEF Upstream, Grows, SkillInv
<1>3. QED
  BY <1>1, <1>2, Kept DEF Upstream, bindingVars, runVars

-----------------------------------------------------------------------------
(* The specification.                                                        *)

LEMMA SkillStarts == SkillInit => SkillInv
<1> SUFFICES ASSUME SkillInit PROVE SkillInv
  OBVIOUS
<1>1. pc \in [Requests -> RequestRows] /\ \A q \in Requests : pc[q] = Rest
  BY RestIs DEF SkillInit
<1>2. run \in [Runs -> RunRows] /\ \A r \in Runs : run[r] = NotStarted
  BY NotStartedIs DEF SkillInit
<1>3. SkillTypes
  BY <1>1, <1>2 DEF SkillInit, SkillTypes, RegistryTypes
<1>4. Founded(latest, versions, packages) /\ bindings = {}
  BY DEF SkillInit, Founded
<1>5. \A q \in Requests : RequestOk(skills, latest, versions, packages, pc[q])
  BY <1>1, RestIs, RestOk
<1>6. \A r \in Runs : RunOk(skills, latest, versions, run[r], home[r])
  BY <1>2, NotStartedIs DEF RunOk
<1>7. QED
  BY <1>3, <1>4, <1>5, <1>6 DEF SkillInv

LEMMA SkillStands ==
  ASSUME SkillInv, UNCHANGED skillVars
  PROVE  SkillInv'
<1> USE DEF skillVars, registryVars, bindingVars, runVars
<1>1. SkillTypes'
  BY DEF SkillInv, SkillTypes, RegistryTypes
<1>2. Grows /\ Founded(latest', versions', packages')
  BY DEF Grows, SkillInv
<1>3. QED
  BY <1>1, <1>2, Kept

LEMMA SkillSteps == SkillInv /\ [SkillNext]_skillVars => SkillInv'
<1> SUFFICES ASSUME SkillInv, [SkillNext]_skillVars PROVE SkillInv'
  OBVIOUS
<1>1. ASSUME NEW q \in Requests, NEW s \in Skills, Import(q, s) \/ UpdateNext(q, s)
      PROVE  SkillInv'
  BY <1>1, ImportKeeps, UpdateNextKeeps
<1>2. ASSUME NEW q \in Requests, NEW s \in Skills, NEW c \in Contents, PublishRead(q, s, c)
      PROVE  SkillInv'
  BY <1>2, PublishReadKeeps
<1>3. ASSUME NEW q \in Requests, NEW publish \in BOOLEAN, UpdateAll(q, publish)
      PROVE  SkillInv'
  BY <1>3, UpdateAllKeeps
<1>4. ASSUME NEW q \in Requests,
             \/ LookForPackage(q) \/ CopyPackage(q) \/ PackageCopied(q)
             \/ ImportCommit(q) \/ UpdateCommit(q) \/ StoreFails(q) \/ PublishWrite(q)
      PROVE  SkillInv'
  BY <1>4, LookForPackageKeeps, CopyKeeps, CommitKeeps, StoreFailsKeeps, PublishWriteKeeps
<1>5. ASSUME NEW q \in Requests,
             (\E w \in Lists : PutRead(q, w)) \/ PutDelete(q) \/ PutCommit(q)
      PROVE  SkillInv'
  BY <1>5, PutReadKeeps, PutDeleteKeeps, PutCommitKeeps
<1>6. ASSUME (\E found \in SUBSET Skills : CheckUpdates(found)) \/ CreateRole \/ DeleteRole
      PROVE  SkillInv'
  BY <1>6, CheckUpdatesKeeps, CreateRoleKeeps, DeleteRoleKeeps
<1>7. ASSUME NEW r \in Runs, StartRun(r) \/ RecoverRun(r) \/ ReadBindings(r) \/ ReadSkills(r)
      PROVE  SkillInv'
  BY <1>7, ResolveKeeps, ReadBindingsKeeps, ReadSkillsKeeps
<1>8. ASSUME NEW r \in Runs, NEW order \in SetToSeqs(DOMAIN run[r].want), ReadVersions(r, order)
      PROVE  SkillInv'
  BY <1>8, ReadVersionsKeeps
<1>9. ASSUME NEW r \in Runs, ApplyItem(r) \/ StartAgent(r) \/ AgentExit(r)
      PROVE  SkillInv'
  BY <1>9, ApplyItemKeeps, StartAgentKeeps, AgentExitKeeps
<1>10. ASSUME (\E s \in Skills, c \in Contents : Upstream(s, c)) \/ BackendCrash
       PROVE  SkillInv'
  BY <1>10, UpstreamKeeps, BackendCrashKeeps
<1>11. CASE UNCHANGED skillVars
  BY <1>11, SkillStands
<1>12. QED
  BY <1>1, <1>2, <1>3, <1>4, <1>5, <1>6, <1>7, <1>8, <1>9, <1>10, <1>11 DEF SkillNext

LEMMA SkillHolds == SkillSpec => []SkillInv
BY SkillStarts, SkillSteps, PTL DEF SkillSpec

\* Whatever is imported, published, bound, removed or stopped between the reads of a
\* start, every skill of an accepted list is found with a version of it.
THEOREM StartsResolveHolds == SkillSpec => []StartsResolve
<1>1. SkillInv => StartsResolve
  BY DEF SkillInv, RunOk, StartsResolve
<1>2. QED
  BY <1>1, SkillHolds, PTL

\* The package of a version is there before the version, and stays: no run is sent to one
\* that is missing.
THEOREM DownloadableHolds == SkillSpec => []Downloadable
<1>1. SkillInv => Downloadable
  <2> SUFFICES ASSUME SkillInv, NEW r \in Runs, run[r].at = "open", NEW i \in DOMAIN run[r].items
               PROVE  packages[run[r].items[i].content] # "none"
    BY DEF Downloadable
  <2> DEFINE item == run[r].items[i]
             want == run[r].want
  <2>1. /\ item.skill \in DOMAIN want /\ item.content = want[item.skill]
        /\ want[item.skill] \in versions[item.skill]
    BY DEF SkillInv, RunOk, Filling
  <2>2. item.skill \in Skills
    <3>1. want \in OfSkills(Contents)
      BY DEF SkillInv, SkillTypes, RunRows
    <3>2. QED
      BY <2>1, <3>1, OfSkillsIs
  <2>3. QED
    BY <2>1, <2>2 DEF SkillInv, Founded
<1>2. QED
  BY <1>1, SkillHolds, PTL

\* An agent that runs has every skill of its role, whole and under its name, also when
\* names are the same, packages were half copied and homes are used again.
THEOREM AgentHasSkillsHolds == SkillSpec => []AgentHasSkills
<1>1. SkillInv => AgentHasSkills
  BY DEF SkillInv, RunOk, AgentHasSkills
<1>2. QED
  BY <1>1, SkillHolds, PTL
===============================================================================
