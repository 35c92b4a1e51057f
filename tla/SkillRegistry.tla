---------------------------- MODULE SkillRegistry ----------------------------
(***************************************************************************)
(* Skills: directories of instructions that are imported from skills.sh    *)
(* (routes/skills.ts), bound to a role (routes/roleSkillBindings.ts), and  *)
(* put into the home directory of an agent when a run of that role starts  *)
(* or is recovered.  A version is a content: its package is stored under   *)
(* its hash, by the backend and again by the cache of the acp-proxy.       *)
(*                                                                         *)
(* Nothing removes a skill, a version or a package.  An import with mode   *)
(* dry-run and the audit log change nothing that is read again.            *)
(***************************************************************************)
EXTENDS Naturals, Sequences, FiniteSets, SequencesExt

CONSTANTS
  Skills,       \* source keys: <owner>/<repo>@<skill>
  Contents,     \* what a skill can consist of; a content stands for its hash
  NameOf,       \* the name of a skill as a directory name (kebabCase)
  Requests,     \* requests of administrators that are handled at the same time
  Runs,
  Lists,        \* lists an administrator may ask for: skill -> policy
  None,
  MaxRequests, MaxRoles, MaxFaults   \* bounds

Policies == Contents \cup {"latest", "disabled"}

ASSUME SkillsAreFinite == IsFiniteSet(Skills)
ASSUME NoneIsNoContent == None \notin Contents
ASSUME NamesGiven == NameOf \in [Skills -> STRING]
ASSUME BoundsAreNumbers == MaxRequests \in Nat /\ MaxRoles \in Nat /\ MaxFaults \in Nat
ASSUME ListsAreLists ==
  \A w \in Lists : DOMAIN w \subseteq Skills /\ \A s \in DOMAIN w : w[s] \in Policies

VARIABLES
  upstream,   \* what skills.sh has: external
  skills,     \* the Skill rows
  versions,   \* SkillVersion: the contents imported of each skill
  latest,     \* Skill.latestVersionId
  packages,   \* the files of the backend's store: "none", "part" or "whole"
  offered,    \* updatesResult of the administrator's page: what it would update
  role,       \* the role of the project, with the key runs ask for; 0 if there is none
  bindings,   \* RoleSkillBinding: [role, skill, policy, put]
  pc,         \* what each request is in the middle of
  run,        \* the start or the recovery of each run
  home,       \* the skill directories of each run's home, which outlives the agent
  cache,      \* inputs-cache/zips of the proxy
  count       \* bounds: requests, roles and faults so far

registryVars == <<upstream, skills, versions, latest, packages, offered>>
bindingVars  == <<role, bindings>>
runVars      == <<run, home, cache>>
skillVars    == <<registryVars, bindingVars, pc, runVars, count>>

Rest == [at |-> "rest", kind |-> "none", skill |-> None, content |-> None, ids |-> {},
         publish |-> FALSE, role |-> 0, put |-> 0, list |-> <<>>, gone |-> {}]
NotStarted == [at |-> "none", role |-> 0, bound |-> <<>>, want |-> <<>>, items |-> <<>>]

SkillInit ==
  /\ upstream \in [Skills -> Contents]
  /\ skills = {} /\ versions = [s \in Skills |-> {}] /\ latest = [s \in Skills |-> None]
  /\ packages = [c \in Contents |-> "none"]
  /\ offered = {}
  /\ role = 1 /\ bindings = {}
  /\ pc = [q \in Requests |-> Rest]
  /\ run = [r \in Runs |-> NotStarted]
  /\ home = [r \in Runs |-> [d \in {} |-> None]]
  /\ cache = [c \in Contents |-> "none"]
  /\ count = [requests |-> 0, roles |-> 1, faults |-> 0]

At(q, place) == pc[q].at = place
Goto(q, place) == pc' = [pc EXCEPT ![q].at = place]

\* A request arrives.
Arrives(q) ==
  /\ At(q, "rest") /\ count.requests < MaxRequests
  /\ count' = [count EXCEPT !.requests = @ + 1]
Fault ==
  /\ count.faults < MaxFaults
  /\ count' = [count EXCEPT !.faults = @ + 1]
------------------------------------------------------------------------------
(* Importing and updating: POST /skills/import, check-updates and update.    *)

\* prepareSkillsShImport: the skill is fetched into a directory of its own and hashed.
Prepared(q, s, base) ==
  pc' = [pc EXCEPT ![q] = [base EXCEPT !.at = "prepared", !.skill = s,
                                       !.content = upstream[s]]]

Import(q, s) ==
  /\ Arrives(q)
  /\ Prepared(q, s, [Rest EXCEPT !.kind = "import"])
  /\ UNCHANGED <<registryVars, bindingVars, runVars>>

HasUpdate(s) == s \in skills /\ upstream[s] \notin versions[s]

\* Skills that cannot be fetched are reported as errors.
CheckUpdates(found) ==
  /\ found \subseteq {s \in Skills : HasUpdate(s)}
  /\ offered' = found
  /\ UNCHANGED <<upstream, skills, versions, latest, packages, bindingVars, pc, runVars, count>>

\* The page sends the skills of the last check that had an update.
UpdateAll(q, publish) ==
  /\ offered # {}
  /\ Arrives(q)
  /\ pc' = [pc EXCEPT ![q] = [Rest EXCEPT !.at = "update", !.kind = "update",
                                          !.ids = offered, !.publish = publish]]
  /\ UNCHANGED <<registryVars, bindingVars, runVars>>

\* A fetch that fails ends the whole request: it is outside the try of the loop.
UpdateNext(q, s) ==
  /\ At(q, "update") /\ s \in pc[q].ids
  /\ \/ Prepared(q, s, [pc[q] EXCEPT !.ids = @ \ {s}])
     \/ pc' = [pc EXCEPT ![q] = Rest]
  /\ UNCHANGED <<registryVars, bindingVars, runVars, count>>

\* Mutant: the package is left to be stored after the version.
PackageLater(q) ==
  /\ At(q, "prepared")
  /\ Goto(q, "stored")
  /\ UNCHANGED <<registryVars, bindingVars, runVars, count>>

\* putZipFile: what is there is taken for the package, whole or not.
LookForPackage(q) ==
  /\ At(q, "prepared")
  /\ Goto(q, IF packages[pc[q].content] = "none" THEN "copy" ELSE "stored")
  /\ UNCHANGED <<registryVars, bindingVars, runVars, count>>

\* copyFile empties the file before it fills it.
CopyPackage(q) ==
  /\ At(q, "copy")
  /\ packages' = [packages EXCEPT ![pc[q].content] = "part"]
  /\ Goto(q, "copying")
  /\ UNCHANGED <<upstream, skills, versions, latest, offered, bindingVars, runVars, count>>

PackageCopied(q) ==
  /\ At(q, "copying")
  /\ packages' = [packages EXCEPT ![pc[q].content] = "whole"]
  /\ Goto(q, "stored")
  /\ UNCHANGED <<upstream, skills, versions, latest, offered, bindingVars, runVars, count>>

\* The next skill of an update, or the answer.
NextSkill(q) ==
  pc' = [pc EXCEPT ![q] = IF @.ids = {} THEN Rest ELSE [@ EXCEPT !.at = "update"]]

\* A version is imported once; the first one of a skill is published with it.
ImportCommit(q) ==
  LET s == pc[q].skill  c == pc[q].content IN
  /\ At(q, "stored") /\ pc[q].kind = "import"
  /\ skills' = skills \cup {s}
  /\ versions' = [versions EXCEPT ![s] = @ \cup {c}]
  /\ latest' = [latest EXCEPT ![s] = IF @ = None /\ c \notin versions[s] THEN c ELSE @]
  /\ NextSkill(q)
  /\ UNCHANGED <<upstream, packages, offered, bindingVars, runVars, count>>

\* An update publishes only what it has itself imported, and only if it is asked to.
UpdateCommit(q) ==
  LET s == pc[q].skill  c == pc[q].content IN
  /\ At(q, "stored") /\ pc[q].kind = "update"
  /\ versions' = [versions EXCEPT ![s] = @ \cup {c}]
  /\ latest' = [latest EXCEPT ![s] = IF pc[q].publish /\ c \notin versions[s] THEN c ELSE @]
  /\ NextSkill(q)
  /\ UNCHANGED <<upstream, skills, packages, offered, bindingVars, runVars, count>>

\* The store or the transaction fails: two imports of one source may meet in its
\* unique keys.  An update goes on with its next skill.
StoreFails(q) ==
  /\ pc[q].at \in {"prepared", "stored"}
  /\ Fault
  /\ NextSkill(q)
  /\ UNCHANGED <<registryVars, bindingVars, runVars>>

\* publish-latest reads, and writes later.
PublishRead(q, s, c) ==
  /\ s \in skills /\ c \in versions[s] /\ c # latest[s]
  /\ Arrives(q)
  /\ pc' = [pc EXCEPT ![q] = [Rest EXCEPT !.at = "publish", !.kind = "publish",
                                          !.skill = s, !.content = c]]
  /\ UNCHANGED <<registryVars, bindingVars, runVars>>

PublishWrite(q) ==
  /\ At(q, "publish")
  /\ latest' = [latest EXCEPT ![pc[q].skill] = pc[q].content]
  /\ pc' = [pc EXCEPT ![q] = Rest]
  /\ UNCHANGED <<upstream, skills, versions, packages, offered, bindingVars, runVars, count>>
------------------------------------------------------------------------------
(* Roles and their lists.                                                    *)

CreateRole ==
  /\ role = 0 /\ count.roles < MaxRoles
  /\ count' = [count EXCEPT !.roles = @ + 1]
  /\ role' = count.roles + 1
  /\ UNCHANGED <<registryVars, bindings, pc, runVars>>

\* The bindings of a role go with it (onDelete: Cascade).
DeleteRole ==
  /\ role # 0 /\ count.roles < MaxRoles
  /\ bindings' = {b \in bindings : b.role # role}
  /\ role' = 0
  /\ UNCHANGED <<registryVars, pc, runVars, count>>

\* Mutant: a pinned version is not looked up.
AcceptableUnread(w) ==
  \A s \in DOMAIN w : s \in skills /\ (w[s] \in {"latest", "disabled"} => latest[s] # None)

\* What the PUT accepts of a list: skills that exist and have a latest version, and
\* pinned versions of the skill they are pinned for.
Acceptable(w) ==
  \A s \in DOMAIN w :
    /\ s \in skills
    /\ w[s] \in {"latest", "disabled"} => latest[s] # None
    /\ w[s] \in Contents => w[s] \in versions[s]

PutRead(q, w) ==
  /\ role # 0 /\ Acceptable(w)
  /\ Arrives(q)
  /\ pc' = [pc EXCEPT ![q] = [Rest EXCEPT !.at = "put", !.kind = "put", !.role = role,
                                          !.put = count.requests + 1, !.list = w]]
  /\ UNCHANGED <<registryVars, bindingVars, runVars>>

\* deleteMany removes the rows that were committed when it began: those of another
\* PUT that is still to be committed stay.
PutDelete(q) ==
  /\ At(q, "put")
  /\ pc' = [pc EXCEPT ![q].at = "replace",
                      ![q].gone = {b \in bindings : b.role = pc[q].role}]
  /\ UNCHANGED <<registryVars, bindingVars, runVars, count>>

\* createMany and the commit.  The unique key (role, skill) and the role's foreign key
\* are what the database checks; if they do not hold nothing is changed.
PutCommit(q) ==
  LET w    == pc[q].list
      kept == bindings \ pc[q].gone
      rows == {[role |-> pc[q].role, skill |-> s, policy |-> w[s], put |-> pc[q].put] :
                 s \in DOMAIN w}
      ok   == /\ w = <<>> \/ role = pc[q].role
              /\ ~\E b \in kept : b.role = pc[q].role /\ b.skill \in DOMAIN w IN
  /\ At(q, "replace")
  /\ bindings' = IF ok THEN kept \cup rows ELSE bindings
  /\ pc' = [pc EXCEPT ![q] = Rest]
  /\ UNCHANGED <<registryVars, role, runVars, count>>
------------------------------------------------------------------------------
(* The skills of a run, in a project that mounts them: three reads one after *)
(* the other, when a run of a task or of an issue starts (acpAgentExecutor,  *)
(* startIssueRun), and again when its agent is to be started anew            *)
(* (runRecovery).  The three copies of this code do the same.                *)

Resolving == {"bindings", "skills", "versions"}

Resolve(r) ==
  run' = [run EXCEPT ![r] = [NotStarted EXCEPT !.at = "bindings", !.role = role]]

StartRun(r) ==
  /\ run[r].at = "none"
  /\ Resolve(r)
  /\ UNCHANGED <<registryVars, bindingVars, pc, home, cache, count>>

\* The run was interrupted.  Without its role it gets no init, and the proxy refuses
\* to open it without (agentInputs missing).
RecoverRun(r) ==
  /\ run[r].at = "stranded"
  /\ IF role # 0 THEN Resolve(r) ELSE run' = [run EXCEPT ![r].at = "failed"]
  /\ UNCHANGED <<registryVars, bindingVars, pc, home, cache, count>>

ReadBindings(r) ==
  LET rows == {b \in bindings : b.role = run[r].role /\ b.policy # "disabled"} IN
  /\ run[r].at = "bindings"
  /\ run' = [run EXCEPT ![r].at = "skills",
       ![r].bound = [s \in {b.skill : b \in rows} |->
                       (CHOOSE b \in rows : b.skill = s).policy]]
  /\ UNCHANGED <<registryVars, bindingVars, pc, home, cache, count>>

\* "unresolved": the start of the run throws.
ReadSkills(r) ==
  LET bound == run[r].bound
      want  == [s \in DOMAIN bound |-> IF bound[s] = "latest" THEN latest[s] ELSE bound[s]] IN
  /\ run[r].at = "skills"
  /\ run' = IF \A s \in DOMAIN bound : s \in skills /\ want[s] # None
            THEN [run EXCEPT ![r].at = "versions", ![r].want = want]
            ELSE [run EXCEPT ![r].at = "unresolved"]
  /\ UNCHANGED <<registryVars, bindingVars, pc, home, cache, count>>

\* A directory for each skill: its name, and its hash as well if the name is taken.
\* The rows of one PUT are created at one time: their order is any order.
Placed(order, want) ==
  [i \in DOMAIN order |->
     [skill |-> order[i], content |-> want[order[i]],
      dir |-> IF \E j \in 1 .. i - 1 : NameOf[order[j]] = NameOf[order[i]]
              THEN <<NameOf[order[i]], want[order[i]]>> ELSE <<NameOf[order[i]]>>]]

\* The prompt goes to the proxy with what is to be put where.
ReadVersions(r, order) ==
  LET want == run[r].want IN
  /\ run[r].at = "versions"
  /\ run' = IF \A s \in DOMAIN want : want[s] \in versions[s]
            THEN [run EXCEPT ![r].at = "open", ![r].items = Placed(order, want)]
            ELSE [run EXCEPT ![r].at = "unresolved"]
  /\ UNCHANGED <<registryVars, bindingVars, pc, home, cache, count>>
------------------------------------------------------------------------------
(* The proxy opens the run: one item after the other.                        *)

\* The backend serves the file as it is, or answers 404.
Served(c) == packages[c]

\* downloadToFile: only an answer that has arrived entirely becomes a file of the cache.
Fetched(c) == IF cache[c] = "none" THEN Served(c) ELSE cache[c]

\* extractZipSafe: the directory of a zip is at its end, so a part of it is refused.
Unpacks(zip) == zip = "whole"

\* A package is unpacked beside its directory and then takes its place.
Installed(dirs, item) ==
  [d \in DOMAIN dirs \cup {item.dir} |-> IF d = item.dir THEN item.content ELSE dirs[d]]

\* Mutant: what cannot be unpacked is left out.
ApplyLenient(r) ==
  LET item == Head(run[r].items)  zip == Fetched(item.content) IN
  /\ run[r].at = "open" /\ run[r].items # <<>>
  /\ cache' = [cache EXCEPT ![item.content] = zip]
  /\ run' = [run EXCEPT ![r].items = Tail(@)]
  /\ home' = IF Unpacks(zip)
             THEN [home EXCEPT ![r] = Installed(home[r], item)] ELSE home
  /\ UNCHANGED <<registryVars, bindingVars, pc, count>>

\* A package that is missing (404) or cannot be unpacked makes the opening fail; the zip
\* stays cached.
ApplyItem(r) ==
  LET item == Head(run[r].items)  zip == Fetched(item.content) IN
  /\ run[r].at = "open" /\ run[r].items # <<>>
  /\ cache' = [cache EXCEPT ![item.content] = zip]
  /\ IF Unpacks(zip)
     THEN /\ home' = [home EXCEPT ![r] = Installed(home[r], item)]
          /\ run' = [run EXCEPT ![r].items = Tail(@)]
     ELSE /\ run' = [run EXCEPT ![r].at = "failed"]
          /\ UNCHANGED home
  /\ UNCHANGED <<registryVars, bindingVars, pc, count>>

StartAgent(r) ==
  /\ run[r].at = "open" /\ run[r].items = <<>>
  /\ run' = [run EXCEPT ![r].at = "running"]
  /\ UNCHANGED <<registryVars, bindingVars, pc, home, cache, count>>
------------------------------------------------------------------------------
(* What happens to them.                                                     *)

Upstream(s, c) ==
  /\ c # upstream[s]
  /\ Fault
  /\ upstream' = [upstream EXCEPT ![s] = c]
  /\ UNCHANGED <<skills, versions, latest, packages, offered, bindingVars, pc, runVars>>

\* The backend stops; a copy stays as far as it has come.  Its runs are recovered.
BackendCrash ==
  /\ Fault
  /\ pc' = [q \in Requests |-> Rest]
  /\ run' = [r \in Runs |-> IF run[r].at \in Resolving
                            THEN [run[r] EXCEPT !.at = "stranded"] ELSE run[r]]
  /\ UNCHANGED <<registryVars, bindingVars, home, cache>>

\* The agent exits, or the proxy stops: what was put into the home stays.
AgentExit(r) ==
  /\ run[r].at \in {"open", "running"}
  /\ Fault
  /\ run' = [run EXCEPT ![r].at = "stranded"]
  /\ UNCHANGED <<registryVars, bindingVars, pc, home, cache>>

SkillNext ==
  \/ \E q \in Requests :
       \/ \E s \in Skills : Import(q, s) \/ UpdateNext(q, s)
       \/ \E s \in Skills, c \in Contents : PublishRead(q, s, c)
       \/ \E publish \in BOOLEAN : UpdateAll(q, publish)
       \/ LookForPackage(q) \/ CopyPackage(q) \/ PackageCopied(q)
       \/ ImportCommit(q) \/ UpdateCommit(q) \/ StoreFails(q) \/ PublishWrite(q)
       \/ \E w \in Lists : PutRead(q, w)
       \/ PutDelete(q) \/ PutCommit(q)
  \/ \E found \in SUBSET Skills : CheckUpdates(found)
  \/ CreateRole \/ DeleteRole
  \/ \E r \in Runs :
       \/ StartRun(r) \/ RecoverRun(r) \/ ReadBindings(r) \/ ReadSkills(r)
       \/ \E order \in SetToSeqs(DOMAIN run[r].want) : ReadVersions(r, order)
       \/ ApplyItem(r) \/ StartAgent(r) \/ AgentExit(r)
  \/ \E s \in Skills, c \in Contents : Upstream(s, c)
  \/ BackendCrash

SkillSpec == SkillInit /\ [][SkillNext]_skillVars
------------------------------------------------------------------------------
(* Properties.                                                               *)

\* A list that was accepted stays resolvable: whatever is imported, published, bound
\* or removed between its reads, the start of a run does not fail for its skills.
StartsResolve == \A r \in Runs : run[r].at # "unresolved"

\* A run is never sent to a package that is not in the store: the package precedes the
\* version, also when the backend stops between the two.
Downloadable ==
  \A r \in Runs : run[r].at = "open" =>
    \A i \in DOMAIN run[r].items : packages[run[r].items[i].content] # "none"

\* An agent that runs has every skill of its role as it was resolved, each in a
\* directory of its own: half a package is never taken for a skill.
AgentHasSkills ==
  \A r \in Runs : run[r].at = "running" =>
    \A s \in DOMAIN run[r].want :
      \E d \in DOMAIN home[r] : d[1] = NameOf[s] /\ home[r][d] = run[r].want[s]
===============================================================================
