------------------------------ MODULE PromptCall ------------------------------
(***************************************************************************)
(* What the ACP tunnel promises to those who call it (acpTunnel.ts): a     *)
(* prompt is answered at most once, with its own result, and only after    *)
(* the agent has worked on it.  A call may fail at any time; the process   *)
(* that made it may be lost with it.                                       *)
(***************************************************************************)
CONSTANT Calls

VARIABLES
  answer,    \* answer[c]: what the caller of c was told
  finished   \* the calls whose work the agent has finished

vars == <<answer, finished>>

Answers == {"none", "pending", "ok", "failed", "lost"}

TypeOK == answer \in [Calls -> Answers] /\ finished \in SUBSET Calls

Init == answer = [c \in Calls |-> "none"] /\ finished = {}

Ask(c) ==
  /\ answer[c] = "none" /\ answer' = [answer EXCEPT ![c] = "pending"]
  /\ UNCHANGED finished

\* The agent may finish work its caller has given up on.
Work(c) ==
  /\ answer[c] # "none" /\ c \notin finished
  /\ finished' = finished \cup {c} /\ UNCHANGED answer

Answer(c) ==
  /\ answer[c] = "pending" /\ c \in finished
  /\ answer' = [answer EXCEPT ![c] = "ok"]
  /\ UNCHANGED finished

\* Several callers may fail in one step: they waited for the same thing.
Fail(S) ==
  /\ \A c \in S : answer[c] = "pending"
  /\ answer' = [c \in Calls |-> IF c \in S THEN "failed" ELSE answer[c]]
  /\ UNCHANGED finished

\* The process dies, and with it whoever was still waiting.
Lose ==
  /\ answer' = [c \in Calls |-> IF answer[c] = "pending" THEN "lost"
                                                        ELSE answer[c]]
  /\ UNCHANGED finished

Next ==
  \/ \E c \in Calls : Ask(c) \/ Work(c) \/ Answer(c)
  \/ \E S \in SUBSET Calls : Fail(S)
  \/ Lose

Spec == Init /\ [][Next]_vars
===============================================================================
