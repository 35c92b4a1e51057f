---------------------------- MODULE MCIssueFlow ----------------------------
(***************************************************************************)
(* The scenes in which TLC follows an issue: two handlers at once with a   *)
(* policy that asks for create_pr, and with crashes; two at once with none;*)
(* and one handler at a time, over several runs and pull requests.         *)
(***************************************************************************)
EXTENDS IssueFlow

CONSTANTS h1, h2

MCHandlers == {h1, h2}

MCScenes ==
  {[createApproval |-> TRUE, overlap |-> TRUE, handlers |-> {h1, h2},
    world |-> {"crash", "merged", "closed"},
    maxRuns |-> 1, maxApprovals |-> 2, maxPrs |-> 1, events |-> 4],
   [createApproval |-> FALSE, overlap |-> TRUE, handlers |-> {h1, h2},
    world |-> {"initFails"},
    maxRuns |-> 1, maxApprovals |-> 2, maxPrs |-> 1, events |-> 4],
   [createApproval |-> FALSE, overlap |-> FALSE, handlers |-> {h1},
    world |-> {"merged", "closed"},
    maxRuns |-> 2, maxApprovals |-> 3, maxPrs |-> 2, events |-> 5]}
=============================================================================
