---------------------------- MODULE MCGitHubSync ----------------------------
(***************************************************************************)
(* Two issues with webhooks and imports, and two pull requests, each list  *)
(* read in pages of one; GitHub's clock lags by as much as the overlap.    *)
(***************************************************************************)
EXTENDS GitHubSync

CONSTANT h1

MCItems == {1, 2}
MCHands == {h1}

SyncScene(pulls, handlers, webhook, behind, lastTime, n) ==
  [pulls |-> pulls, handlers |-> handlers, webhook |-> webhook, behind |-> behind,
   lastTime |-> lastTime, changes |-> n, faults |-> 1]

MCSyncScenes ==
  {SyncScene({}, {h1}, TRUE, 1, 2, 2),
   SyncScene({}, {}, FALSE, 1, 3, 3),
   SyncScene({2}, {h1}, FALSE, 0, 2, 2),
   SyncScene({1, 2}, {}, FALSE, 1, 3, 3)}
=============================================================================
