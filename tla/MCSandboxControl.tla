-------------------------- MODULE MCSandboxControl --------------------------
(***************************************************************************)
(* The scenes in which TLC follows the sandboxes of a proxy, each with its *)
(* orders, what the world does besides, and a budget of both: one run and  *)
(* two on native sandboxes, containers and their repair, and pushes of a   *)
(* branch over a connection that breaks.                                   *)
(***************************************************************************)
EXTENDS SandboxControl
CONSTANTS r1, r2
OneRun == [provider |-> "native", workspace |-> "host", orders |-> {"open", "close", "stop", "remove", "ensure_running"},
           world |-> {"keepalive", "exit"}, runs |-> {r1}, budget |-> 4]
TwoRuns == [provider |-> "native", workspace |-> "host", orders |-> {"open", "remove", "prune_orphans", "report_inventory", "gc"},
            world |-> {"inventory"}, runs |-> {r1, r2}, budget |-> 3]
Containers == [provider |-> "container", workspace |-> "guest", orders |-> {"open", "stop", "remove", "inspect", "prune_orphans"},
               world |-> {}, runs |-> {r1}, budget |-> 3]
Repairs == [provider |-> "container", workspace |-> "guest", orders |-> {"open", "close", "ensure_running"}, world |-> {"exit", "keepalive"},
            runs |-> {r1}, budget |-> 3]
PushesOf(provider, workspace, n) ==
  [provider |-> provider, workspace |-> workspace, orders |-> {"open", "git_push", "remove_workspace"},
   world |-> {"drop"}, runs |-> {r1}, budget |-> n]
Scenes == {OneRun, TwoRuns, Containers, Repairs, PushesOf("native", "host", 4),
           PushesOf("container", "host", 3), PushesOf("container", "guest", 2)}
=============================================================================
