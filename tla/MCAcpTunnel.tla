----------------------------- MODULE MCAcpTunnel -----------------------------
(***************************************************************************)
(* The scenes in which TLC follows the tunnel of a run: a run that is      *)
(* started, resumed and controlled while its connection breaks, its agent  *)
(* exits, the backend stops or somebody cancels it; one whose user talks   *)
(* to it over HTTP while its sandbox is removed; and one over the          *)
(* browser's WebSocket while its proxy restarts.                           *)
(***************************************************************************)
EXTENDS AcpTunnel

MCScenes ==
  {[kinds |-> {"start", "resume", "control"}, left |-> 1,
    faults |-> {"drop", "crash", "cancel", "exit"}],
   [kinds |-> {"start", "chat"}, left |-> 1, faults |-> {"restart", "remove"}],
   [kinds |-> {"start", "ws"}, left |-> 1, faults |-> {"restart"}]}
==============================================================================
