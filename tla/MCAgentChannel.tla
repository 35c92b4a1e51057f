--------------------------- MODULE MCAgentChannel ---------------------------
(***************************************************************************)
(* The scenes in which TLC follows the channel to an agent: one that asks  *)
(* users, exits and is closed; one that asks for files and commands; one   *)
(* that leaves its stdin unread; and the entrypoint of a container.        *)
(***************************************************************************)
EXTENDS AgentChannel
Scenes == {[provider |-> "host_process", asks |-> {"permission"}, troubles |-> {"exit", "close"}],
           [provider |-> "bwrap", asks |-> {"file", "wait", "kill"}, troubles |-> {}],
           [provider |-> "host_process", asks |-> {"permission"}, troubles |-> {"close", "full"}],
           [provider |-> "container", asks |-> {"permission"}, troubles |-> {"exit"}]}
=============================================================================
