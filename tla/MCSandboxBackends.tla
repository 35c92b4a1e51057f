------------------------- MODULE MCSandboxBackends -------------------------
(* Two instances, and the calls and instances interchangeable.             *)
EXTENDS SandboxBackends, TLC
Interchangeable == Permutations(Calls) \cup Permutations(Insts)
=============================================================================
