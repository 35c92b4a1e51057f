--------------------------- MODULE MCSkillRegistry ---------------------------
(***************************************************************************)
(* Instances of SkillRegistry: two skills whose names make one directory   *)
(* name.                                                                   *)
(***************************************************************************)
EXTENDS SkillRegistry

CONSTANTS s1, s2, x, y

MCNameOf == [s \in Skills |-> "review"]
MCLists == {(s1 :> "latest"), (s1 :> x) @@ (s2 :> "disabled"), (s1 :> y) @@ (s2 :> "latest")}
===============================================================================
