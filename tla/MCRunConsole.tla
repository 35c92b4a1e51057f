---------------------------- MODULE MCRunConsole ----------------------------
(***************************************************************************)
(* One run whose tunnel and gateway both bring updates, one run on the     *)
(* session page, and two runs of an issue on its page.                     *)
(***************************************************************************)
EXTENDS RunConsole

CONSTANTS t1, g1, t2, f1, f2

MCStreams == {t1, g1, t2}
MCRunOf == [s \in MCStreams |-> IF s = t2 THEN 2 ELSE 1]
MCFetches == {f1, f2}

MCConsoleScenes ==
  {[page |-> "none", streams |-> {t1, g1}, kinds |-> Kinds, runs |-> 1,
    updates |-> 3, drops |-> 0, faults |-> 1, clicks |-> 0],
   [page |-> "session", streams |-> {t1}, kinds |-> {"other"}, runs |-> 1,
    updates |-> 4, drops |-> 1, faults |-> 0, clicks |-> 0],
   [page |-> "session", streams |-> {t1}, kinds |-> {"other"}, runs |-> 1,
    updates |-> 1, drops |-> 0, faults |-> 0, clicks |-> 1],
   [page |-> "session", streams |-> {t1, t2}, kinds |-> {"result"}, runs |-> 2,
    updates |-> 2, drops |-> 1, faults |-> 0, clicks |-> 0],
   [page |-> "issue", streams |-> {t1}, kinds |-> {"other"}, runs |-> 0,
    updates |-> 1, drops |-> 0, faults |-> 0, clicks |-> 2],
   [page |-> "issue", streams |-> {t1, t2}, kinds |-> {"other"}, runs |-> 1,
    updates |-> 2, drops |-> 0, faults |-> 0, clicks |-> 1],
   [page |-> "issue", streams |-> {t1}, kinds |-> {"result"}, runs |-> 2,
    updates |-> 1, drops |-> 0, faults |-> 1, clicks |-> 2]}
=============================================================================
