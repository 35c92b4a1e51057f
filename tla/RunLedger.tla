------------------------------ MODULE RunLedger ------------------------------
(***************************************************************************)
(* What the Run rows of a task promise, however the handlers interleave:   *)
(* they are a ledger.  A row is added behind the last one, for a step and  *)
(* with an attempt number that never change; the attempts of a step have   *)
(* no gap; and a run that has ended is not running again.                  *)
(***************************************************************************)
EXTENDS Naturals

CONSTANTS Steps, MaxRuns

Runs == 1..MaxRuns

VARIABLE row   \* the Run rows: [state, step, attempt]

Attempts(s) ==
  {row[r].attempt : r \in {q \in Runs : row[q].state # "none" /\ row[q].step = s}}

Init == \A r \in Runs : row[r].state = "none"

Create(r, s) ==
  /\ \A q \in Runs : row[q].state # "none" <=> q < r
  /\ \E a \in {1} \cup {b + 1 : b \in Attempts(s)} :
       row' = [row EXCEPT ![r] = [state |-> "open", step |-> s, attempt |-> a]]

End(r) ==
  /\ row[r].state = "open"
  /\ row' = [row EXCEPT ![r].state = "ended"]

Next == \E r \in Runs : End(r) \/ \E s \in Steps : Create(r, s)

Spec == Init /\ [][Next]_row
===============================================================================
