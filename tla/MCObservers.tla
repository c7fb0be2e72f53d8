---------------------------- MODULE MCObservers ----------------------------
(***************************************************************************)
(* Model checking of Observers: either the load test runs, or other        *)
(* clients and the dashboard are at work.  The two share only the tables,  *)
(* and neither reads what the other one wrote.                             *)
(***************************************************************************)
EXTENDS Observers

LoadTestRuns == phase # "done" \/ \E c \in Calls : call[c] # "todo"

MCNext ==
  /\ Next
  /\ LoadTestRuns => page' = page /\ \A n \in OtherNotifs : targets'[n] = {}

MCSpec == Init /\ [][MCNext]_vars /\ Fairness
=============================================================================
