-------------------------- MODULE DeliveryContract --------------------------
(***************************************************************************)
(* What the pipeline promises about each recipient of a notification,      *)
(* whatever its queues, retries and crashes do: the row is created once,   *)
(* attempted any number of times, and closed once, as sent only after a    *)
(* provider accepted a push for it.  Delivery is at least once, so an      *)
(* attempt can be accepted again after an earlier acceptance went          *)
(* unrecorded.                                                             *)
(***************************************************************************)
EXTENDS Naturals

CONSTANTS Notifs, Devices

VARIABLES
  status,    \* the status of recipient (n, d)
  accepts    \* how many pushes its provider has accepted

vars == <<status, accepts>>

Open == {"queued", "sending"}

Init ==
  /\ status = [n \in Notifs |-> [d \in Devices |-> "absent"]]
  /\ accepts = [n \in Notifs |-> [d \in Devices |-> 0]]

Move(n, d, from, outcome) ==
  /\ status[n][d] \in from
  /\ status' = [status EXCEPT ![n][d] = outcome]
  /\ UNCHANGED accepts

Create(n, d) == Move(n, d, {"absent"}, "queued")

Attempt(n, d) == Move(n, d, Open, "sending")

Accept(n, d) ==
  /\ status[n][d] = "sending"
  /\ accepts' = [accepts EXCEPT ![n][d] = @ + 1]
  /\ UNCHANGED status

RecordSent(n, d) == accepts[n][d] > 0 /\ Move(n, d, {"sending"}, "sent")

RecordFailed(n, d) == Move(n, d, {"sending"}, "failed")

Next ==
  \E n \in Notifs, d \in Devices :
    \/ Create(n, d)
    \/ Attempt(n, d)
    \/ Accept(n, d)
    \/ RecordSent(n, d)
    \/ RecordFailed(n, d)

Spec == Init /\ [][Next]_vars
=============================================================================
