----------------------------- MODULE MCDispatch -----------------------------
(***************************************************************************)
(* Small instances of Dispatch for TLC.                                    *)
(***************************************************************************)
EXTENDS Dispatch, TLC

\* Explicit device ids, a group, ids nobody has, and a request without targets.
ExplicitSpecs == {[kind |-> "device_ids", devs |-> Devices]}
GroupSpecs == {[kind |-> "external_user_ids", devs |-> Devices]}
UnknownSpecs == {[kind |-> "device_ids", devs |-> {}]}
NoSpecs == {[kind |-> "none", devs |-> {}]}
AllSpecs == ExplicitSpecs \cup GroupSpecs \cup UnknownSpecs \cup NoSpecs
\* The specs that find devices.
FindingSpecs == ExplicitSpecs \cup GroupSpecs

\* Every token belongs to one push network...
OneProvider == [d \in Devices |-> {CHOOSE p \in Providers : TRUE}]
\* ... or is registered with any of them, which the API does not prevent.
AnyProvider == [d \in Devices |-> Providers]

NoFaults == {}
DatabaseErrors == {"db"}
Crashes == {"crash", "shutdown", "redis", "timeout"}
Symmetry == Permutations(Devices) \cup Permutations(Notifs)
=============================================================================
