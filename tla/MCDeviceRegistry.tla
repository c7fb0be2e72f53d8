-------------------------- MODULE MCDeviceRegistry --------------------------
(***************************************************************************)
(* A small instance of DeviceRegistry for TLC.                             *)
(***************************************************************************)
EXTENDS DeviceRegistry

AllInputs == [token : Tokens, user : Users \cup {NoUser}, uuid : UUIDs \cup {NoUUID}]
\* Registrations that do not name a device_uuid without an external_user_id.
AttributedInputs == {in \in AllInputs : in.user # NoUser \/ in.uuid = NoUUID}
=============================================================================
