-------------------------- MODULE MCCredentialStore --------------------------
(***************************************************************************)
(* A small instance of CredentialStore for TLC: a row of a provider whose  *)
(* adapter tests and keeps clients, and one of a provider that does        *)
(* neither and accepts any credential.                                     *)
(***************************************************************************)
EXTENDS CredentialStore, TLC

CONSTANTS c1, c2, t1

FcmAndExpo == (c1 :> "fcm") @@ (c2 :> "expo")
UsableByType == ("fcm" :> {t1}) @@ ("expo" :> Texts)

Symmetry == Permutations(Ops) \cup Permutations(MasterKeys)
=============================================================================
