------------------------------ MODULE MCApiGate ------------------------------
(***************************************************************************)
(* A small instance of ApiGate for TLC: all keys are of one project, so    *)
(* that the other one only occurs as the wrong project of a revocation.    *)
(***************************************************************************)
EXTENDS ApiGate, TLC

MCNext == Next /\ \A k \in Keys : apiKeys'[k].project \in {Default, NoProject}

MCSpec == Init /\ [][MCNext]_vars

Symmetry == Permutations(Requests) \cup Permutations(Keys)
=============================================================================
