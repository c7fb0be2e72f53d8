------------------------------ MODULE MCConsole ------------------------------
(***************************************************************************)
(* A small instance of Console for TLC.                                    *)
(***************************************************************************)
EXTENDS Console, TLC

Symmetry == Permutations(Requests) \cup Permutations(Emails)
            \cup Permutations(Passwords) \cup Permutations(Tokens)
=============================================================================
