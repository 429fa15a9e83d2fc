------------------------------ MODULE MCAccounts ------------------------------
(* Accounts on small instances.                                            *)
EXTENDS Accounts, TLC

CONSTANTS u1, u2

Symmetry == Permutations(Tokens) \cup Permutations(Sessions) \cup Permutations(Callers)
            \cup Permutations(Emails)
=============================================================================
