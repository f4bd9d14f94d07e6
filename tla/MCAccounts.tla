------------------------------ MODULE MCAccounts ------------------------------
(* Instances of Accounts for TLC. *)
EXTENDS Accounts, TLC

Symmetry == Permutations(Callers) \cup Permutations(Tokens)
AllFaults == {"db", "disk", "crash"}
=============================================================================
