------------------------------- MODULE MCFiles -------------------------------
(* Instances of Files for TLC. *)
EXTENDS Files, TLC

CONSTANTS v1, v2, v3

Symmetry == Permutations(Callers) \cup Permutations({v1, v2})
AllFaults == {"db", "disk", "crash"}

(* Two contents under the names of a careful user, one under those of others. *)
OneOrTwo == [u \in Users |-> IF u \in Careful THEN {v1, v2} ELSE {v3}]

(* Two spellings of one path, and only one. *)
TwoSpellings == {"a", "./a"}
OneSpelling == {"a"}
CleansToA == [n \in Names |-> "a"]
=============================================================================
