------------------------------ MODULE MCEntities ------------------------------
(* Instances of Entities for TLC. *)
EXTENDS Entities, TLC

CONSTANT CarefulTypes       \* every user is careful with these

CarefulPairs == Users \X CarefulTypes
Symmetry == Permutations(Callers) \cup Permutations(Ids) \cup Permutations(Data)
AllFaults == {"db", "crash"}
=============================================================================
