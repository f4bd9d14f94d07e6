------------------------------ MODULE MCFileSync ------------------------------
(* Instances of FileSync for TLC. *)
EXTENDS FileSync, TLC

AllFaults == {"fail", "crash"}
AllOthers == {"client", "user"}
Symmetry == Permutations(Cmds) \cup Permutations(Names) \cup Permutations(Versions)
=============================================================================
