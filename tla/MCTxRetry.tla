------------------------------ MODULE MCTxRetry ------------------------------
(* Instances of TxRetry for TLC. *)
EXTENDS TxRetry, TLC

AllFaults == {"query", "commit", "connect", "deadline"}
=============================================================================
