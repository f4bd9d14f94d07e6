------------------------------ MODULE MCSession ------------------------------
(* Instances of Session for TLC. *)
EXTENDS Session

(* Two of the three kinds, listed in this order. *)
MCKinds == <<"text", "creds">>
=============================================================================
