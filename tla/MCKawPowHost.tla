---------------------------- MODULE MCKawPowHost ----------------------------
(* Model-checking instance of KawPowHost. *)
EXTENDS KawPowHost
=============================================================================
