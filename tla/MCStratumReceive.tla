-------------------------- MODULE MCStratumReceive --------------------------
(* Model-checking instance of StratumReceive. *)
EXTENDS StratumReceive
=============================================================================
