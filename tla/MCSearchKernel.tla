--------------------------- MODULE MCSearchKernel ---------------------------
(* Model-checking instance of SearchKernel. *)
EXTENDS SearchKernel
=============================================================================
