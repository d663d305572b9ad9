------------------------------ MODULE MCWatch ------------------------------
(* Values of the constants of Watch for TLC. *)
EXTENDS Watch
=============================================================================
