------------------------------- MODULE MCJobs -------------------------------
(* Values of the constants of Jobs for TLC. *)
EXTENDS Jobs

CONSTANTS j1, j2, a, b
=============================================================================
