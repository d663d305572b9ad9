--------------------------- MODULE MCPersistence ---------------------------
(***************************************************************************)
(* Two threads, two papers and two other rows: a batch of two papers meets *)
(* a write of the other thread, a failure at any of its statements and a   *)
(* write of another process.                                               *)
(***************************************************************************)
EXTENDS Persistence, TLC

CONSTANTS t1, t2, e1, e2, o1, o2

MCSymmetry == Permutations({t1, t2}) \cup Permutations({e1, e2}) \cup Permutations({o1, o2})
=============================================================================
