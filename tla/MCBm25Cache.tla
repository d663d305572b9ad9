---------------------------- MODULE MCBm25Cache ----------------------------
(* Values of the constants of Bm25Cache for TLC. *)
EXTENDS Bm25Cache, TLC

CONSTANTS t1, t2

\* Chunk ids, texts and threads are interchangeable.
Alike == Permutations(Ids) \cup Permutations(Texts) \cup Permutations(Threads)
=============================================================================
