---------------------------- MODULE MCBm25Index ----------------------------
(* Values of the constants of Bm25Index for TLC. *)
EXTENDS Bm25Index, TLC

CONSTANTS d1, d2, t1, t2

\* One text holds both terms, so that a chunk may match a query twice.
SomeTexts == {{t1}, {t1, t2}}
SomeQueries == {{t2}, {t1, t2}}

\* Chunk ids are alike, and so are the threads; the terms are not.
Alike == Permutations(Docs) \cup Permutations(Writers)
=============================================================================
