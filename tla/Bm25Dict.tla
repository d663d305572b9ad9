------------------------------ MODULE Bm25Dict ------------------------------
(***************************************************************************)
(* What BM25Index promises its callers: a dictionary from chunk ids to     *)
(* texts.  A text is the set of terms the tokenizer finds in it.  Chunks   *)
(* are put in, replaced and dropped one by one; nothing else changes what  *)
(* a query can find - neither tombstones, compaction nor a reload.         *)
(***************************************************************************)
CONSTANTS Docs, Texts, NoText

VARIABLE docs

Init == docs \in [Docs -> Texts \cup {NoText}]

\* A chunk is indexed; its id was free, or has been dropped before.
Put == \E d \in Docs, x \in Texts : docs[d] = NoText /\ docs' = [docs EXCEPT ![d] = x]

Drop == \E d \in Docs : docs[d] # NoText /\ docs' = [docs EXCEPT ![d] = NoText]

Next == Put \/ Drop

Spec == Init /\ [][Next]_docs

\* The chunks a query should find.
Matches(query) == {d \in Docs : docs[d] # NoText /\ docs[d] \cap query # {}}
=============================================================================
