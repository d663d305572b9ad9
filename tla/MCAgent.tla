------------------------------ MODULE MCAgent ------------------------------
(* Values of the constants of Agent for TLC. *)
EXTENDS Agent, TLC

CONSTANTS corpus, web, first, second, other, a, b, noCorpus, noWeb, noTitle

\* Two sub-queries to the corpus and a search of the web.
MCToolOf == (first :> corpus) @@ (second :> corpus) @@ (other :> web)
\* Both tools may find the passage a; a call that fails says so.
MCOffers == (corpus :> {<<a, b>>}) @@ (web :> {<<a>>})
MCFailure == (corpus :> noCorpus) @@ (web :> noWeb)
\* The passages that say so have no title, so they share a number.
MCTitleOf == [p \in Passages |-> IF p.text \in Range(MCFailure) THEN noTitle ELSE p.text]
=============================================================================
