----------------------------- MODULE MCRetrieval -----------------------------
(* Values of the constants of Retrieval for TLC. *)
EXTENDS Retrieval, TLC

CONSTANTS open, scoped, tool, what, p, s, r, p1, s1, r1

\* One question, asked of the whole corpus, of one paper and by the agent.
TextOfQuery == [q \in Queries |-> what]
Unfiltered == [papers |-> {}, tags |-> FALSE]
FilterOfQuery == (open :> Unfiltered) @@ (scoped :> [papers |-> {r}, tags |-> FALSE])
                 @@ (tool :> [papers |-> {}, tags |-> TRUE])
\* p and s are papers of one title.
PaperOfChunk == (p1 :> p) @@ (s1 :> s) @@ (r1 :> r)
TitleOfPaper == (p :> "same") @@ (s :> "same") @@ (r :> "other")
ByMeaning == <<p1, r1, s1>>
ByWords == <<s1, r1, p1>>
ByBoth == <<r1, p1, s1>>
=============================================================================
