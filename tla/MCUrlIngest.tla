---------------------------- MODULE MCUrlIngest ----------------------------
(* Values of the constants of UrlIngest for TLC. *)
EXTENDS UrlIngest

CONSTANTS a, b, c, p, q

\* a and b are different identifiers with the same paper id.
IdOfItem == [x \in {a, b, c} |-> IF x = c THEN q ELSE p]

\* A list may name an id twice, under one identifier or two.
SomeLists == {<<a, b>>, <<c, b>>, <<a, a>>}
OneItem == {<<a>>, <<b>>}
=============================================================================
