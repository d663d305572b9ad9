------------------------------- MODULE MCChat -------------------------------
(* Values of the constants of Chat for TLC. *)
EXTENDS Chat

CONSTANTS a, b, c, mine, yours, s1, s2, s3

\* a streams; b is plain, of the same key; c is an agent's stream of another key.
OwnerOfTurn == (a :> mine) @@ (b :> mine) @@ (c :> yours)
NewIdOf == (a :> s1) @@ (b :> s2) @@ (c :> s3)
=============================================================================
