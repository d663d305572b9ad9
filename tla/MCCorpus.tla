------------------------------ MODULE MCCorpus ------------------------------
(* Values of the constants of Corpus for TLC. *)
EXTENDS Corpus, TLC

CONSTANTS p1, p2, s1, s2, v1, v2

\* The second version of a paper chunks into fewer slots than the first.
SlotsOfVersion == [v \in {v1, v2} |-> IF v = v1 THEN {s1, s2} ELSE {s1}]
NoTwins == [p \in Papers |-> {}]
AllTwins == [p \in Papers |-> Papers]

EveryKind == {"ingest", "delete", "reindex", "replay", "backfill", "purgeRoute", "purgeCli", "patch"}
IngestOnly == {"ingest"}
LoggingKinds == EveryKind \ {"purgeRoute"}

\* Papers are alike (every paper is a twin of every other), and so are the workers.
Alike == Permutations(Papers) \cup Permutations(Workers)
=============================================================================
