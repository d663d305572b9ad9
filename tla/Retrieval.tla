----------------------------- MODULE Retrieval -----------------------------
(***************************************************************************)
(* Questions about a corpus that changes (rag.py, cache.py, verify.py).    *)
(* Retrieval reads the collection and the lexical index at different       *)
(* moments, fuses, reranks and caches what it found; the model answers     *)
(* from the passages that fit and cites them by number; the numbers are    *)
(* compacted, and the claims are checked against the papers they cite.     *)
(* Deletes, ingests and patches change the corpus first and drop the       *)
(* caches after, unless they fail in between or run in another process.    *)
(* Chunk texts, scores and wording are left out; the circuit of ChromaDB   *)
(* appears as calls that fail.                                             *)
(***************************************************************************)
EXTENDS Naturals, Sequences, FiniteSets, SequencesExt

CONSTANTS
  Queries,
  Tools,        \* those asked by the agent's retrieval tool
  TextOf,       \* the question of a query
  FilterOf,     \* [papers |-> ids it is restricted to, {} for none; tags |-> BOOLEAN]
  Chunks, PaperOf,
  TitleOf,      \* the title of a paper, which others may have too
  StoredFirst,  \* what papers may be stored when the model starts
  TaggedFirst,  \* papers tagged then
  DenseOrder, LexicalOrder, RerankOrder,  \* the chunks by each leg's score
  TopK,         \* the candidates of a search (pool_k; the sparse fallback has top_k)
  Overfetched,  \* width of a search whose tags are filtered afterwards
  MaxChunks,    \* config.MAX_CONTEXT_CHUNKS
  RrfK,         \* config.RRF_K
  CacheSize,    \* config.RETRIEVAL_CACHE_SIZE, TOOL_CACHE_SIZE
  MaxWrites,    \* bound: changes of the corpus
  NoIndex, NoPaper

Papers == Range(PaperOf)
Titles == Range(TitleOf)

ASSUME RetrievalAssumption ==
  /\ Tools \subseteq Queries
  /\ DOMAIN PaperOf = Chunks /\ DOMAIN TitleOf = Papers
  /\ StoredFirst \subseteq SUBSET Papers
  /\ TaggedFirst \subseteq Papers /\ NoPaper \notin Papers
  /\ FilterOf \in [Queries -> [papers : SUBSET Papers, tags : BOOLEAN]]
  /\ IsFiniteSet(Chunks)
  /\ {DenseOrder, LexicalOrder, RerankOrder} \subseteq SetToSeqs(Chunks)
  /\ {TopK, Overfetched, MaxChunks, CacheSize} \subseteq Nat \ {0} /\ Overfetched >= TopK
  /\ {RrfK, MaxWrites} \subseteq Nat

VARIABLES
  stored,   \* chunks in the collection
  tagged,   \* papers that carry the tag
  index,    \* the BM25 index in memory
  caches,   \* cache.retrieval_cache and tool_cache, least recently used first
  wipes,    \* history: how often each was invalidated
  writer,   \* where the operation that changes the corpus is, and its paper
  skipped,  \* history: papers changed without a refresh since each cache was invalidated
  writes,
  pc,       \* where each query is
  leg,      \* passages of the dense leg, and of the collection's answer later
  ids,      \* chunk ids the legs agreed on
  found,    \* what retrieve_context returned
  since     \* history: wipes when the query looked in each cache

corpus == <<stored, tagged, writer, skipped, writes>>
query == <<pc, leg, ids, found, since>>
vars == <<corpus, index, caches, wipes, query>>

Passages == [id : Chunks, tag : BOOLEAN]
\* What a search returns.  dense, raced: history, whether the dense leg answered and whether
\* a cache was invalidated between the reads and the put.
Results == [passages : Seq(Passages), degraded : BOOLEAN, dense : BOOLEAN, raced : BOOLEAN]
Nothing == [passages |-> <<>>, degraded |-> FALSE, dense |-> TRUE, raced |-> FALSE]

-----------------------------------------------------------------------------
(* Sequences of passages. *)

First(s, n) == SubSeq(s, 1, IF n < Len(s) THEN n ELSE Len(s))
\* The entries of s at these positions, in their order.
Picked(s, at) ==
  [k \in 1..Cardinality(at) |-> s[CHOOSE i \in at : Cardinality({j \in at : j <= i}) = k]]
Among(order, S) == Picked(order, {i \in DOMAIN order : order[i] \in S})
ReadNow(c) == [id |-> c, tag |-> PaperOf[c] \in tagged]
ReadAll(s) == [i \in DOMAIN s |-> ReadNow(s[i])]
IdsOf(ps) == {p.id : p \in Range(ps)}
Tagged(q, ps) == IF FilterOf[q].tags THEN Picked(ps, {i \in DOMAIN ps : ps[i].tag}) ELSE ps

Place(s, x) == CHOOSE i \in DOMAIN s : s[i] = x

\* Reciprocal rank fusion: 1/(k+rank) summed over the lists an id is on, as a fraction.
\* Equal scores keep the order in which the ids were met.
Score(d, s, x) ==
  LET a == RrfK + (IF x \in Range(d) THEN Place(d, x) ELSE 0)
      b == RrfK + (IF x \in Range(s) THEN Place(s, x) ELSE 0)
  IN IF x \notin Range(s) THEN <<1, a>> ELSE IF x \notin Range(d) THEN <<1, b>> ELSE <<a + b, a * b>>
Higher(x, y) == x[1] * y[2] > y[1] * x[2]
Before(d, s, x, y) ==
  LET u == Score(d, s, x) v == Score(d, s, y) IN
    Higher(u, v) \/ (~Higher(v, u) /\ Place(d \o s, x) < Place(d \o s, y))
Fused(d, s) ==
  {order \in SetToSeqs(Range(d) \cup Range(s)) :
     \A i, j \in DOMAIN order : i < j => Before(d, s, order[i], order[j])}

\* citation_number_map: titles are numbered in the order they are first met.  Papers of one
\* title, and those without a title, share a number.
Title(p) == TitleOf[PaperOf[p.id]]
Numbered(ps) ==
  Picked([i \in DOMAIN ps |-> Title(ps[i])],
         {i \in DOMAIN ps : \A j \in 1..i-1 : Title(ps[j]) # Title(ps[i])})

\* Bug: passages the prompt never held are numbered too.
VisibleAll(ps, n) == ps
Visible(ps, n) == First(ps, n)

\* extract_citations: the numbers that stand for a title the model was shown, ascending.
Kept(ps, n, meant) ==
  LET numbers == DOMAIN Numbered(Visible(ps, n)) IN Picked([i \in numbers |-> i], numbers \cap meant)
Cites(ps, n, meant) == LET k == Kept(ps, n, meant) IN [i \in DOMAIN k |-> Numbered(Visible(ps, n))[k[i]]]
\* compact_citations: those numbers become 1..M, the others are dropped from the text.
Compacted(ps, n, meant) == DOMAIN Kept(ps, n, meant)

\* check_claims: a mark stands for the title of that number among all the passages; a mark
\* that stands for none is passed over.
Checked(ps, cites, marks) ==
  {<<cites[m], Numbered(ps)[m]>> : m \in marks \cap DOMAIN Numbered(ps)}

-----------------------------------------------------------------------------
(* TTLCache. *)

Key(q) == [text |-> TextOf[q], filter |-> FilterOf[q]]
\* Bug: the filter is not part of the key.
KeyOfText(q) == [text |-> TextOf[q], filter |-> FALSE]
KeyOf(q) == Key(q)

Hits(name, q) == {e \in Range(caches[name]) : e.key = KeyOf(q)}
Dropped(name, q) == Picked(caches[name], {i \in DOMAIN caches[name] : caches[name][i].key # KeyOf(q)})
Touched(name, q, e) == [caches EXCEPT ![name] = Append(Dropped(name, q), e)]
\* A full cache makes room for a new key by dropping its least recently used entry.
Room(rest, new) == IF new /\ Len(rest) >= CacheSize THEN Tail(rest) ELSE rest
Put(name, q, r) ==
  LET result == [r EXCEPT !.raced = @ \/ since[q][name] # wipes[name]] IN
  caches' = [caches EXCEPT ![name] =
               Append(Room(Dropped(name, q), Hits(name, q) = {}), [key |-> KeyOf(q), result |-> result])]

-----------------------------------------------------------------------------
Unread == [name \in {"retrieval", "tool"} |-> 0]
Init ==
  /\ \E P \in StoredFirst : stored = {c \in Chunks : PaperOf[c] \in P}
  /\ tagged = TaggedFirst /\ index = NoIndex
  /\ caches = [name \in {"retrieval", "tool"} |-> <<>>]
  /\ wipes = [name \in {"retrieval", "tool"} |-> 0]
  /\ writer = [at |-> "idle", paper |-> NoPaper] /\ writes = 0
  /\ skipped = [name \in {"retrieval", "tool"} |-> {}]
  /\ pc = [q \in Queries |-> "new"]
  /\ leg = [q \in Queries |-> <<>>]
  /\ ids = [q \in Queries |-> <<>>]
  /\ found = [q \in Queries |-> Nothing]
  /\ since = [q \in Queries |-> Unread]

Goes(q, here, there) == pc[q] = here /\ pc' = [pc EXCEPT ![q] = there]
Finds(q, r) == found' = [found EXCEPT ![q] = r]
Looks(q, name) == since' = [since EXCEPT ![q][name] = wipes[name]]
\* What the query held is garbage.
Ends(q) ==
  /\ found' = [found EXCEPT ![q] = Nothing]
  /\ since' = [since EXCEPT ![q] = Unread]

-----------------------------------------------------------------------------
(* retrieve_context. *)

\* _run_tool: a hit in the tool cache is the tool's result.
LookTool(q) ==
  /\ q \in Tools
  /\ Looks(q, "tool")
  /\ IF Hits("tool", q) = {}
     THEN Goes(q, "new", "look") /\ UNCHANGED <<caches, found>>
     ELSE \E e \in Hits("tool", q) :
            /\ Goes(q, "new", "over")
            /\ caches' = Touched("tool", q, e) /\ Finds(q, e.result)
  /\ UNCHANGED <<corpus, index, wipes, leg, ids>>

After(q) == IF q \in Tools THEN "toolput" ELSE "prompt"

Look(q) ==
  /\ Looks(q, "retrieval")
  /\ IF Hits("retrieval", q) = {}
     THEN /\ Goes(q, IF q \in Tools THEN "look" ELSE "new", IF FilterOf[q].papers = {} THEN "embed" ELSE "scoped")
          /\ UNCHANGED <<caches, found>>
     ELSE \E e \in Hits("retrieval", q) :
            /\ Goes(q, IF q \in Tools THEN "look" ELSE "new", After(q))
            /\ caches' = Touched("retrieval", q, e) /\ Finds(q, e.result)
  /\ UNCHANGED <<corpus, index, wipes, leg, ids>>

\* _retrieve_scoped: every chunk of the papers asked for, in document order.
Scoped(q) ==
  LET all == ReadAll(Among(SetToSeq(Chunks), {c \in stored : PaperOf[c] \in FilterOf[q].papers})) IN
  /\ Goes(q, "scoped", "store")
  /\ Finds(q, [Nothing EXCEPT !.passages = Tagged(q, all)])
  /\ UNCHANGED <<corpus, index, caches, wipes, leg, ids, since>>

EmbedFails(q) ==
  /\ Goes(q, "embed", "sparse")
  /\ UNCHANGED <<corpus, index, caches, wipes, leg, ids, found, since>>

Width(q) == IF FilterOf[q].tags THEN Overfetched ELSE TopK

Dense(q) ==
  LET hits == ReadAll(First(Among(DenseOrder, stored), Width(q))) IN
  /\ Goes(q, "embed", IF hits = <<>> THEN After(q) ELSE "lexical")
  /\ leg' = [leg EXCEPT ![q] = hits]
  /\ Finds(q, Nothing)
  /\ UNCHANGED <<corpus, index, caches, wipes, ids, since>>

\* get_or_build_index, then the fusion; without chunks there is no index.
Built == IF index # NoIndex THEN index ELSE IF stored = {} THEN NoIndex ELSE stored
LexicalIds(q) == IF Built = NoIndex THEN <<>> ELSE First(Among(LexicalOrder, Built), Width(q))
Lexical(q) ==
  /\ Goes(q, "lexical", "fetch")
  /\ index' = Built
  /\ \E order \in Fused([i \in DOMAIN leg[q] |-> leg[q][i].id], LexicalIds(q)) :
       ids' = [ids EXCEPT ![q] = order]
  /\ UNCHANGED <<corpus, caches, wipes, leg, found, since>>

\* The hits of the index alone are fetched by id: those deleted meanwhile are not there.
Known(q) == [c \in IdsOf(leg[q]) |-> CHOOSE p \in Range(leg[q]) : p.id = c]
Reranked(ps) ==
  LET order == Among(RerankOrder, IdsOf(ps))
  IN First([i \in DOMAIN order |-> CHOOSE p \in Range(ps) : p.id = order[i]], MaxChunks)
Ranks(q, ps) ==
  LET kept == First(Tagged(q, First(ps, Width(q))), TopK) IN
  /\ Goes(q, "fetch", IF kept = <<>> THEN After(q) ELSE "store")
  /\ Finds(q, [Nothing EXCEPT !.passages = Reranked(kept)])
  /\ leg' = [leg EXCEPT ![q] = <<>>] /\ ids' = [ids EXCEPT ![q] = <<>>]
  /\ UNCHANGED <<corpus, index, caches, wipes, since>>
Fetch(q) ==
  LET there == Among(ids[q], stored \cup IdsOf(leg[q]))
  IN Ranks(q, [i \in DOMAIN there |-> IF there[i] \in IdsOf(leg[q]) THEN Known(q)[there[i]] ELSE ReadNow(there[i])])
\* The index or the fetch raises: the dense results stand.
FetchFails(q) == Ranks(q, leg[q])

Store(q) ==
  /\ Goes(q, "store", After(q))
  /\ Put("retrieval", q, found[q])
  /\ UNCHANGED <<corpus, index, wipes, leg, ids, found, since>>

\* Bug: a degraded result is stored like another.
SparseToStore(q) == "store"
SparseTo(q) == After(q)

\* _sparse_only_retrieval: the index's hits, still in the collection.
Sparse(q) ==
  LET hits == ReadAll(Among(LexicalIds(q), stored)) IN
  /\ Goes(q, "sparse", SparseTo(q))
  /\ hits # <<>>
  /\ index' = Built
  /\ Finds(q, [Nothing EXCEPT !.passages = First(Tagged(q, hits), TopK), !.degraded = TRUE, !.dense = FALSE])
  /\ UNCHANGED <<corpus, caches, wipes, leg, ids, since>>

\* A ChromaDB call times out or is refused, there is no index to fall back to, or the model
\* does not answer.
Raises(q) ==
  /\ pc[q] \in {"scoped", "embed", "sparse", "prompt"}
  /\ pc' = [pc EXCEPT ![q] = "failed"]
  /\ Ends(q)
  /\ UNCHANGED <<corpus, index, caches, wipes, leg, ids>>

\* _run_tool stores what the tool returned.
StoreTool(q) ==
  /\ Goes(q, "toolput", "over")
  /\ Put("tool", q, found[q])
  /\ Ends(q)
  /\ UNCHANGED <<corpus, index, wipes, leg, ids>>

\* The model is shown the first n passages, those that fit, and cites numbers, some of them
\* invented; citations are compacted, then the claims are checked.
Reply(ps, n, meant) ==
  LET marks == Compacted(ps, n, meant)
      cites == Cites(ps, n, meant)
  IN [shown |-> Numbered(First(ps, n)), meant |-> meant, marks |-> marks, cites |-> cites,
      checked |-> Checked(ps, cites, marks)]
Replies(ps) ==
  {Reply(ps, n, meant) : n \in 1..Len(ps), meant \in SUBSET (1..Cardinality(Titles) + 1)}

\* The query is over once one of these is given, or the answer that there are no documents.
Answer(q) ==
  /\ Goes(q, "prompt", "over")
  /\ Ends(q)
  /\ UNCHANGED <<corpus, index, caches, wipes, leg, ids>>

-----------------------------------------------------------------------------
(* Operations that change the corpus, and then refresh or not. *)

\* Bug: only the retrieval cache is dropped, as a patch does.
RefreshAsPatch == "patched"
RefreshFrom == "index"

Changes ==
  /\ writes < MaxWrites
  /\ writes' = writes + 1
  /\ UNCHANGED <<index, caches, wipes, query>>
\* An operation that goes on to its refresh.
Writes == Changes /\ writer.at = "idle" /\ UNCHANGED skipped

Delete(p) ==
  /\ Writes
  /\ \E c \in stored : PaperOf[c] = p
  /\ stored' = {c \in stored : PaperOf[c] # p}
  /\ writer' = [at |-> RefreshFrom, paper |-> p]
  /\ UNCHANGED tagged
Ingest(p) ==
  /\ Writes
  /\ stored' = stored \cup {c \in Chunks : PaperOf[c] = p}
  /\ stored' # stored
  /\ writer' = [at |-> RefreshFrom, paper |-> p]
  /\ UNCHANGED tagged
\* PATCH drops the retrieval cache only.
Toggles(p) ==
  /\ \E c \in stored : PaperOf[c] = p
  /\ tagged' = IF p \in tagged THEN tagged \ {p} ELSE tagged \cup {p}
  /\ UNCHANGED stored
Patch(p) ==
  /\ Writes
  /\ Toggles(p)
  /\ writer' = [at |-> "patched", paper |-> p]

\* A change that no refresh follows: the operation raised after it had deleted, written or
\* patched, as an ingest whose batch fails does, or reindex.py and purge.py ran beside the
\* server, or a call given up on came late.
Unrefreshed(p) ==
  /\ Changes
  /\ \/ Toggles(p)
     \/ /\ \E left \in SUBSET {c \in Chunks : PaperOf[c] = p} :
             stored' = {c \in stored : PaperOf[c] # p} \cup left
        /\ stored' # stored
        /\ UNCHANGED tagged
  /\ skipped' = [name \in DOMAIN skipped |-> skipped[name] \cup {p}]
  /\ UNCHANGED writer

RefreshIndex ==
  /\ writer.at = "index"
  /\ index' = NoIndex
  /\ writer' = [writer EXCEPT !.at = "retrieval"]
  /\ UNCHANGED <<stored, tagged, skipped, writes, caches, wipes, query>>

\* What may still come back into an empty cache: the retrieval cache feeds the tool cache.
Feeds(name) == IF name = "tool" THEN skipped["retrieval"] ELSE {}
Clears(name) == caches' = [caches EXCEPT ![name] = <<>>]

Wipe(name, here, there) ==
  /\ writer.at = here
  /\ Clears(name)
  /\ wipes' = [wipes EXCEPT ![name] = @ + 1]
  /\ skipped' = [skipped EXCEPT ![name] = Feeds(name)]
  /\ writer' = IF there = "idle" THEN [at |-> "idle", paper |-> NoPaper] ELSE [writer EXCEPT !.at = there]
  /\ UNCHANGED <<stored, tagged, writes, index, query>>
WipeRetrieval == Wipe("retrieval", "retrieval", "tool") \/ Wipe("retrieval", "patched", "idle")
WipeTool == Wipe("tool", "tool", "idle")

\* An entry is older than its time to live.
Expire(name) ==
  /\ \E i \in DOMAIN caches[name] :
       caches' = [caches EXCEPT ![name] = Picked(@, DOMAIN @ \ {i})]
  /\ UNCHANGED <<corpus, index, wipes, query>>

Next ==
  \/ \E q \in Queries :
       \/ LookTool(q) \/ Look(q) \/ Scoped(q) \/ EmbedFails(q) \/ Dense(q) \/ Lexical(q)
       \/ Fetch(q) \/ FetchFails(q) \/ Store(q) \/ Sparse(q) \/ Raises(q) \/ StoreTool(q)
       \/ Answer(q)
  \/ \E p \in Papers : Delete(p) \/ Ingest(p) \/ Patch(p) \/ Unrefreshed(p)
  \/ RefreshIndex \/ WipeRetrieval \/ WipeTool
  \/ \E name \in {"retrieval", "tool"} : Expire(name)

Spec == Init /\ [][Next]_vars

-----------------------------------------------------------------------------
\* TypeOK: every variable has its type; a cache keeps one entry per key, and its size.
TypeOK ==
  /\ stored \subseteq Chunks /\ tagged \subseteq Papers
  /\ index = NoIndex \/ index \subseteq Chunks
  /\ \A name \in {"retrieval", "tool"} :
       /\ Len(caches[name]) <= CacheSize
       /\ \A i, j \in DOMAIN caches[name] : caches[name][i].key = caches[name][j].key => i = j
       /\ \A e \in Range(caches[name]) : e.result \in Results
       /\ wipes[name] \in Nat
  /\ writer \in [at : {"idle", "index", "retrieval", "tool", "patched"}, paper : Papers \cup {NoPaper}]
  /\ writes \in 0..MaxWrites
  /\ skipped \in [{"retrieval", "tool"} -> SUBSET Papers]
  /\ pc \in [Queries -> {"new", "look", "scoped", "embed", "sparse", "lexical", "fetch", "store",
                         "toolput", "prompt", "over", "failed"}]
  /\ leg \in [Queries -> Seq(Passages)]
  /\ ids \in [Queries -> Seq(Chunks)]
  /\ found \in [Queries -> Results]

\* CitedWasShown: the marks of an answer are 1..M for its M citations, and these are the
\* titles the model meant, each one it was shown: a number invented past the passages that
\* fit the prompt resolves to nothing (compact_citations).
CitedWasShown ==
  \A q \in Queries : pc[q] = "prompt" =>
    \A reply \in Replies(found[q].passages) :
      /\ reply.marks = DOMAIN reply.cites
      /\ \A k \in DOMAIN reply.cites : \E n \in reply.meant \cap DOMAIN reply.shown :
           reply.cites[k] = reply.shown[n]
      /\ \A n \in reply.meant \cap DOMAIN reply.shown : reply.shown[n] \in Range(reply.cites)

\* ScopeKept: whatever leg or cache the passages came from, and whoever put them there, they
\* are of the papers and the tag the query asked for.
ScopeKept ==
  \A q \in Queries : \A p \in Range(found[q].passages) :
    /\ FilterOf[q].papers # {} => PaperOf[p.id] \in FilterOf[q].papers
    /\ FilterOf[q].tags => p.tag

\* DegradedTold: a result found without the dense leg is marked, for as long as it is shown
\* to anyone, and never serves a later query from the retrieval cache.
DegradedTold ==
  /\ \A q \in Queries \ Tools : found[q].degraded = ~found[q].dense
  /\ \A e \in Range(caches["retrieval"]) : e.result.dense

\* FreshUnlessRaced: what a cache holds is in the collection, as it is now, or of the paper
\* whose refresh is under way.  There are two exceptions: an entry put by a query that was
\* reading while its cache was invalidated (TTLCache.put has no way to know), and passages of
\* a paper that was changed without a refresh since the cache was invalidated, by an
\* operation that raised or by another process.
Current(e, refreshing) ==
  \A p \in Range(e.result.passages) :
    \/ p.id \in stored /\ p = ReadNow(p.id)
    \/ refreshing /\ PaperOf[p.id] = writer.paper
    \/ PaperOf[p.id] \in skipped["retrieval"]
FreshUnlessRaced ==
  /\ \A e \in Range(caches["retrieval"]) :
       e.result.raced \/ Current(e, writer.at \in {"index", "retrieval", "patched"})
  /\ \A e \in Range(caches["tool"]) :
       e.result.raced \/ IdsOf(e.result.passages) \subseteq
                           stored \cup {c \in Chunks : \/ PaperOf[c] \in skipped["tool"]
                                                     \/ /\ writer.at \in {"index", "retrieval", "tool"}
                                                        /\ PaperOf[c] = writer.paper}

\* Said by _run_faithfulness (metadatas "lets each [N] resolve to the right paper's
\* chunk(s)"): a claim is checked against the paper (by its title)
\* its mark cites.
ClaimsCheckedAgainstCited ==
  \A q \in Queries : pc[q] = "prompt" =>
    \A reply \in Replies(found[q].passages) : \A pair \in reply.checked : pair[1] = pair[2]
=============================================================================
