----------------------------- MODULE Bm25Index -----------------------------
(***************************************************************************)
(* BM25Index (bm25_search.py): an inverted index that is added to, removed *)
(* from and compacted under its own lock, and searched without it.         *)
(*                                                                         *)
(* A slot is a position of doc_ids.  A removed chunk leaves a tombstoned   *)
(* slot; compaction reclaims the slots and renumbers the others, putting   *)
(* new lists in place of the old ones.  A search that is at a posting list *)
(* keeps the list it found: tables holds every postings table there ever   *)
(* was, the last one being self.postings.  Term frequencies and the scores *)
(* are left out; a text is the set of its terms and as long as it has any. *)
(***************************************************************************)
EXTENDS Naturals, Sequences, FiniteSets, FiniteSetsExt

CONSTANTS
  Docs,         \* chunk ids
  Terms,
  Texts,        \* sets of terms
  Queries,      \* what is searched for: sets of terms
  Writers,      \* threads that add and remove chunks
  Searchers,    \* threads that answer queries
  CompactOver,  \* compact when deleted * CompactOver > slots (1 / _COMPACT_RATIO)
  MaxOps,       \* bound: adds, removes and reloads
  MaxSearches,  \* bound: searches
  NoText, NoWriter

ASSUME Bm25Assumption ==
  /\ Texts \cup Queries \subseteq SUBSET Terms
  /\ NoText \notin Texts
  /\ NoWriter \notin Writers
  /\ IsFiniteSet(Terms) /\ IsFiniteSet(Docs)
  /\ {CompactOver, MaxOps, MaxSearches} \subseteq Nat

VARIABLES
  ids,       \* doc_ids
  texts,     \* doc_terms, and with it doc_lens
  tables,    \* the postings tables; the last one is postings
  deleted,   \* _deleted
  df,        \* live document frequency of each term
  totalLen,  \* _total_len
  lock,      \* who holds the index's lock
  writer,    \* what each writing thread is doing
  search,    \* what each search is doing
  ops, searches

index == <<ids, texts, tables, deleted, df, totalLen>>
vars == <<index, lock, writer, search, ops, searches>>

-----------------------------------------------------------------------------
Slots == 1..Len(ids)
Postings == tables[Len(tables)]
Live == Slots \ deleted
SumOfLens(S) == Cardinality({p \in S \X Terms : p[2] \in texts[p[1]]})

IdleWriter == [pc |-> "idle", todo |-> {}]
IdleSearch == [pc |-> "idle", query |-> {}, todo |-> {}, table |-> 1, term |-> {},
               at |-> 0, scored |-> {}, found |-> {}, quiet |-> TRUE, torn |-> FALSE]

\* The index as it comes from build() on an empty collection: no document yet.
Init ==
  /\ ids = <<>> /\ texts = <<>>
  /\ tables = <<[t \in Terms |-> {}]>>
  /\ deleted = {}
  /\ df = [t \in Terms |-> 0]
  /\ totalLen = 0
  /\ lock = NoWriter
  /\ writer = [w \in Writers |-> IdleWriter]
  /\ search = [s \in Searchers |-> IdleSearch]
  /\ ops = 0 /\ searches = 0

\* A step of a writer as the searches under way see it.
Disturbed == search' = [s \in Searchers |-> [search[s] EXCEPT !.quiet = FALSE]]
Torn == search' = [s \in Searchers |-> [search[s] EXCEPT !.torn = TRUE]]

-----------------------------------------------------------------------------
\* _tombstone: the slot stays, and so do its postings.
Tombstone(i) ==
  /\ deleted' = deleted \cup {i}
  /\ totalLen' = totalLen - Cardinality(texts[i])
  /\ df' = [t \in Terms |-> IF t \in texts[i] /\ df[t] > 0 THEN df[t] - 1 ELSE df[t]]
  /\ UNCHANGED <<ids, texts, tables>>

\* The document takes the next slot.
AppendDoc(d, x) ==
  LET i == Len(ids) + 1 IN
  /\ ids' = Append(ids, d)
  /\ texts' = Append(texts, x)
  /\ tables' = [tables EXCEPT ![Len(tables)] =
                  [t \in Terms |-> IF t \in x THEN @[t] \cup {i} ELSE @[t]]]
  /\ df' = [t \in Terms |-> IF t \in x THEN df[t] + 1 ELSE df[t]]
  /\ totalLen' = totalLen + Cardinality(x)
  /\ UNCHANGED deleted

Acquire(w, o) ==
  /\ lock = NoWriter
  /\ lock' = w
  /\ writer' = [writer EXCEPT ![w] = o]

Release(w, o) ==
  /\ lock' = NoWriter
  /\ writer' = [writer EXCEPT ![w] = o]

Begin(w, pc, todo) ==
  /\ writer[w].pc = "idle"
  /\ ops < MaxOps
  /\ ops' = ops + 1
  /\ Acquire(w, [pc |-> pc, todo |-> todo])
  /\ Disturbed
  /\ UNCHANGED <<index, searches>>

\* add_documents: an id that is live already is tombstoned first.
StartAdd(w) ==
  \E S \in (SUBSET Docs) \ {{}} : \E f \in [S -> Texts] :
    Begin(w, "add", {<<d, f[d]>> : d \in S})

\* Bug: the copy that was there before is not tombstoned.
AddDocTwice(w) ==
  /\ writer[w].pc = "add"
  /\ Disturbed
  /\ UNCHANGED <<ops, searches>>
  /\ \E x \in writer[w].todo :
       /\ AppendDoc(x[1], x[2])
       /\ IF writer[w].todo = {x} THEN Release(w, IdleWriter)
          ELSE writer' = [writer EXCEPT ![w].todo = @ \ {x}] /\ UNCHANGED lock

AddDoc(w) ==
  /\ writer[w].pc = "add"
  /\ Disturbed
  /\ UNCHANGED <<ops, searches>>
  /\ \E x \in writer[w].todo :
       \/ \E i \in Live : ids[i] = x[1] /\ Tombstone(i) /\ UNCHANGED <<lock, writer>>
       \/ /\ \A i \in Live : ids[i] # x[1]
          /\ AppendDoc(x[1], x[2])
          /\ IF writer[w].todo = {x} THEN Release(w, IdleWriter)
             ELSE writer' = [writer EXCEPT ![w].todo = @ \ {x}] /\ UNCHANGED lock

\* remove_documents, the first half of remove_from_index.
StartRemove(w) == \E S \in (SUBSET Docs) \ {{}} : Begin(w, "remove", S)

RemoveDoc(w) ==
  /\ writer[w].pc = "remove"
  /\ Disturbed
  /\ UNCHANGED <<ops, searches>>
  /\ \/ \E i \in Live : ids[i] \in writer[w].todo /\ Tombstone(i) /\ UNCHANGED <<lock, writer>>
     \/ /\ \A i \in Live : ids[i] \notin writer[w].todo
        /\ Release(w, [pc |-> "ratio", todo |-> {}])
        /\ UNCHANGED index

\* The share of tombstones is looked at with the lock given back.
CheckRatio(w) ==
  /\ writer[w].pc = "ratio"
  /\ writer' = [writer EXCEPT ![w].pc =
                  IF Cardinality(deleted) * CompactOver > Len(ids) THEN "compact" ELSE "idle"]
  /\ UNCHANGED <<index, lock, search, ops, searches>>

-----------------------------------------------------------------------------
(***************************************************************************)
(* compact: renumber the slots that are live, and put the new lists in     *)
(* place one attribute after the other.                                    *)
(***************************************************************************)

Remap(i) == Cardinality({k \in 1..i : k \notin deleted})
\* Bug: the postings keep the old numbers.
RenumberNot(S) == S
Renumber(S) == {Remap(i) : i \in S}
Survivors(seq) ==
  [k \in 1..Cardinality(Live) |-> seq[CHOOSE i \in Live : Remap(i) = k]]

\* Nothing to do: the lock is taken and given back.
CompactNothing(w) ==
  /\ writer[w].pc = "compact"
  /\ lock = NoWriter
  /\ deleted = {}
  /\ writer' = [writer EXCEPT ![w] = IdleWriter]
  /\ UNCHANGED <<index, lock, search, ops, searches>>

\* doc_ids, doc_lens and doc_terms.
CompactIds(w) ==
  /\ writer[w].pc = "compact"
  /\ deleted # {}
  /\ Acquire(w, [pc |-> "postings", todo |-> {}])
  /\ ids' = Survivors(ids)
  /\ texts' = Survivors(texts)
  /\ Torn
  /\ UNCHANGED <<tables, deleted, df, totalLen, ops, searches>>

\* postings and df.
CompactPostings(w) ==
  /\ writer[w].pc = "postings"
  /\ writer' = [writer EXCEPT ![w].pc = "tombstones"]
  /\ LET kept == [t \in Terms |-> Renumber(Postings[t] \ deleted)] IN
     /\ tables' = Append(tables, kept)
     /\ df' = [t \in Terms |-> Cardinality(kept[t])]
  /\ Torn
  /\ UNCHANGED <<ids, texts, deleted, totalLen, lock, ops, searches>>

\* _deleted and _total_len.
CompactDeleted(w) ==
  /\ writer[w].pc = "tombstones"
  /\ Release(w, IdleWriter)
  /\ deleted' = {}
  /\ totalLen' = SumOfLens(Slots)
  /\ Torn
  /\ UNCHANGED <<ids, texts, tables, df, ops, searches>>

\* Bug: the loader counts the tombstoned documents too.
RebuiltDfAll == [t \in Terms |-> Cardinality(Postings[t])]
RebuiltDf == [t \in Terms |-> Cardinality(Postings[t] \ deleted)]

\* The index is saved, the process starts anew and loads it: doc_terms and df are not
\* in the file, they are worked out of the postings (_rebuild_derived).
Reload ==
  /\ ops < MaxOps
  /\ ops' = ops + 1
  /\ lock = NoWriter
  /\ texts' = [i \in Slots |-> {t \in Terms : i \in Postings[t]}]
  /\ df' = RebuiltDf
  /\ tables' = <<Postings>>
  /\ writer' = [w \in Writers |-> IdleWriter]
  /\ search' = [s \in Searchers |-> IdleSearch]
  /\ UNCHANGED <<ids, deleted, totalLen, lock, searches>>

-----------------------------------------------------------------------------
(***************************************************************************)
(* search: no lock; one step per attribute or list entry it reads.  (The   *)
(* two lengths that n_docs subtracts are read in one step here.)           *)
(***************************************************************************)
Searching(s, o) ==
  /\ search' = [search EXCEPT ![s] = o]
  /\ UNCHANGED <<index, lock, writer, ops>>

\* Nothing live: no result.  (While compaction is half done the difference may be off.)
StartSearch(s) ==
  /\ search[s].pc \in {"idle", "done", "raised"}
  /\ searches < MaxSearches
  /\ searches' = searches + 1
  /\ \E q \in Queries :
       Searching(s, [IdleSearch EXCEPT
         !.pc = IF Len(ids) = Cardinality(deleted) THEN "rank" ELSE "terms",
         !.query = q, !.todo = q,
         !.quiet = \A w \in Writers : writer[w].pc \notin {"add", "remove"},
         !.torn = \E w \in Writers : writer[w].pc \in {"postings", "tombstones"}])

\* The next term's posting list and frequency.
NextTerm(s) ==
  /\ search[s].pc = "terms"
  /\ UNCHANGED searches
  /\ \/ \E t \in search[s].todo :
          Searching(s, [search[s] EXCEPT
            !.todo = @ \ {t},
            !.pc = IF Postings[t] = {} \/ df[t] = 0 THEN "terms" ELSE "postings",
            !.table = Len(tables), !.term = {t}, !.at = 0])
     \/ search[s].todo = {} /\ Searching(s, [search[s] EXCEPT !.pc = "rank"])

\* Bug: tombstoned slots score like any other.
DeadNever(i) == FALSE
Dead(i) == i \in deleted

\* The next entry of the list the search holds.  doc_lens may have become too short.
NextPosting(s) ==
  LET list == {i \in UNION {tables[search[s].table][t] : t \in search[s].term} :
                 i > search[s].at}
      i == Min(list)
  IN /\ search[s].pc = "postings"
     /\ UNCHANGED searches
     /\ \/ list = {} /\ Searching(s, [search[s] EXCEPT !.pc = "terms"])
        \/ list # {} /\ Dead(i) /\ Searching(s, [search[s] EXCEPT !.at = i])
        \/ /\ list # {} /\ ~Dead(i)
           /\ Searching(s, IF i \in Slots
                           THEN [search[s] EXCEPT !.at = i, !.scored = @ \cup {i}]
                           ELSE [search[s] EXCEPT !.pc = "raised"])

\* The slots that scored become ids.
Rank(s) ==
  /\ search[s].pc = "rank"
  /\ UNCHANGED searches
  /\ Searching(s, IF search[s].scored \subseteq Slots
                  THEN [search[s] EXCEPT !.pc = "done", !.found = {ids[i] : i \in search[s].scored}]
                  ELSE [search[s] EXCEPT !.pc = "raised"])

-----------------------------------------------------------------------------
Write(w) ==
  \/ StartAdd(w) \/ AddDoc(w) \/ StartRemove(w) \/ RemoveDoc(w) \/ CheckRatio(w)
  \/ CompactNothing(w) \/ CompactIds(w) \/ CompactPostings(w) \/ CompactDeleted(w)

Search(s) == StartSearch(s) \/ NextTerm(s) \/ NextPosting(s) \/ Rank(s)

Next == (\E w \in Writers : Write(w)) \/ (\E s \in Searchers : Search(s)) \/ Reload

Spec == Init /\ [][Next]_vars

-----------------------------------------------------------------------------
\* Half-way through compaction the slots are renumbered and nothing is tombstoned yet.
Renumbered == \E w \in Writers : writer[w].pc \in {"postings", "tombstones"}
Standing == IF Renumbered THEN Slots ELSE Live

\* The dictionary an index stands for.
Content ==
  [d \in Docs |-> IF \E i \in Standing : ids[i] = d
                  THEN texts[CHOOSE i \in Standing : ids[i] = d] ELSE NoText]

Dict == INSTANCE Bm25Dict WITH docs <- Content

\* The index implements a dictionary: each step of a writer puts or drops one chunk, and
\* neither compaction nor a reload changes what is in it.
IsDictionary == Dict!Spec

\* The lists, counters and threads have their types.
TypeOK ==
  /\ ids \in Seq(Docs) /\ texts \in Seq(Texts) /\ Len(ids) = Len(texts)
  /\ tables \in Seq([Terms -> SUBSET Nat]) /\ tables # <<>>
  /\ deleted \in SUBSET Nat
  /\ df \in [Terms -> Nat] /\ totalLen \in Nat
  /\ lock \in Writers \cup {NoWriter}
  /\ \A s \in Searchers : search[s].table \in 1..Len(tables)
  /\ ops \in 0..MaxOps /\ searches \in 0..MaxSearches

\* The counters kept up step by step are what a count would give, an id has one live
\* slot at most, and the postings list exactly the slots that hold the term, whatever was
\* added, replaced, removed, compacted and reloaded before (the purpose of the counters:
\* search no longer counts).
CountersExact ==
  lock = NoWriter =>
    /\ \A i, k \in Live : ids[i] = ids[k] => i = k
    /\ deleted \subseteq Slots
    /\ totalLen = SumOfLens(Live)
    /\ \A t \in Terms :
         /\ Postings[t] = {i \in Slots : t \in texts[i]}
         /\ df[t] = Cardinality({i \in Live : t \in texts[i]})

\* A search that no writer interferes with finds exactly the chunks that hold a term of
\* the query.
SearchExact ==
  [][\A s \in Searchers :
       search[s].pc \in {"postings", "rank"} /\ search'[s].pc \in {"done", "raised"}
         /\ search[s].quiet /\ ~search[s].torn =>
           search'[s].found = Dict!Matches(search[s].query)]_vars

\* A search that overlaps adds and removes still returns only chunks that hold a term of
\* the query: the lists only ever grow at the end.
SearchSound ==
  \A s \in Searchers : ~search[s].torn =>
    \A i \in search[s].scored : i \in Slots /\ texts[i] \cap search[s].query # {}

\* "compaction must not change what the index returns": a search during which nothing
\* was added or removed finds exactly the chunks that hold a term of the query.
CompactionInvisible ==
  [][\A s \in Searchers :
       search[s].pc \in {"postings", "rank"} /\ search'[s].pc \in {"done", "raised"}
         /\ search[s].quiet =>
           search'[s].found = Dict!Matches(search[s].query)]_vars

=============================================================================
