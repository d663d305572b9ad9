----------------------------- MODULE Bm25Cache -----------------------------
(***************************************************************************)
(* The lexical index of the live collection as the rest of the program     *)
(* sees it: built from ChromaDB by whoever asks first, kept in the dict    *)
(* _indices, saved to a file that the next start loads, told of deletes,   *)
(* and dropped after every ingest (bm25_search.get_or_build_index,         *)
(* save_index, remove_from_index, invalidate; cache_refresh;               *)
(* vector_store.delete_by_paper_id).                                       *)
(*                                                                         *)
(* Chunk ids are positional: the new text of a paper comes under the ids   *)
(* of the old one.  _lock guards the dict only; the collection is written  *)
(* without it, and so is the file.  What an index holds is a dictionary    *)
(* (module Bm25Index shows that it is one).                                *)
(***************************************************************************)
EXTENDS Naturals, Sequences, FiniteSets

CONSTANTS
  Ids,          \* chunk ids of the live collection
  Texts,        \* what a chunk may say
  Threads,      \* requests, background jobs, warm-up threads
  Overlap,      \* may two operations on the corpus run at the same time?
  Persist,      \* config.BM25_PERSIST
  MaxOps,       \* bound: ingests, deletes and reindexes
  MaxFaults,    \* bound: upserts and deletes that fail
  MaxRestarts,  \* bound: restarts of the process
  NoText, NoThread, NoFile

VARIABLES
  coll,      \* the collection
  heap,      \* every BM25Index object made, in order
  mem,       \* the object _indices holds, 0 for none
  fromFile,  \* the objects that were loaded and not built
  disk,      \* the saved index
  lock,      \* who holds _lock across steps
  thread,    \* what each thread is doing
  ghosts,    \* ids a failed ingest wrote since the dict was last emptied
  ops, faults, restarts

bounds == <<ops, faults, restarts>>
vars == <<coll, heap, mem, fromFile, disk, lock, thread, ghosts, bounds>>

ASSUME Bm25CacheAssumption ==
  /\ NoText \notin Texts
  /\ NoThread \notin Threads
  /\ {Overlap, Persist} \subseteq BOOLEAN
  /\ {MaxOps, MaxFaults, MaxRestarts} \subseteq Nat

-----------------------------------------------------------------------------
Content == [Ids -> Texts \cup {NoText}]
Empty == [i \in Ids |-> NoText]
IdsIn(c) == {i \in Ids : c[i] # NoText}
Put(c, new) == [i \in Ids |-> IF new[i] = NoText THEN c[i] ELSE new[i]]
Drop(c, S) == [i \in Ids |-> IF i \in S THEN NoText ELSE c[i]]

\* kind is the corpus operation a thread is in the middle of, "none" for a query.
Idle == [pc |-> "idle", kind |-> "none", ids |-> {}, new |-> Empty, idx |-> 0, copy |-> Empty]

Init ==
  /\ coll = Empty
  /\ heap = <<>> /\ mem = 0 /\ fromFile = {}
  /\ disk = NoFile
  /\ lock = NoThread
  /\ thread = [t \in Threads |-> Idle]
  /\ ghosts = {}
  /\ ops = 0 /\ faults = 0 /\ restarts = 0

At(t, pc) == thread[t].pc = pc
Goto(t, o) == thread' = [thread EXCEPT ![t] = o]

Unlocked == lock = NoThread
Untouched == UNCHANGED <<coll, heap, mem, fromFile, disk, lock, ghosts>>

-----------------------------------------------------------------------------
(***************************************************************************)
(* get_or_build_index: a query, the warm-up, the thread invalidate's       *)
(* callers start.                                                          *)
(***************************************************************************)

\* Nothing in the dict, and nobody building: take the lock.  An empty collection has no
\* index.  (With an index in the dict the call returns it and changes nothing.)
StartBuild(t) ==
  /\ At(t, "idle")
  /\ mem = 0
  /\ Unlocked
  /\ IdsIn(coll) # {}
  /\ lock' = t
  /\ Goto(t, [Idle EXCEPT !.pc = IF Persist THEN "liveIds" ELSE "allDocs"])
  /\ UNCHANGED <<coll, heap, mem, fromFile, disk, ghosts, bounds>>

LiveIds(t) ==
  /\ At(t, "liveIds")
  /\ Goto(t, [thread[t] EXCEPT !.pc = "load", !.ids = IdsIn(coll)])
  /\ Untouched /\ UNCHANGED bounds

Publish(t, c) ==
  /\ heap' = Append(heap, c)
  /\ mem' = Len(heap) + 1
  /\ lock' = NoThread

\* Bug: as many chunks is taken for the same chunks.
FitsByCount(file, live) == Cardinality(IdsIn(file)) = Cardinality(live)
Fits(file, live) == IdsIn(file) = live

\* _load_cached: a file whose ids are those of the collection is the index.
Load(t) ==
  /\ At(t, "load")
  /\ \/ /\ disk # NoFile
        /\ Fits(disk, thread[t].ids)
        /\ Publish(t, disk)
        /\ fromFile' = fromFile \cup {Len(heap) + 1}
        /\ Goto(t, Idle)
        /\ UNCHANGED <<coll, disk, ghosts>>
     \/ /\ disk = NoFile \/ (disk # NoFile /\ ~Fits(disk, thread[t].ids))
        /\ Goto(t, [thread[t] EXCEPT !.pc = "allDocs"])
        /\ Untouched
  /\ UNCHANGED bounds

\* The documents are fetched; the index is built from them and enters the dict.
AllDocs(t) ==
  /\ At(t, "allDocs")
  /\ Goto(t, [thread[t] EXCEPT !.pc = "publish", !.copy = coll])
  /\ Untouched /\ UNCHANGED bounds

PublishBuilt(t) ==
  /\ At(t, "publish")
  /\ Publish(t, thread[t].copy)
  /\ Goto(t, IF Persist THEN [Idle EXCEPT !.pc = "saveFind"] ELSE Idle)
  /\ UNCHANGED <<coll, fromFile, disk, ghosts, bounds>>

-----------------------------------------------------------------------------
(***************************************************************************)
(* save_index: find the object, copy it under its own lock, put the file   *)
(* in place.  Every error on the way is passed over; two saves share one   *)
(* temporary file, so that an unreadable one may come of it (as good as    *)
(* none: the loader rebuilds).                                             *)
(***************************************************************************)
AfterSave(t) == IF thread[t].kind = "none" THEN Idle
                ELSE [thread[t] EXCEPT !.pc = "deleted", !.idx = 0, !.copy = Empty]

SaveFind(t) ==
  /\ At(t, "saveFind")
  /\ Unlocked
  /\ Goto(t, IF mem = 0 THEN AfterSave(t)
             ELSE [thread[t] EXCEPT !.pc = "saveCopy", !.idx = mem])
  /\ Untouched /\ UNCHANGED bounds

SaveCopy(t) ==
  /\ At(t, "saveCopy")
  /\ Goto(t, [thread[t] EXCEPT !.pc = "saveReplace", !.copy = heap[thread[t].idx]])
  /\ Untouched /\ UNCHANGED bounds

SaveReplace(t) ==
  /\ At(t, "saveReplace")
  /\ disk' \in {thread[t].copy, disk, NoFile}
  /\ Goto(t, AfterSave(t))
  /\ UNCHANGED <<coll, heap, mem, fromFile, lock, ghosts, bounds>>

-----------------------------------------------------------------------------
(***************************************************************************)
(* What writes the corpus: an ingest of a new paper, a delete, and what    *)
(* replaces a paper (an ingest of a changed file, POST /ingest/reindex):   *)
(* its chunks are deleted, then written anew.                              *)
(***************************************************************************)
Begin(t, o) ==
  /\ At(t, "idle")
  /\ ops < MaxOps
  /\ Overlap \/ \A u \in Threads : thread[u].kind = "none"
  /\ ops' = ops + 1
  /\ Goto(t, o)
  /\ Untouched /\ UNCHANGED <<faults, restarts>>

StartIngest(t) ==
  \E S \in (SUBSET (Ids \ IdsIn(coll))) \ {{}} : \E x \in Texts :
    Begin(t, [Idle EXCEPT !.pc = "upsert", !.kind = "ingest", !.ids = S,
                          !.new = [i \in Ids |-> IF i \in S THEN x ELSE NoText]])

StartDelete(t) ==
  \E S \in (SUBSET IdsIn(coll)) \ {{}} :
    Begin(t, [Idle EXCEPT !.pc = "delete", !.kind = "delete", !.ids = S])

StartReplace(t) ==
  \E S \in (SUBSET IdsIn(coll)) \ {{}} : \E x \in Texts :
    Begin(t, [Idle EXCEPT !.pc = "delete", !.kind = "replace", !.ids = S,
                          !.new = [i \in Ids |-> IF i \in S THEN x ELSE NoText]])

\* add_documents succeeds; or it fails, takes back what it had written for the first
\* time, and the ingest ends with no refresh.
Upsert(t) ==
  /\ At(t, "upsert")
  /\ \/ /\ coll' = Put(coll, thread[t].new)
        /\ Goto(t, [thread[t] EXCEPT !.pc = "invalidate"])
        /\ UNCHANGED faults
     \/ /\ faults < MaxFaults
        /\ faults' = faults + 1
        /\ coll' = Put(coll, thread[t].new)
        /\ Goto(t, [thread[t] EXCEPT !.pc = "rollback", !.ids = @ \ IdsIn(coll)])
  /\ UNCHANGED <<heap, mem, fromFile, disk, lock, ghosts, ops, restarts>>

Rollback(t) ==
  /\ At(t, "rollback")
  /\ coll' = Drop(coll, thread[t].ids)
  /\ ghosts' = ghosts \cup IdsIn(thread[t].new)
  /\ Goto(t, Idle)
  /\ UNCHANGED <<heap, mem, fromFile, disk, lock, bounds>>

\* The rows go; or the call raises, which ends a delete and POST /ingest/reindex, and
\* which an ingest logs before it goes on.
DeleteRows(t) ==
  /\ At(t, "delete")
  /\ \/ /\ coll' = Drop(coll, thread[t].ids)
        /\ Goto(t, [thread[t] EXCEPT !.pc = "removeFind"])
        /\ UNCHANGED faults
     \/ /\ faults < MaxFaults
        /\ faults' = faults + 1
        /\ UNCHANGED coll
        /\ \/ Goto(t, Idle)
           \/ thread[t].kind = "replace" /\ Goto(t, [thread[t] EXCEPT !.pc = "upsert"])
  /\ UNCHANGED <<heap, mem, fromFile, disk, lock, ghosts, ops, restarts>>

\* remove_from_index: nothing in the dict, nothing to do (and nothing saved).
RemoveFind(t) ==
  /\ At(t, "removeFind")
  /\ Unlocked
  /\ Goto(t, [thread[t] EXCEPT !.pc = IF mem = 0 THEN "deleted" ELSE "removeDo", !.idx = mem])
  /\ Untouched /\ UNCHANGED bounds

RemoveDo(t) ==
  /\ At(t, "removeDo")
  /\ heap' = [heap EXCEPT ![thread[t].idx] = Drop(@, thread[t].ids)]
  /\ Goto(t, [thread[t] EXCEPT !.pc = IF Persist THEN "saveFind" ELSE "deleted", !.idx = 0])
  /\ UNCHANGED <<coll, mem, fromFile, disk, lock, ghosts, bounds>>

\* delete_by_paper_id returned: a delete refreshes, a replacement writes first.
Deleted(t) ==
  /\ At(t, "deleted")
  /\ Goto(t, [thread[t] EXCEPT !.pc = IF thread[t].kind = "replace" THEN "upsert"
                                                                    ELSE "invalidate"])
  /\ Untouched /\ UNCHANGED bounds

\* Bug: only the file goes.
ClearNot == UNCHANGED mem
Clear == mem' = 0

\* invalidate: the dict is emptied, then the files of what was in it are deleted.
Invalidate(t) ==
  /\ At(t, "invalidate")
  /\ Unlocked
  /\ Clear
  /\ Goto(t, IF mem = 0 THEN Idle ELSE [Idle EXCEPT !.pc = "unlink"])
  /\ ghosts' = {}
  /\ UNCHANGED <<coll, heap, fromFile, disk, lock, bounds>>

Unlink(t) ==
  /\ At(t, "unlink")
  /\ disk' = NoFile
  /\ Goto(t, Idle)
  /\ UNCHANGED <<coll, heap, mem, fromFile, lock, ghosts, bounds>>

-----------------------------------------------------------------------------
\* The process ends and another one starts: the collection and the file remain.
Restart ==
  /\ restarts < MaxRestarts
  /\ restarts' = restarts + 1
  /\ mem' = 0
  /\ lock' = NoThread
  /\ thread' = [t \in Threads |-> Idle]
  /\ ghosts' = {}
  /\ UNCHANGED <<coll, heap, fromFile, disk, ops, faults>>

Step(t) ==
  \/ StartBuild(t) \/ LiveIds(t) \/ Load(t) \/ AllDocs(t) \/ PublishBuilt(t)
  \/ SaveFind(t) \/ SaveCopy(t) \/ SaveReplace(t)
  \/ StartIngest(t) \/ StartDelete(t) \/ StartReplace(t)
  \/ Upsert(t) \/ Rollback(t) \/ DeleteRows(t)
  \/ RemoveFind(t) \/ RemoveDo(t) \/ Deleted(t) \/ Invalidate(t) \/ Unlink(t)

Next == (\E t \in Threads : Step(t)) \/ Restart

Spec == Init /\ [][Next]_vars

-----------------------------------------------------------------------------
Places == {"idle", "liveIds", "load", "allDocs", "publish", "saveFind", "saveCopy",
           "saveReplace", "upsert", "rollback", "delete", "removeFind", "removeDo",
           "deleted", "invalidate", "unlink"}

\* The collection, the objects, the file and the threads have their types.
TypeOK ==
  /\ coll \in Content
  /\ heap \in Seq(Content)
  /\ mem \in 0..Len(heap)
  /\ fromFile \subseteq 1..Len(heap)
  /\ disk \in Content \cup {NoFile}
  /\ lock \in Threads \cup {NoThread}
  /\ \A t \in Threads : thread[t].pc \in Places /\ thread[t].idx \in 0..Len(heap)

\* No corpus operation is between its first write and the emptying of the dict.
Refreshed == \A t \in Threads : thread[t].kind = "none"

\* Once the operations on the corpus have refreshed the index, the index that queries get
\* knows exactly the chunks of the collection: a build that read the collection too early
\* does not survive, nor does a chunk deleted while the index was being built or loaded.
\* (The ids of an ingest that failed and was rolled back are the exception: it does not
\* touch the index, until the next operation that does.)
IdsCurrent ==
  Refreshed /\ mem # 0 => IdsIn(heap[mem]) \ ghosts = IdsIn(coll) \ ghosts

\* And an index that was built, not loaded, has their text.
BuiltIsCurrent ==
  Refreshed /\ mem # 0 /\ mem \notin fromFile =>
    \A i \in Ids \ ghosts : heap[mem][i] = coll[i]

\* "invalidate() deletes the persisted caches, since chunk ids are positional and a reused
\* id would otherwise resurrect stale text": no index serves the text a chunk had before.
NoStaleText ==
  Refreshed /\ mem # 0 =>
    \A i \in Ids \ ghosts : heap[mem][i] \in {NoText, coll[i]}

=============================================================================
