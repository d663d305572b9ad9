------------------------------- MODULE Corpus -------------------------------
(***************************************************************************)
(* The two copies of the corpus, written one after the other without a     *)
(* common transaction: the chunks in the ChromaDB collection and the       *)
(* ingest log in SQLite, the record a reindex replays from.  Every request *)
(* or command that writes them is a worker that takes one step per ChromaDB*)
(* call or SQLite transaction (ingest.py, vector_store.py, reindex.py,     *)
(* purge.py, routes/ingest.py, routes/management.py).                      *)
(*                                                                         *)
(* A chunk id names a paper and a slot; the slots of a version of a paper  *)
(* are given by SlotsOf.  A ChromaDB write succeeds, is refused (it raises *)
(* at once, or the circuit is open) or times out; a call that timed out    *)
(* keeps running and may land at any later moment, or never.               *)
(***************************************************************************)
EXTENDS Naturals, FiniteSets

CONSTANTS
  Papers,       \* paper ids
  Slots,        \* chunk positions within a paper
  Versions,     \* contents a paper's file may have
  SlotsOf,      \* the slots the chunker gives a version
  Twins,        \* the papers whose title matches a paper's
  Workers,      \* requests and commands that may run at a time
  Kinds,        \* the operations this instance starts
  Overlap,      \* may two running operations concern the same paper?
  BatchSize,    \* config.CHROMA_UPSERT_BATCH
  MaxOps,       \* bound: operations started
  MaxFaults,    \* bound: calls refused, failed log writes
  MaxTimeouts,  \* bound: ChromaDB writes that time out
  MaxCrashes,   \* bound: crashes of the process
  NoChunk, NoRow

Chunk == [ver : Versions, edited : BOOLEAN]
Content == [Slots -> Chunk \cup {NoChunk}]

ASSUME CorpusAssumption ==
  /\ SlotsOf \in [Versions -> (SUBSET Slots) \ {{}}]
  /\ Twins \in [Papers -> SUBSET Papers]
  /\ Overlap \in BOOLEAN
  /\ BatchSize \in Nat \ {0}
  /\ {MaxOps, MaxFaults, MaxTimeouts, MaxCrashes} \subseteq Nat
  /\ IsFiniteSet(Papers) /\ IsFiniteSet(Slots)
  /\ NoChunk \notin Versions \cup Chunk /\ NoRow \notin Content

VARIABLES
  chroma,    \* the collection: chunk id -> chunk
  log,       \* the ingest log (and paper_index, written in the same transaction)
  op,        \* what each worker is doing
  late,      \* ChromaDB calls that timed out and still run
  reported,  \* papers an operation failed over aloud, and that have not agreed since: an ERROR
             \* was logged about their rows, or the operation raised and undid nothing
  suspect,   \* papers of an operation cut short by a crash or of a late call
  faults, timeouts, crashes, started   \* counters of the bounds

budget == <<faults, timeouts, crashes, started>>
vars == <<chroma, log, op, late, reported, suspect, budget>>

-----------------------------------------------------------------------------
Ids == Papers \X Slots
IdsOf(S) == S \X Slots
Empty == [i \in Ids |-> NoChunk]
Present(ch) == {i \in Ids : ch[i] # NoChunk}
PaperOf(i) == i[1]
ChunksOf(ch, p) == [s \in Slots |-> ch[<<p, s>>]]
NoChunks == [s \in Slots |-> NoChunk]

\* The chunks _build_paper_chunks makes of version v of paper p.
BuiltChunks(p, v) ==
  [i \in Ids |-> IF i[1] = p /\ i[2] \in SlotsOf[v]
                 THEN [ver |-> v, edited |-> FALSE] ELSE NoChunk]

Overlay(ch, new) == [i \in Ids |-> IF new[i] = NoChunk THEN ch[i] ELSE new[i]]
Without(ch, ids) == [i \in Ids |-> IF i \in ids THEN NoChunk ELSE ch[i]]

\* A write handed to ChromaDB: the rows it upserts, those it deletes,
\* the rows whose metadata it edits (a missing row is skipped).
Upsert(new) == [put |-> new, drop |-> {}, edit |-> {}]
Delete(ids) == [put |-> Empty, drop |-> ids, edit |-> {}]
Update(ids) == [put |-> Empty, drop |-> {}, edit |-> ids]
Edited(ch, ids) == [i \in Ids |-> IF i \in ids /\ ch[i] # NoChunk
                                  THEN [ch[i] EXCEPT !.edited = TRUE] ELSE ch[i]]
After(ch, call) == Edited(Without(Overlay(ch, call.put), call.drop), call.edit)
Touched(call) == {i[1] : i \in Present(call.put) \cup call.drop \cup call.edit}

\* The text of the chunks, without the metadata PATCH edits.
Text(content) == [s \in Slots |-> IF content[s] = NoChunk THEN NoChunk ELSE content[s].ver]
Logged(lg, p) == IF lg[p] = NoRow THEN NoChunks ELSE lg[p]

\* The chunks of the paper are not those the log would replay (check_db.reconcile sees
\* it when the ids differ; the text may differ under the same ids).
Diverges(ch, lg, p) == Text(ChunksOf(ch, p)) # Text(Logged(lg, p))

-----------------------------------------------------------------------------
Idle == [kind |-> "none", pc |-> "idle", scope |-> {}, src |-> <<>>, todo |-> {},
         prep |-> {}, dels |-> {}, target |-> {}, ids |-> {}, new |-> Empty,
         left |-> {}, pre |-> {}, preKnown |-> TRUE, attempted |-> {},
         created |-> {}, events |-> [p \in Papers |-> NoRow]]

Init ==
  /\ chroma = Empty
  /\ log = [p \in Papers |-> NoRow]
  /\ op = [w \in Workers |-> Idle]
  /\ late = {}
  /\ reported = {} /\ suspect = {}
  /\ faults = 0 /\ timeouts = 0 /\ crashes = 0 /\ started = 0

\* A worker picks up a request.  Nothing in the code keeps two requests off one paper.
Begin(w, S, o) ==
  /\ op[w].pc = "idle"
  /\ o.kind \in Kinds
  /\ started < MaxOps
  /\ Overlap \/ \A u \in Workers : op[u].scope \cap S = {}
  /\ op' = [op EXCEPT ![w] = [o EXCEPT !.scope = S]]
  /\ started' = started + 1
  /\ UNCHANGED <<chroma, log, late, reported, suspect, faults, timeouts, crashes>>

\* What a ChromaDB call, or a transaction, does to the budgets.
NoFault == UNCHANGED budget
Refused ==
  /\ faults < MaxFaults
  /\ faults' = faults + 1
  /\ UNCHANGED <<timeouts, crashes, started>>

Applied(call) == chroma' = After(chroma, call) /\ UNCHANGED late
Done(call) == Applied(call) /\ NoFault

\* The call raises; when it merely timed out it goes on in its pool thread.
Raised(call) ==
  /\ UNCHANGED chroma
  /\ \/ Refused /\ UNCHANGED late
     \/ /\ timeouts < MaxTimeouts
        /\ timeouts' = timeouts + 1
        /\ late' = late \cup {call}
        /\ UNCHANGED <<faults, crashes, started>>

Suspects == suspect \cup UNION {Touched(c) : c \in late' \ late}

\* The worker goes on with o, an ERROR having been logged about the papers of rep.
Proceed(w, o, rep) ==
  /\ op' = [op EXCEPT ![w] = o]
  /\ reported' = reported \cup rep
  /\ suspect' = Suspects

\* The operation returns or raises, having told of the papers of rep.  A paper found in
\* agreement needs no report.
Finish(w, rep) ==
  LET healed == {p \in op[w].scope : ~Diverges(chroma', log', p)} IN
  /\ op' = [op EXCEPT ![w] = Idle]
  /\ reported' = (reported \cup rep) \ healed
  /\ suspect' = Suspects \ {p \in healed : \A c \in late' : p \notin Touched(c)}

ReadOnly == UNCHANGED <<chroma, log, late>>

-----------------------------------------------------------------------------
(***************************************************************************)
(* Ingest: ingest_pdf (one paper) and ingest_directory (many), checked     *)
(* paper by paper, then embedded and written as one batch.                 *)
(***************************************************************************)
StartIngest(w) ==
  \E S \in (SUBSET Papers) \ {{}} : \E src \in [S -> Versions] :
    Begin(w, S, [Idle EXCEPT !.kind = "ingest", !.pc = "check", !.todo = S, !.src = src])

\* The body was already indexed, or prepared in this batch, under another id.
SameBody(o, p) ==
  \E q \in Twins[p] \ {p} : \/ q \in o.prep /\ o.src[q] = o.src[p]
                            \/ \E s \in Slots : /\ chroma[<<q, s>>] # NoChunk
                                                /\ chroma[<<q, s>>].ver = o.src[p]

\* find_similar_paper: by the log's mirror, by the collection when that is empty.
SameTitle(p) ==
  \E q \in Twins[p] \ {p} : IF \E r \in Papers : log[r] # NoRow
                            THEN log[q] # NoRow
                            ELSE ChunksOf(chroma, q) # NoChunks

\* p has been looked at: kept (its old chunks to be deleted first when del) or dropped.
Checked(w, p, keep, del) ==
  LET o == op[w]
      next == [o EXCEPT
                 !.todo = @ \ {p},
                 !.prep = IF keep THEN @ \cup {p} ELSE @,
                 !.dels = IF del THEN @ \cup {p} ELSE @,
                 !.new = IF keep THEN Overlay(@, BuiltChunks(p, o.src[p])) ELSE @]
  IN IF next.todo # {}
     THEN Proceed(w, next, {})
     ELSE IF next.prep # {}
          THEN Proceed(w, [next EXCEPT !.pc = "embed"], {})
          ELSE Finish(w, {})

\* _build_paper_chunks: unchanged, changed, duplicate, fresh, or the read raised.
\* The hash compared is that of whichever chunk of the paper ChromaDB returns.
Check(w) ==
  /\ op[w].pc = "check"
  /\ ReadOnly
  /\ \E p \in op[w].todo :
       LET old == {i \in Present(chroma) : i[1] = p}
           v == op[w].src[p]
       IN \/ Refused /\ Checked(w, p, FALSE, FALSE)
          \/ /\ NoFault
             /\ \E i \in old : IF chroma[i].ver = v THEN Checked(w, p, FALSE, FALSE)
                                                    ELSE Checked(w, p, TRUE, TRUE)
          \/ /\ NoFault
             /\ old = {}
             /\ SameBody(op[w], p) \/ SameTitle(p)
             /\ Checked(w, p, FALSE, FALSE)
          \/ /\ NoFault
             /\ old = {}
             /\ ~SameBody(op[w], p)
             /\ SameTitle(p) => log[p] # NoRow   \* its own row may score as high
             /\ Checked(w, p, TRUE, FALSE)

\* Embedding comes before the old chunks are deleted.
Embed(w) ==
  /\ op[w].pc = "embed"
  /\ ReadOnly
  /\ \/ /\ NoFault
        /\ Proceed(w, [op[w] EXCEPT !.pc = IF op[w].dels = {} THEN "preexist" ELSE "delGet"], {})
     \/ Refused /\ Finish(w, {})

-----------------------------------------------------------------------------
(***************************************************************************)
(* delete_by_paper_id, on its own (DELETE /papers), first in               *)
(* /ingest/reindex, and for every changed paper of an ingest, which only   *)
(* logs what goes wrong in it.                                             *)
(***************************************************************************)
StartDelete(w) ==
  \E p \in Papers :
    Begin(w, {p}, [Idle EXCEPT !.kind = "delete", !.pc = "delGet", !.dels = {p}])

StartReindexRoute(w) ==
  \E p \in Papers, v \in Versions :
    Begin(w, {p}, [Idle EXCEPT !.kind = "reindex", !.pc = "delGet", !.dels = {p},
                               !.todo = {p}, !.src = [q \in {p} |-> v]])

\* How the three callers go on once the delete of p returned or raised: an ingest goes on
\* whatever it was, with an ERROR about p.
DeleteReturned(w, p, outcome) ==
  LET o == [op[w] EXCEPT !.dels = @ \ {p}, !.ids = {}]
      named == IF outcome = "incomplete" THEN {p} ELSE {}
  IN \/ /\ o.prep # {}
        /\ Proceed(w, [o EXCEPT !.pc = IF o.dels = {} THEN "preexist" ELSE "delGet"],
                   IF outcome = "done" THEN {} ELSE {p})
     \/ /\ o.prep = {}
        /\ o.kind = "delete" \/ outcome = "raised"
        /\ Finish(w, named)
     \/ /\ o.prep = {}
        /\ o.kind = "reindex" /\ outcome # "raised"
        /\ Proceed(w, [o EXCEPT !.pc = "check"], named)

DelGet(w) ==
  /\ op[w].pc = "delGet"
  /\ ReadOnly
  /\ \E p \in op[w].dels :
       \/ /\ NoFault
          /\ Proceed(w, [op[w] EXCEPT !.pc = "delDo", !.target = {p},
                                      !.ids = {i \in Present(chroma) : i[1] = p}], {})
       \/ Refused /\ DeleteReturned(w, p, "raised")

DelDo(w) ==
  /\ op[w].pc = "delDo"
  /\ UNCHANGED log
  /\ \E p \in op[w].target :
       \/ /\ Done(Delete(IdsOf({p})))
          /\ IF op[w].ids = {} THEN DeleteReturned(w, p, "done")
                               ELSE Proceed(w, [op[w] EXCEPT !.pc = "cascade"], {})
       \/ Raised(Delete(IdsOf({p}))) /\ DeleteReturned(w, p, "raised")

\* The lexical index and then the log, each tried twice; the steps that failed
\* twice make the delete incomplete, the other is still taken.
Cascade(w) ==
  /\ op[w].pc = "cascade"
  /\ UNCHANGED <<chroma, late>>
  /\ \E p \in op[w].target, bm25Ok \in BOOLEAN, logOk \in BOOLEAN :
       /\ log' = IF logOk THEN [log EXCEPT ![p] = NoRow] ELSE log
       /\ IF bm25Ok /\ logOk
          THEN NoFault /\ DeleteReturned(w, p, "done")
          ELSE Refused /\ DeleteReturned(w, p, "incomplete")

-----------------------------------------------------------------------------
(***************************************************************************)
(* add_documents: upsert in batches, undo what a failed run created.       *)
(***************************************************************************)
Preexist(w) ==
  /\ op[w].pc = "preexist"
  /\ ReadOnly
  /\ \E known \in BOOLEAN :
       /\ IF known THEN NoFault ELSE Refused
       /\ LET ids == Present(op[w].new) IN
          Proceed(w, [op[w] EXCEPT !.pc = "upsert", !.left = ids,
                                   !.pre = IF known THEN ids \cap Present(chroma) ELSE {},
                                   !.preKnown = known, !.attempted = {}, !.created = {}], {})

\* Every batch is acknowledged: a replay takes its next paper, an ingest writes the log.
Added(w, o) ==
  IF o.kind # "replay"
  THEN Proceed(w, [o EXCEPT !.pc = "record"], {})
  ELSE IF o.todo # {} THEN Proceed(w, [o EXCEPT !.pc = "replay"], {}) ELSE Finish(w, {})

\* Bug: a batch that raised is taken for written.
UpsertSwallows(w) ==
  /\ op[w].pc = "upsert"
  /\ UNCHANGED log
  /\ Done(Upsert(op[w].new)) \/ Raised(Upsert(op[w].new))
  /\ Added(w, [op[w] EXCEPT !.left = {}])

\* What add_documents may leave behind when it raises and undoes nothing: the papers it was
\* called for, and for a replay those it has not come to.
Abandoned(o) == IF o.kind = "replay" THEN Papers ELSE o.prep

\* The last line of add_documents counts the collection outside its try: if that raises,
\* every row stays, nothing is undone and no row of the log is written.
UpsertBatch(w) ==
  /\ op[w].pc = "upsert"
  /\ UNCHANGED log
  /\ \E b \in SUBSET op[w].left :
       LET size == Cardinality(op[w].left)
           call == Upsert([i \in Ids |-> IF i \in b THEN op[w].new[i] ELSE NoChunk])
           mine == b \ Present(chroma)
           o == [op[w] EXCEPT !.left = @ \ b, !.attempted = @ \cup b]
       IN /\ Cardinality(b) = IF size < BatchSize THEN size ELSE BatchSize
          /\ \/ /\ Done(call)
                /\ IF o.left # {} THEN Proceed(w, [o EXCEPT !.created = @ \cup mine], {})
                                  ELSE Added(w, o)
             \/ /\ o.left = {}
                /\ Applied(call) /\ Refused
                /\ Finish(w, Abandoned(op[w]))
             \/ /\ Raised(call)
                /\ Proceed(w, [o EXCEPT !.pc = "rollback",
                                 !.created = IF late' = late THEN @ ELSE @ \cup mine], {})

\* Bugs: rows that were there before are undone too; nothing is undone.
OrphansAll(o) == o.attempted
OrphansNone(o) == {}
Orphans(o) == o.attempted \ o.pre

\* One ERROR is about the overwritten rows, which are kept, another about those a failed
\* rollback leaves (each lists five ids at most).  Then add_documents raises; a replay ends
\* there, the collection half rebuilt.
Rollback(w) ==
  /\ op[w].pc = "rollback"
  /\ UNCHANGED log
  /\ LET o == op[w]
         orphans == Orphans(o)
         kept == {i[1] : i \in o.attempted \cap o.pre}
         aborted == IF o.kind = "replay" THEN Papers ELSE {}
     IN \/ Done(Delete(orphans)) /\ Finish(w, kept \cup aborted)
        \/ /\ orphans # {}
           /\ Raised(Delete(orphans))
           /\ Finish(w, kept \cup aborted \cup {i[1] : i \in orphans})

\* The rows of a batch share a transaction; one that fails is left out and named.
Record(w) ==
  /\ op[w].pc = "record"
  /\ UNCHANGED <<chroma, late>>
  /\ \E failed \in SUBSET op[w].prep :
       /\ IF failed = {} THEN NoFault ELSE Refused
       /\ log' = [p \in Papers |-> IF p \in op[w].prep \ failed
                                   THEN ChunksOf(op[w].new, p) ELSE log[p]]
       /\ Finish(w, failed)

-----------------------------------------------------------------------------
(***************************************************************************)
(* reindex.py: replay the log into a collection that was reset, or rebuild *)
(* the log from the collection (--backfill-log).                           *)
(***************************************************************************)
StartReplay(w) ==
  /\ \E p \in Papers : log[p] # NoRow
  /\ Begin(w, Papers, [Idle EXCEPT !.kind = "replay", !.pc = "reset", !.events = log])

\* reset=True: an exception of delete_collection is passed over.  A call still
\* running on the deleted collection can no longer land.
ReplayReset(w) ==
  /\ op[w].pc = "reset"
  /\ UNCHANGED log
  /\ \/ NoFault /\ chroma' = Empty /\ late' = {}
     \/ Refused /\ UNCHANGED <<chroma, late>>
  /\ Proceed(w, [op[w] EXCEPT !.pc = "replay",
                              !.todo = {p \in Papers : op[w].events[p] # NoRow}], {})

\* Embed the logged chunks of one paper and hand them to add_documents.  If that raises
\* the command ends with the exception; it names no paper.
ReplayPaper(w) ==
  /\ op[w].pc = "replay"
  /\ ReadOnly
  /\ \E p \in op[w].todo :
       \/ /\ NoFault
          /\ Proceed(w, [op[w] EXCEPT !.pc = "preexist", !.todo = @ \ {p},
                           !.new = [i \in Ids |-> IF i[1] = p THEN op[w].events[p][i[2]]
                                                              ELSE NoChunk]], {})
       \/ Refused /\ Finish(w, Papers)

StartBackfill(w) ==
  /\ chroma # Empty
  /\ Begin(w, Papers, [Idle EXCEPT !.kind = "backfill", !.pc = "backfill", !.new = chroma])

\* One transaction: every paper found gets its row, or none does.
BackfillWrite(w) ==
  /\ op[w].pc = "backfill"
  /\ UNCHANGED <<chroma, late>>
  /\ \/ /\ NoFault
        /\ log' = [p \in Papers |-> IF ChunksOf(op[w].new, p) # NoChunks
                                    THEN ChunksOf(op[w].new, p) ELSE log[p]]
     \/ Refused /\ UNCHANGED log
  /\ Finish(w, {})

-----------------------------------------------------------------------------
(***************************************************************************)
(* DELETE /purge/database, purge.py --db and PATCH /papers.                *)
(***************************************************************************)
StartPurge(w) ==
  \E kind \in {"purgeRoute", "purgeCli"} :
    Begin(w, Papers, [Idle EXCEPT !.kind = kind, !.pc = "purge"])

\* The route is done once the collection was replaced, or deleting it failed
\* (which it reports as success); the command goes on to the log.
Purge(w) ==
  /\ op[w].pc = "purge"
  /\ UNCHANGED log
  /\ \/ /\ NoFault /\ chroma' = Empty /\ late' = {}
        /\ IF op[w].kind = "purgeCli" THEN Proceed(w, [op[w] EXCEPT !.pc = "clearLog"], {})
                                      ELSE Finish(w, {})
     \/ Refused /\ UNCHANGED <<chroma, late>> /\ Finish(w, {})

ClearLog(w) ==
  /\ op[w].pc = "clearLog"
  /\ UNCHANGED <<chroma, late>>
  /\ \/ NoFault /\ log' = [p \in Papers |-> NoRow] /\ Finish(w, {})
     \/ Refused /\ UNCHANGED log /\ Finish(w, Papers)

StartPatch(w) ==
  \E p \in Papers :
    /\ ChunksOf(chroma, p) # NoChunks
    /\ Begin(w, {p}, [Idle EXCEPT !.kind = "patch", !.pc = "patch",
                                  !.ids = {i \in Present(chroma) : i[1] = p}])

PatchWrite(w) ==
  /\ op[w].pc = "patch"
  /\ UNCHANGED log
  /\ \/ Done(Update(op[w].ids))
     \/ Raised(Update(op[w].ids))
  /\ Finish(w, {})

-----------------------------------------------------------------------------
\* A call that timed out lands after all, or fails unseen.
Land ==
  \E c \in late :
    /\ chroma' = After(chroma, c)
    /\ late' = late \ {c}
    /\ UNCHANGED <<log, op, reported, suspect, budget>>

Vanish ==
  \E c \in late :
    /\ late' = late \ {c}
    /\ UNCHANGED <<chroma, log, op, reported, suspect, budget>>

\* The process stops: both stores keep what was committed to them.
Crash ==
  /\ crashes < MaxCrashes
  /\ crashes' = crashes + 1
  /\ \E w \in Workers : op[w] # Idle
  /\ op' = [w \in Workers |-> Idle]
  /\ late' = {}
  /\ suspect' = suspect \cup UNION {op[w].scope : w \in Workers}
  /\ UNCHANGED <<chroma, log, reported, faults, timeouts, started>>

Step(w) ==
  \/ StartIngest(w) \/ Check(w) \/ Embed(w)
  \/ StartDelete(w) \/ StartReindexRoute(w) \/ DelGet(w) \/ DelDo(w) \/ Cascade(w)
  \/ Preexist(w) \/ UpsertBatch(w) \/ Rollback(w) \/ Record(w)
  \/ StartReplay(w) \/ ReplayReset(w) \/ ReplayPaper(w)
  \/ StartBackfill(w) \/ BackfillWrite(w)
  \/ StartPurge(w) \/ Purge(w) \/ ClearLog(w)
  \/ StartPatch(w) \/ PatchWrite(w)

Next == (\E w \in Workers : Step(w)) \/ Land \/ Vanish \/ Crash

Spec == Init /\ [][Next]_vars

-----------------------------------------------------------------------------
Call == [put : [Ids -> Chunk \cup {NoChunk}], drop : SUBSET Ids, edit : SUBSET Ids]

\* The stores and the bookkeeping of the operations have their types.
TypeOK ==
  /\ chroma \in [Ids -> Chunk \cup {NoChunk}]
  /\ log \in [Papers -> Content \cup {NoRow}]
  /\ late \in SUBSET Call
  /\ reported \in SUBSET Papers /\ suspect \in SUBSET Papers
  /\ \A w \in Workers :
       /\ op[w].scope \in SUBSET Papers
       /\ op[w].new \in [Ids -> Chunk \cup {NoChunk}]
       /\ op[w].left \in SUBSET Ids
       /\ op[w].attempted \in SUBSET Ids
       /\ op[w].pre \in SUBSET Ids
       /\ op[w].events \in [Papers -> Content \cup {NoRow}]
  /\ <<faults, timeouts, crashes, started>> \in
       (0..MaxFaults) \X (0..MaxTimeouts) \X (0..MaxCrashes) \X (0..MaxOps)

Resting == late = {} /\ \A w \in Workers : op[w] = Idle

\* No operation leaves the collection and the log apart and says it succeeded: once nothing
\* runs, a paper whose chunks are not what the log says is one an operation logged an ERROR
\* about or raised over without undoing what it had done, or belonged to an operation that
\* crashed or to a call that timed out.  (add_documents' rollback and its count,
\* _record_ingest's False, DeleteIncomplete, a replay cut short.)
NoSilentDivergence ==
  Resting => \A p \in Papers : Diverges(chroma, log, p) => p \in reported \cup suspect

\* The rollback of add_documents removes only rows this very call created, whenever
\* the check for rows already there succeeded: no chunk that was in the collection
\* before the call is lost to it.  (Unless a late call or a crash left the paper in doubt.)
RollbackOnlyOwn ==
  [][\A w \in Workers :
       op[w].pc = "rollback" /\ op[w].preKnown /\ op'[w] = Idle =>
         \A i \in Present(chroma) \ Present(chroma') :
           i \in op[w].created \/ PaperOf(i) \in suspect]_vars

\* A row enters the log only over chunks the collection holds at that moment: the
\* log is written after the indexes, so it never claims chunks that failed to land.
\* (A delete that timed out may land before the row is written: such papers are in doubt.)
LogRowsAreBacked ==
  [][\A p \in Papers :
       log'[p] \notin {log[p], NoRow} /\ p \notin suspect =>
         \A s \in Slots : log'[p][s] # NoChunk => chroma[<<p, s>>] = log'[p][s]]_vars

-----------------------------------------------------------------------------
(***************************************************************************)
(* What the comments and documents say and the code does not keep.         *)
(***************************************************************************)

\* "So a failed write is rolled back, restoring all-or-nothing"; "A timed-out upsert
\* no longer escapes rollback": at rest the collection holds no chunk the log does
\* not list, unless the operation said it failed over its paper.
AllOrNothing ==
  Resting => \A i \in Present(chroma) :
               PaperOf(i) \notin reported => Logged(log, i[1])[i[2]] # NoChunk

=============================================================================
