----------------------------- MODULE UrlIngest -----------------------------
(***************************************************************************)
(* Jobs of POST /ingest/from-url that run at the same time                 *)
(* (_run_batch_url_ingest).  Each reads the ids in the index once, then    *)
(* takes its items in turn; the registry _inflight_paper_ids, tested and   *)
(* set under _ingest_lock, keeps two jobs off one paper id.  Items are     *)
(* identifiers as submitted; different items may have the same paper id    *)
(* (_bibtex_safe_id).  POST /ingest, /ingest/all and the watches ingest    *)
(* too and know nothing of the registry.                                   *)
(***************************************************************************)
EXTENDS Naturals, Sequences

CONSTANTS
  UrlJobs,      \* background jobs, each run once
  Items,     \* arXiv ids, DOIs and URLs
  Papers,    \* paper ids
  IdOf,      \* the paper id of an item
  Lists,     \* what a request may resolve to
  MaxOther,  \* bound: ingests and deletes by the other routes, and calls given up on
  NoItem

ASSUME UrlAssumption ==
  /\ IdOf \in [Items -> Papers]
  /\ Lists \subseteq Seq(Items)
  /\ NoItem \notin Items
  /\ MaxOther \in Nat

VARIABLES
  index,     \* what the chunks of a paper id were made from
  inflight,  \* _inflight_paper_ids
  pc,        \* where each job is
  list,      \* its items
  pos,       \* the item it is at
  existing,  \* its existing_paper_ids
  plan,      \* what ingest_pdf decided about the item: write its chunks, or not
  ok, bad,   \* items ingested, items failed or skipped
  strange,   \* history: papers that were given chunks the job does not know of since it read
             \* the ids: by others, or by an item of its own whose ingest failed
  late,      \* items with chunks in a call that ingest_pdf gave up on and ChromaDB may still run
  other

private == <<pc, list, pos, existing, plan, ok, bad>>
urlVars == <<index, inflight, private, strange, late, other>>

Busy == {"download", "check", "write", "release"}   \* between reserving and releasing

Item(j) == list[j][pos[j]]
Paper(j) == IdOf[Item(j)]

UrlInit ==
  /\ index \in [Papers -> {NoItem}]
  /\ inflight = {}
  /\ pc = [j \in UrlJobs |-> "off"]
  /\ list = [j \in UrlJobs |-> <<>>]
  /\ pos = [j \in UrlJobs |-> 1]
  /\ existing = [j \in UrlJobs |-> {}]
  /\ plan = [j \in UrlJobs |-> FALSE]
  /\ ok = [j \in UrlJobs |-> 0]
  /\ bad = [j \in UrlJobs |-> 0]
  /\ strange = [j \in UrlJobs |-> {}]
  /\ late = {}
  /\ other = 0

At(j, here, there) == pc[j] = here /\ pc' = [pc EXCEPT ![j] = there]

-----------------------------------------------------------------------------
\* The request was resolved and its background task starts.
Begin(j) ==
  \E l \in Lists :
    /\ At(j, "off", "snapshot")
    /\ list' = [list EXCEPT ![j] = l]
    /\ UNCHANGED <<index, inflight, pos, existing, plan, ok, bad, strange, late, other>>

\* The ids in the index, read once.  An exception here is caught by nobody.
Snapshot(j) ==
  /\ \/ /\ At(j, "snapshot", "next")
        /\ existing' = [existing EXCEPT ![j] = {p \in Papers : index[p] # NoItem}]
        /\ strange' = [strange EXCEPT ![j] = {}]
     \/ /\ At(j, "snapshot", "dead")
        /\ UNCHANGED <<existing, strange>>
  /\ UNCHANGED <<index, inflight, list, pos, plan, ok, bad, late, other>>

\* The item is over and counts as failed.
Skip(j, there) ==
  /\ At(j, pc[j], there)
  /\ pos' = [pos EXCEPT ![j] = @ + 1]
  /\ bad' = [bad EXCEPT ![j] = @ + 1]
  /\ UNCHANGED <<index, list, existing, plan, ok, strange, late, other>>

\* Bug: nothing is put into the registry.
ReservesNothing(j) == {}
Reserves(j) == {Paper(j)}

\* Bug: a job waits for the id another one holds.
NextWaits(j) ==
  /\ pc[j] = "next"
  /\ pos[j] \in 1..Len(list[j])
  /\ \/ /\ Paper(j) \in existing[j]
        /\ Skip(j, "next")
        /\ UNCHANGED inflight
     \/ /\ Paper(j) \notin existing[j] \cup inflight
        /\ At(j, "next", "download")
        /\ inflight' = inflight \cup Reserves(j)
        /\ UNCHANGED <<index, list, pos, existing, plan, ok, bad, strange, late, other>>

\* Skip what exists or another job is at; reserve what neither holds for.
NextItem(j) ==
  /\ pc[j] = "next"
  /\ pos[j] \in 1..Len(list[j])
  /\ \/ /\ Paper(j) \in existing[j] \cup inflight
        /\ Skip(j, "next")
        /\ UNCHANGED inflight
     \/ /\ Paper(j) \notin existing[j] \cup inflight
        /\ At(j, "next", "download")
        /\ inflight' = inflight \cup Reserves(j)
        /\ UNCHANGED <<index, list, pos, existing, plan, ok, bad, strange, late, other>>

\* Bug: the reservation is not given back when the download fails.
KeepReserved(j) == inflight
Unreserved(j) == inflight \ {Paper(j)}

\* download_pdf returns a path, or None; or it raises (its getaddrinfo and its mkstemp
\* stand outside its handlers), and the task ends there with its reservation.
Download(j) ==
  \/ /\ At(j, "download", "check")
     /\ UNCHANGED <<index, inflight, list, pos, existing, plan, ok, bad, strange, late, other>>
  \/ /\ pc[j] = "download"
     /\ inflight' = Unreserved(j)
     /\ Skip(j, "next")
  \/ /\ At(j, "download", "stranded")
     /\ UNCHANGED <<index, inflight, list, pos, existing, plan, ok, bad, strange, late, other>>

\* ingest_pdf first looks the paper up: a file with the same content is left as it is,
\* any other one is chunked and embedded to replace what is there.  It may raise.
CheckIndex(j) ==
  /\ At(j, "check", "write")
  /\ \E p \in BOOLEAN : plan' = [plan EXCEPT ![j] = p /\ index[Paper(j)] # Item(j)]
  /\ UNCHANGED <<index, inflight, list, pos, existing, ok, bad, strange, late, other>>

\* Bug: the job forgets what it ingested.
KnownAsRead(j) == existing[j]
Known(j) == existing[j] \cup {Paper(j)}

\* A paper has new chunks, of which these jobs are not told.
Unknown(p, jobs) == [k \in UrlJobs |-> IF k \in jobs THEN strange[k] \cup {p} ELSE strange[k]]

\* The chunks are written and the item counts as ingested; or ingest_pdf raises: nothing was
\* done, or the chunks to replace are gone, or new chunks stay (a rollback that failed, the
\* count() after the last batch), or they come when ChromaDB runs the call it gave up on.
Write(j) ==
  /\ pc[j] = "write"
  /\ UNCHANGED <<inflight, list>>
  /\ \/ /\ At(j, "write", "release")
        /\ index' = IF plan[j] THEN [index EXCEPT ![Paper(j)] = Item(j)] ELSE index
        /\ strange' = IF plan[j] THEN Unknown(Paper(j), UrlJobs \ {j}) ELSE strange
        /\ existing' = [existing EXCEPT ![j] = Known(j)]
        /\ ok' = [ok EXCEPT ![j] = @ + 1]
        /\ UNCHANGED <<pos, plan, bad, late, other>>
     \/ /\ At(j, "write", "release")
        /\ bad' = [bad EXCEPT ![j] = @ + 1]
        /\ \/ UNCHANGED <<index, strange>>
           \/ /\ plan[j]
              /\ index' = [index EXCEPT ![Paper(j)] = NoItem]
              /\ UNCHANGED strange
           \/ /\ plan[j]
              /\ index' = [index EXCEPT ![Paper(j)] = Item(j)]
              /\ strange' = Unknown(Paper(j), UrlJobs)
        /\ \/ UNCHANGED <<late, other>>
           \/ /\ plan[j] /\ other < MaxOther
              /\ late' = late \cup {Item(j)}
              /\ other' = other + 1
        /\ UNCHANGED <<existing, pos, plan, ok>>

\* finally: the reservation is given back, whatever happened.
Release(j) ==
  /\ At(j, "release", "next")
  /\ inflight' = Unreserved(j)
  /\ pos' = [pos EXCEPT ![j] = @ + 1]
  /\ UNCHANGED <<index, list, existing, plan, ok, bad, strange, late, other>>

FinishJob(j) ==
  /\ At(j, "next", "done")
  /\ pos[j] \notin 1..Len(list[j])
  /\ UNCHANGED <<index, inflight, list, pos, existing, plan, ok, bad, strange, late, other>>

\* Another route ingests or deletes a paper.
Other ==
  /\ other < MaxOther
  /\ other' = other + 1
  /\ \E p \in Papers, x \in Items \cup {NoItem} :
       /\ x # NoItem => IdOf[x] = p
       /\ index' = [index EXCEPT ![p] = x]
       /\ strange' = IF x = NoItem THEN strange ELSE Unknown(p, UrlJobs)
  /\ UNCHANGED <<inflight, private, late>>

\* ChromaDB runs a call that ingest_pdf gave up on.
Lands ==
  /\ \E x \in late :
       /\ late' = late \ {x}
       /\ index' = [index EXCEPT ![IdOf[x]] = x]
       /\ strange' = Unknown(IdOf[x], UrlJobs)
  /\ UNCHANGED <<inflight, private, other>>

UrlWork(j) ==
  \/ Snapshot(j) \/ NextItem(j) \/ Download(j) \/ CheckIndex(j) \/ Write(j)
  \/ Release(j) \/ FinishJob(j)

UrlNext == (\E j \in UrlJobs : Begin(j) \/ UrlWork(j)) \/ Other \/ Lands

UrlSpec == UrlInit /\ [][UrlNext]_urlVars

\* A background thread goes on, provided downloads and ingests come to an end.
UrlFairSpec == UrlSpec /\ \A j \in UrlJobs : WF_urlVars(UrlWork(j))

-----------------------------------------------------------------------------
Places == {"off", "snapshot", "next", "done", "dead", "stranded"} \cup Busy

\* The registry, the index and the jobs' locals have their types.
UrlTypeOK ==
  /\ index \in [Papers -> Items \cup {NoItem}]
  /\ inflight \in SUBSET Papers
  /\ pc \in [UrlJobs -> Places]
  /\ list \in [UrlJobs -> Seq(Items)]
  /\ pos \in [UrlJobs -> Nat \ {0}]
  /\ existing \in [UrlJobs -> SUBSET Papers]
  /\ plan \in [UrlJobs -> BOOLEAN]
  /\ ok \in [UrlJobs -> Nat] /\ bad \in [UrlJobs -> Nat]
  /\ strange \in [UrlJobs -> SUBSET Papers]
  /\ late \in SUBSET Items
  /\ other \in Nat

\* Two jobs are never between download and the end of the ingest of the same paper id,
\* whatever the order their threads run in (the purpose of the registry).
OneJobPerPaper ==
  \A j, k \in UrlJobs : pc[j] \in Busy /\ pc[k] \in Busy /\ Paper(j) = Paper(k) => j = k

\* The registry holds exactly the ids a job is working on: nothing is left behind by an
\* item that failed, was skipped or raised, and nobody gives back what another job holds.
\* (A download that raises is the exception: its id is never given back.)
RegistryExact ==
  inflight = {Paper(j) : j \in {k \in UrlJobs : pc[k] \in Busy \cup {"stranded"}}}

\* successful + failed is total_files when a job ends: every item is counted once, on
\* whichever of the ways out of the loop body it took.
AllCounted == \A j \in UrlJobs : pc[j] = "done" => ok[j] + bad[j] = Len(list[j])

\* A job that started comes to an end, with an outcome or without one.
JobEnds == \A j \in UrlJobs : pc[j] = "snapshot" ~> pc[j] \in {"done", "dead", "stranded"}

\* "Skips any item whose sanitized paper_id already exists in the corpus": what a job
\* replaces came after the job had read the ids, from another or from an item of its own whose
\* ingest raised and left chunks behind; never what it read, nor what it ingested and counted.
OverwritesOnlyStrange ==
  [][\A j \in UrlJobs : pc[j] = "write" /\ pc'[j] = "release" =>
       \A p \in Papers : index[p] # NoItem /\ index'[p] # index[p] => p \in strange[j]]_urlVars

\* "preventing two overlapping jobs from ingesting the same paper_id (which would silently
\* overwrite another paper's chunks)": what one job ingested, no other job replaces.
NoSilentOverwrite ==
  [][\A j \in UrlJobs : pc[j] = "write" /\ pc'[j] = "release" =>
       \A p \in Papers : index[p] # NoItem => index'[p] = index[p]]_urlVars

=============================================================================
