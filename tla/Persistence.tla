---------------------------- MODULE Persistence ----------------------------
(***************************************************************************)
(* The threads of a process that write sessions.db: one SQLite connection  *)
(* behind one re-entrant lock, _db_lock, one transaction that a COMMIT     *)
(* publishes whoever wrote its rows, and batches that put the COMMIT off   *)
(* (batch_writes, _maybe_commit).  A request writes one value to the rows  *)
(* of each of its units: one unit for a plain write and for record_ingest, *)
(* one for each paper of a batch.                                          *)
(*                                                                         *)
(* Readers have connections of their own (_read_conn) and see what is      *)
(* committed, or take the lock and see conn; they change nothing.  Other   *)
(* processes write the same file, one transaction each.                    *)
(***************************************************************************)
EXTENDS Naturals

CONSTANTS
  Writers,     \* threads of the process
  Events,      \* event ids of the ingest log (one per paper)
  Others,      \* rows of the tables sessions, jobs, watches, feedback, ...
  Versions,    \* what a row may hold
  NoValue, NoRequest,
  MayTear,     \* a plain write of several statements may fail after the first
  GivesUp,     \* SQLite may answer a failed statement by ending the transaction (disk full)
  MaxCalls,    \* bound: requests
  MaxMishaps   \* bound: failures, crashes, writes of other processes

ASSUME PersistenceAssumption ==
  /\ NoValue \notin Versions
  /\ {MayTear, GivesUp} \subseteq BOOLEAN
  /\ {MaxCalls, MaxMishaps} \subseteq Nat

LogRows == {"log"} \X Events
MirrorRows == {"mirror"} \X Events
OtherRows == {"other"} \X Others
Rows == LogRows \cup MirrorRows \cup OtherRows

Both(e) == {<<"log", e>>, <<"mirror", e>>}
Request(kind, v, units) == [kind |-> kind, value |-> v, units |-> units]

\* save_*, log_query, put_metadata_cache, claim_watch, delete_*, and the reaper and the
\* prunes, which write several rows.
PlainWrites ==
  {Request("plain", v, {X}) : v \in Versions \cup {NoValue}, X \in SUBSET OtherRows \ {{}}}

\* delete_ingest_events and clear_ingest_log.
Drops == {Request("plain", NoValue, {X}) : X \in {Both(e) : e \in Events} \cup {LogRows \cup MirrorRows}}

Units(S) == {Both(e) : e \in S}

Records == {Request("record", v, Units({e})) : v \in Versions, e \in Events}

\* ingest_directory and backfill_log, which return early when there is no paper.
BatchKinds == {"ingest", "backfill"}
Batches ==
  {Request(k, v, Units(S)) : k \in BatchKinds, v \in Versions, S \in SUBSET Events \ {{}}}

Requests == PlainWrites \cup Drops \cup Records \cup Batches

ASSUME NoRequestAssumption == NoRequest \notin Requests

VARIABLES
  file,      \* committed
  conn,      \* what _conn sees: file and the rows of its open transaction
  wlock,     \* the open transaction has SQLite's write lock
  depth,     \* _batch_depth
  held,      \* how often each thread has taken _db_lock
  req, pc,   \* what each thread was called for, and where it is
  left,      \* of the thread that holds _db_lock: the units it has not begun,
  unit,      \*   the rows of the one it is at,
  rest,      \*   those not written yet,
  mark,      \*   what the savepoint goes back to,
  unlogged,  \*   and the papers it could not record
  answer,    \* to the last call of each thread: done or not, and the papers it names
  settled,   \* history: conn, when _db_lock was last given back
  calls, mishaps

local == <<left, unit, rest, mark, unlogged>>
threads == <<held, req, pc, local>>
bounds == <<calls, mishaps>>
dbVars == <<file, conn, wlock, depth, threads, answer, settled, bounds>>

NoAnswer == [said |-> "nothing", missing |-> {}]
Failure == [said |-> "error", missing |-> {}]
Done(missing) == [said |-> "done", missing |-> missing]

Blank == [x \in Rows |-> NoValue]
Put(v, U, s) == [x \in Rows |-> IF x \in U THEN v ELSE s[x]]

DbInit ==
  /\ file = Blank /\ conn = Blank /\ settled = Blank /\ mark = Blank
  /\ wlock = FALSE
  /\ depth = 0
  /\ held = [t \in Writers |-> 0]
  /\ req = [t \in Writers |-> NoRequest]
  /\ pc = [t \in Writers |-> "idle"]
  /\ left = {} /\ unit = {} /\ rest = {} /\ unlogged = {}
  /\ answer = [t \in Writers |-> NoAnswer]
  /\ calls = 0 /\ mishaps = 0

-----------------------------------------------------------------------------
Call(t) ==
  /\ pc[t] = "idle"
  /\ calls < MaxCalls
  /\ calls' = calls + 1
  /\ \E r \in Requests : req' = [req EXCEPT ![t] = r]
  /\ pc' = [pc EXCEPT ![t] = "called"]
  /\ answer' = [answer EXCEPT ![t] = NoAnswer]
  /\ UNCHANGED <<file, conn, wlock, depth, held, local, settled, mishaps>>

\* with _db_lock: a thread that holds it may take it again.
Takes(t) ==
  /\ \A u \in Writers \ {t} : held[u] = 0
  /\ held' = [held EXCEPT ![t] = @ + 1]

\* batch_writes is entered.
EnterBatch(t) ==
  /\ pc[t] = "called"
  /\ req[t].kind \in BatchKinds
  /\ Takes(t)
  /\ depth' = depth + 1
  /\ left' = req[t].units
  /\ pc' = [pc EXCEPT ![t] = "batch"]
  /\ UNCHANGED <<file, conn, wlock, req, unit, rest, mark, unlogged, answer, settled, bounds>>

\* A write of its own, or the next paper of a batch.
BeginUnit(t) ==
  /\ pc[t] = "batch" \/ (pc[t] = "called" /\ req[t].kind \notin BatchKinds)
  /\ \E U \in IF pc[t] = "batch" THEN left ELSE req[t].units :
       /\ unit' = U /\ rest' = U
       /\ left' = IF pc[t] = "batch" THEN left \ {U} ELSE {}
  /\ Takes(t)
  /\ pc' = [pc EXCEPT ![t] = "unit"]
  /\ UNCHANGED <<file, conn, wlock, depth, req, mark, unlogged, answer, settled, bounds>>

\* The rows one statement writes: the log's before the mirror's, any other row alone.
Statements(R) ==
  {P \in {R \cap LogRows, R \cap MirrorRows} \cup {{x} : x \in R \cap OtherRows} :
     P # {} /\ (R \cap LogRows = {} \/ P \subseteq LogRows)}

\* The first statement opens the transaction, if none is open, and takes SQLite's lock.
\* A savepoint goes back to what that statement found.
Statement(t) ==
  /\ pc[t] = "unit"
  /\ \E P \in Statements(rest) :
       /\ conn' = Put(req[t].value, P, conn)
       /\ rest' = rest \ P
  /\ wlock' = TRUE
  /\ mark' = IF rest = unit THEN conn ELSE mark
  /\ UNCHANGED <<file, depth, held, req, pc, left, unit, unlogged, answer, settled, bounds>>

\* The lock is given back for good and the caller gets its answer.
Return(t, a) ==
  /\ held' = [held EXCEPT ![t] = 0]
  /\ req' = [req EXCEPT ![t] = NoRequest]
  /\ pc' = [pc EXCEPT ![t] = "idle"]
  /\ answer' = [answer EXCEPT ![t] = a]
  /\ left' = {} /\ unit' = {} /\ rest' = {} /\ unlogged' = {}
  /\ mark' = Blank
  /\ settled' = conn'

\* The write is done; a batch goes on to its next paper.
EndUnit(t) ==
  /\ held' = [held EXCEPT ![t] = @ - 1]
  /\ pc' = [pc EXCEPT ![t] = "batch"]
  /\ unit' = {} /\ rest' = {}
  /\ mark' = Blank
  /\ UNCHANGED <<depth, req, left, answer, settled>>

Rollback == conn' = file /\ wlock' = FALSE

\* Bug: record_ingest has no savepoint.
NothingUndone(t) == conn
\* record_ingest undoes the statement before the one that failed; a plain write has no
\* savepoint.
Undone(t) == IF req[t].kind # "plain" /\ rest # unit THEN mark ELSE conn

\* A statement that fails has written nothing.  On a full disk SQLite ends the transaction.
Raises(t) ==
  /\ pc[t] = "unit" /\ rest # {}
  /\ mishaps < MaxMishaps
  /\ mishaps' = mishaps + 1
  /\ \/ /\ conn' = Undone(t)
        /\ wlock' \in {wlock, TRUE}
        /\ req[t].kind = "plain" /\ rest # unit => MayTear
     \/ GivesUp /\ Rollback
  /\ UNCHANGED <<file, calls>>

WriteFails(t) ==
  /\ Raises(t)
  /\ req[t].kind \in {"plain", "record"}
  /\ Return(t, Failure)
  /\ UNCHANGED depth

\* _record_ingest returns False and ingest_directory goes on.
PaperFails(t) ==
  /\ Raises(t)
  /\ req[t].kind = "ingest"
  /\ unlogged' = unlogged \cup {unit}
  /\ EndUnit(t)

\* backfill_log catches nothing: batch_writes rolls back and raises.
BatchFails(t) ==
  /\ pc[t] = "unit" /\ rest # {}
  /\ req[t].kind = "backfill"
  /\ mishaps < MaxMishaps
  /\ mishaps' = mishaps + 1
  /\ depth = 1
  /\ depth' = depth - 1
  /\ Rollback
  /\ Return(t, Failure)
  /\ UNCHANGED <<file, calls>>

\* _maybe_commit and the end of batch_writes.  A COMMIT that fails either leaves the
\* transaction open (busy) or has SQLite roll it back (disk full).
Commit(t, a) ==
  /\ \/ /\ file' = conn /\ wlock' = FALSE
        /\ UNCHANGED <<conn, mishaps>>
        /\ Return(t, a)
     \/ /\ mishaps < MaxMishaps
        /\ mishaps' = mishaps + 1
        /\ Rollback \/ UNCHANGED <<conn, wlock>>
        /\ UNCHANGED file
        /\ Return(t, Failure)
  /\ UNCHANGED calls

\* Bug: every write commits.
CommitNow == file' = conn /\ wlock' = FALSE /\ UNCHANGED conn
\* _maybe_commit within a batch.
PutOff == UNCHANGED <<file, conn, wlock>>

EndWrite(t) ==
  /\ pc[t] = "unit" /\ rest = {}
  /\ \/ /\ depth = 0
        /\ Commit(t, Done({}))
        /\ UNCHANGED depth
     \/ /\ depth > 0
        /\ PutOff
        /\ EndUnit(t)
        /\ UNCHANGED <<unlogged, bounds>>

\* batch_writes is left.  (The code never nests batches, see DbTypeOK.)
EndBatch(t) ==
  /\ pc[t] = "batch" /\ left = {}
  /\ depth = 1
  /\ depth' = depth - 1
  /\ Commit(t, Done(unlogged))

\* The process dies and starts again; SQLite drops what was not committed.
Crash ==
  /\ mishaps < MaxMishaps
  /\ mishaps' = mishaps + 1
  /\ Rollback
  /\ depth' = 0
  /\ held' = [t \in Writers |-> 0]
  /\ req' = [t \in Writers |-> NoRequest]
  /\ pc' = [t \in Writers |-> "idle"]
  /\ answer' = [t \in Writers |-> NoAnswer]
  /\ left' = {} /\ unit' = {} /\ rest' = {} /\ unlogged' = {}
  /\ mark' = Blank
  /\ settled' = file
  /\ UNCHANGED <<file, calls>>

\* A transaction of another process, as atomic as SQLite makes it.
Foreign ==
  /\ ~wlock
  /\ mishaps < MaxMishaps
  /\ mishaps' = mishaps + 1
  /\ \E r \in Requests : \E S \in SUBSET r.units :
       /\ r.kind # "ingest" => S = r.units
       /\ file' = Put(r.value, UNION S, file)
  /\ conn' = file' /\ settled' = file'
  /\ UNCHANGED <<wlock, depth, threads, answer, calls>>

WriterStep(t) ==
  \/ EnterBatch(t) \/ BeginUnit(t) \/ Statement(t)
  \/ WriteFails(t) \/ PaperFails(t) \/ BatchFails(t)
  \/ EndWrite(t) \/ EndBatch(t)

DbNext == (\E t \in Writers : Call(t) \/ WriterStep(t)) \/ Crash \/ Foreign

DbSpec == DbInit /\ [][DbNext]_dbVars

-----------------------------------------------------------------------------
Store == [Rows -> Versions \cup {NoValue}]

\* The rows, the lock counts and the locals have their types; a thread takes the lock at
\* most twice, and batches are never nested.
DbTypeOK ==
  /\ {file, conn, mark, settled} \subseteq Store
  /\ wlock \in BOOLEAN
  /\ depth \in {0, 1}
  /\ held \in [Writers -> {0, 1, 2}]
  /\ req \in [Writers -> Requests \cup {NoRequest}]
  /\ pc \in [Writers -> {"idle", "called", "batch", "unit"}]
  /\ {left, unlogged} \subseteq SUBSET SUBSET Rows
  /\ {unit, rest} \subseteq SUBSET Rows
  /\ answer \in [Writers -> [said : {"nothing", "error", "done"}, missing : SUBSET SUBSET Rows]]
  /\ {calls, mishaps} \subseteq Nat

\* "the mirror is only trustworthy if it cannot lag the row it mirrors": of every paper
\* the committed row of paper_index is that of ingest_log, whichever statement or COMMIT
\* failed before and whichever thread's COMMIT published what it left.
MirrorAgrees == \A e \in Events : file[<<"log", e>>] = file[<<"mirror", e>>]

\* Each request happens at once or fails as a whole, even where a COMMIT publishes what
\* another thread left in the transaction (batch_writes's docstring).
Tx == INSTANCE TxStore WITH store <- file, pending <- settled, asked <- req
IsTxStore == Tx!TxSpec

\* "A row that fails commits the REST of the batch rather than rolling back": what an
\* answer does not name is committed.
RestCommitted ==
  [][\A t \in Writers : req[t] # NoRequest /\ req'[t] = NoRequest /\ answer'[t].said = "done" =>
       \A U \in req[t].units \ answer'[t].missing : \A x \in U : file'[x] = req[t].value]_dbVars

=============================================================================
