-------------------------------- MODULE Jobs --------------------------------
(***************************************************************************)
(* Background jobs (bulk ingest, URL ingest, report, compare): a dict in   *)
(* the process that runs the job, written through to a SQLite row that     *)
(* carries a lease.  Several API processes may share the database; each    *)
(* reads it once when it starts (deps.py, at import) and then fails the    *)
(* rows whose lease has expired (api_server.lifespan).                     *)
(*                                                                         *)
(* completed_at and lease_until are times, 0 where the code has None: a    *)
(* status is final exactly when completed_at is set, and a missing lease   *)
(* counts as expired.                                                      *)
(***************************************************************************)
EXTENDS Naturals

CONSTANTS
  Jobs,         \* job ids (uuid4: each is submitted once)
  Procs,        \* API processes over one database
  Reports,      \* the jobs of POST /report
  Fragile,      \* the jobs of POST /ingest/from-url: they read the index outside any try
  Silent,       \* the jobs of POST /compare: no progress callback, no heartbeat
  Lease,        \* config.JOB_LEASE_SECONDS
  MinInterval,  \* touch_job_lease's throttle
  Gap,          \* assumed: the longest time between two progress calls of a job
  TTL,          \* finished jobs are kept 24 hours
  EvictEvery,   \* and looked for every hour
  MaxTime,      \* bound: the clock
  MaxCrashes,   \* bound: crashes
  NoJob, NoProc, NoTime

ASSUME JobsAssumption ==
  /\ {Lease, MinInterval, Gap, TTL, EvictEvery, MaxTime, MaxCrashes} \subseteq Nat
  /\ Reports \cup Fragile \cup Silent \subseteq Jobs
  /\ Reports \cap Silent = {}
  /\ NoProc \notin Procs
  /\ NoTime \notin Nat

\* What JOB_LEASE_SECONDS must be: longer than the time between two progress calls,
\* and the throttle, during which a call writes nothing, on top of it.
ASSUME LeaseAssumption ==
  /\ Gap + MinInterval <= Lease
  /\ Gap <= TTL

VARIABLES
  mem,       \* deps._jobs of each process
  db,        \* the rows of table jobs
  state,     \* of a process: down, importing (rows read, nothing reaped), up
  runner,    \* the process a job's background task lives in
  phase,     \* how far that task is
  progress,  \* when the task last called its progress callback
  touched,   \* deps._last_lease_touch
  evicted,   \* deps._last_job_eviction of each process
  now, crashes

clock == <<now, crashes>>
task == <<runner, phase, progress, touched>>
vars == <<mem, db, state, task, evicted, clock>>

-----------------------------------------------------------------------------
InFlight == {"pending", "running"}
Final == {"success", "partial", "failed"}
Entry == [status : InFlight \cup Final, completed : Nat]
Row == [status : InFlight \cup Final, completed : Nat, lease : Nat]

ASSUME NoJobAssumption == NoJob \notin Entry \cup Row

IsFinal(e) == e # NoJob /\ e.status \in Final
AsEntry(r) == IF r = NoJob THEN NoJob ELSE [status |-> r.status, completed |-> r.completed]
AsRow(e, lease) == [status |-> e.status, completed |-> e.completed, lease |-> lease]

Running(p) == {j \in Jobs : runner[j] = p /\ phase[j] \in {"running", "saving"}}

Init ==
  /\ mem = [p \in Procs |-> [j \in Jobs |-> NoJob]]
  /\ db = [j \in Jobs |-> NoJob]
  /\ state = [p \in Procs |-> "down"]
  /\ runner = [j \in Jobs |-> NoProc]
  /\ phase = [j \in Jobs |-> "new"]
  /\ progress = [j \in Jobs |-> 0]
  /\ touched = [j \in Jobs |-> NoTime]
  /\ evicted = [p \in Procs |-> NoTime]
  /\ now = 1 /\ crashes = 0

-----------------------------------------------------------------------------
\* Import of deps: finished jobs past their day are deleted, the rest becomes the dict.
Expired(e) == IsFinal(e) /\ e.completed + TTL < now

Hydrate(p) ==
  /\ state[p] = "down"
  /\ state' = [state EXCEPT ![p] = "importing"]
  /\ db' = [j \in Jobs |-> IF Expired(db[j]) THEN NoJob ELSE db[j]]
  /\ mem' = [mem EXCEPT ![p] = [j \in Jobs |-> AsEntry(db'[j])]]
  /\ evicted' = [evicted EXCEPT ![p] = NoTime]
  /\ UNCHANGED <<task, clock>>

\* Bugs: reaping what another process left pending or running, leased or not;
\* reaping whatever has no live lease, finished jobs included.
StaleWhateverLease(r) == r # NoJob /\ r.status \in InFlight
StaleWhateverStatus(r) == r # NoJob /\ r.lease < now
Stale(r) == r # NoJob /\ r.status \in InFlight /\ r.lease < now

\* lifespan: reap_stale_jobs, then the copies in memory of the jobs it reaped.
Reap(p) ==
  LET dead == [status |-> "failed", completed |-> now] IN
  /\ state[p] = "importing"
  /\ state' = [state EXCEPT ![p] = "up"]
  /\ db' = [j \in Jobs |-> IF Stale(db[j]) THEN AsRow(dead, 0) ELSE db[j]]
  /\ mem' = [mem EXCEPT ![p] = [j \in Jobs |-> IF Stale(db[j]) /\ mem[p][j] # NoJob
                                               THEN dead ELSE mem[p][j]]]
  /\ UNCHANGED <<task, evicted, clock>>

\* The request handler: the job is known to this process only, and to no row.
Submit(p, j) ==
  /\ state[p] = "up"
  /\ phase[j] = "new"
  /\ phase' = [phase EXCEPT ![j] = "queued"]
  /\ runner' = [runner EXCEPT ![j] = p]
  /\ mem' = [mem EXCEPT ![p][j] = [status |-> "pending", completed |-> 0]]
  /\ UNCHANGED <<db, state, progress, touched, evicted, clock>>

-----------------------------------------------------------------------------
\* Bug: the hourly sweep takes jobs that are not finished.
OldUnfinished(e) == e # NoJob /\ e.completed + TTL < now
Old(e) == IsFinal(e) /\ e.completed + TTL < now

\* _update_job(j, e): the dict, the row with or without a lease, and once an hour the
\* finished jobs of this process's dict, here and in the table.
UpdateJob(p, j, e) ==
  LET m == [mem[p] EXCEPT ![j] = e]
      d == [db EXCEPT ![j] =
              AsRow(e, IF e.status \in {"success", "failed"} THEN 0 ELSE now + Lease)]
      due == evicted[p] = NoTime \/ (evicted[p] # NoTime /\ now >= evicted[p] + EvictEvery)
      gone == IF due THEN {i \in Jobs : Old(m[i])} ELSE {}
  IN /\ mem[p][j] # NoJob              \* a KeyError otherwise
     /\ mem' = [mem EXCEPT ![p] = [i \in Jobs |-> IF i \in gone THEN NoJob ELSE m[i]]]
     /\ db' = [i \in Jobs |-> IF i \in gone THEN NoJob ELSE d[i]]
     /\ evicted' = [evicted EXCEPT ![p] = IF due THEN now ELSE @]
     /\ UNCHANGED <<state, clock>>

\* The background task starts.
Start(p, j) ==
  /\ runner[j] = p
  /\ phase[j] = "queued"
  /\ phase' = [phase EXCEPT ![j] = "running"]
  /\ progress' = [progress EXCEPT ![j] = now]
  /\ UpdateJob(p, j, [status |-> "running", completed |-> 0])
  /\ UNCHANGED <<runner, touched>>

\* The progress callback and, unless one was written a moment ago, a heartbeat:
\* touch_job_lease saves the entry as it is in memory.
Progress(p, j) ==
  /\ runner[j] = p
  /\ phase[j] = "running"
  /\ j \notin Silent
  /\ progress' = [progress EXCEPT ![j] = now]
  /\ IF touched[j] # NoTime /\ now < touched[j] + MinInterval
     THEN UNCHANGED <<db, touched>>
     ELSE /\ touched' = [touched EXCEPT ![j] = now]
          /\ db' = [db EXCEPT ![j] = AsRow(mem[p][j], now + Lease)]
  /\ UNCHANGED <<mem, state, runner, phase, evicted, clock>>

\* The task reports its outcome; a report has yet to be stored.
Finish(p, j) ==
  \E s \in Final :
    /\ runner[j] = p
    /\ phase[j] = "running"
    /\ phase' = [phase EXCEPT ![j] = IF j \in Reports /\ s = "success" THEN "saving" ELSE "done"]
    /\ progress' = [progress EXCEPT ![j] = now]
    /\ UpdateJob(p, j, [status |-> s, completed |-> now])
    /\ UNCHANGED <<runner, touched>>

\* save_report, inside the same try: its exception turns the finished job into a failed one.
SaveReport(p, j) ==
  /\ runner[j] = p
  /\ phase[j] = "saving"
  /\ phase' = [phase EXCEPT ![j] = "done"]
  /\ UNCHANGED <<runner, progress, touched>>
  /\ \/ UNCHANGED <<mem, db, state, evicted, clock>>
     \/ UpdateJob(p, j, [status |-> "failed", completed |-> now])

\* _run_batch_url_ingest reads the collection outside its try: the task ends there.
Die(p, j) ==
  /\ runner[j] = p
  /\ phase[j] = "running"
  /\ j \in Fragile
  /\ phase' = [phase EXCEPT ![j] = "dead"]
  /\ UNCHANGED <<mem, db, state, runner, progress, touched, evicted, clock>>

-----------------------------------------------------------------------------
\* The process stops; its dict and its tasks go with it.
Crash(p) ==
  /\ state[p] # "down"
  /\ crashes < MaxCrashes
  /\ crashes' = crashes + 1
  /\ state' = [state EXCEPT ![p] = "down"]
  /\ mem' = [mem EXCEPT ![p] = [j \in Jobs |-> NoJob]]
  /\ runner' = [j \in Jobs |-> IF runner[j] = p THEN NoProc ELSE runner[j]]
  /\ phase' = [j \in Jobs |-> IF runner[j] = p /\ phase[j] # "done" THEN "dead" ELSE phase[j]]
  /\ UNCHANGED <<db, progress, touched, evicted, now>>

\* Time passes; a task that does report progress does so every Gap at least.
Tick ==
  /\ now < MaxTime
  /\ \A j \in Jobs : phase[j] \in {"running", "saving"} /\ j \notin Silent =>
                       now < progress[j] + Gap
  /\ now' = now + 1
  /\ UNCHANGED <<mem, db, state, task, evicted, crashes>>

Work(p, j) == Start(p, j) \/ Progress(p, j) \/ Finish(p, j) \/ SaveReport(p, j)

Next ==
  \/ \E p \in Procs : Hydrate(p) \/ Reap(p) \/ Crash(p)
  \/ \E p \in Procs, j \in Jobs : Submit(p, j) \/ Work(p, j) \/ Die(p, j)
  \/ Tick

Spec == Init /\ [][Next]_vars

\* The clock goes on, a process that is down is started and starts up to the end (the
\* container's restart policy), a task that runs goes on to its end.
Fairness ==
  /\ WF_vars(Tick)
  /\ \A p \in Procs : WF_vars(Hydrate(p)) /\ WF_vars(Reap(p))
  /\ \A p \in Procs, j \in Jobs : WF_vars(Start(p, j)) /\ WF_vars(Finish(p, j))

FairSpec == Spec /\ Fairness

-----------------------------------------------------------------------------
\* The dicts, the table and the tasks have their types.
TypeOK ==
  /\ mem \in [Procs -> [Jobs -> Entry \cup {NoJob}]]
  /\ db \in [Jobs -> Row \cup {NoJob}]
  /\ state \in [Procs -> {"down", "importing", "up"}]
  /\ runner \in [Jobs -> Procs \cup {NoProc}]
  /\ phase \in [Jobs -> {"new", "queued", "running", "saving", "done", "dead"}]
  /\ progress \in [Jobs -> Nat]
  /\ touched \in [Jobs -> Nat \cup {NoTime}]
  /\ evicted \in [Procs -> Nat \cup {NoTime}]
  /\ now \in Nat /\ crashes \in Nat

\* A live worker's job is never taken from under it: as long as the task of a job that
\* heartbeats runs, its row says so, however many processes start and reap meanwhile
\* (the purpose of reaping by an expired lease).
LiveJobKept ==
  \A j \in Jobs \ Silent :
    phase[j] = "running" => db[j] # NoJob /\ db[j].status = "running"

\* The dict of the process that runs a job holds it until the task is over, so that no
\* _update_job of the task raises KeyError after the hourly sweep.
RunnerKnowsJob ==
  \A j \in Jobs : phase[j] \in {"queued", "running", "saving"} =>
                    runner[j] # NoProc /\ mem[runner[j]][j] # NoJob

\* An outcome written to the table is kept a day and never becomes another one: neither
\* a late heartbeat nor a reaper nor the sweep of a process with an older copy undoes it.
\* (A report whose storing fails is the one exception: it was announced as a success.
\* Another process may then count the day from the earlier outcome.)
OutcomeKept ==
  [][\A j \in Jobs \ Silent : IsFinal(db[j]) =>
       \/ db'[j] = db[j]
       \/ db'[j] = NoJob /\ \E e \in {db[j]} \cup {mem[p][j] : p \in Procs} : Expired(e)
       \/ j \in Reports /\ phase[j] = "saving" /\ db'[j] # NoJob /\ db'[j].status = "failed"]_vars

\* "Leased and reaped - abandoned jobs are failed at startup": a row left running by a
\* process that died comes to say failed once processes start again.
AbandonedJobFails ==
  \A j \in Jobs :
    (db[j] # NoJob /\ db[j].status = "running" /\ runner[j] = NoProc) ~>
      (db[j] = NoJob \/ db[j].status = "failed")

=============================================================================
