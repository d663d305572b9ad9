-------------------------------- MODULE Watch --------------------------------
(***************************************************************************)
(* Watched topics (watch_runner.py, routes/watch.py, table watches).  The  *)
(* schedule loop of every API process sweeps the watches that are due,     *)
(* claims each by a compare-and-set that parks next_run at a lease, and    *)
(* runs it: search, ingest what is new, summarise, and write the whole row *)
(* it read at the start back.  POST /watch/{id}/run runs a watch without a *)
(* claim.  A row holds next_run twice: in a column and in the JSON copy.   *)
(*                                                                         *)
(* A paper is in a run's hands in one step; UrlIngest has the steps of an  *)
(* ingest.  The living review of a watch is left out.                      *)
(***************************************************************************)
EXTENDS Naturals

CONSTANTS
  Watches,      \* watch ids (uuid4: each is created once)
  Loops,        \* API processes, each with its schedule loop
  Callers,      \* requests to /watch/{id}/run
  Papers,       \* what a search may return
  Lease,        \* config.WATCH_LEASE_SECONDS
  Cadence,      \* a day at least
  RunTime,      \* assumed: the longest a run takes
  SweepTime,    \* assumed: the longest a sweep takes, all its runs included
  Prompt,       \* assumed when TRUE: nothing but its runs delays a sweep
  MaxTime,      \* bound: the clock
  MaxFails,     \* bound: runs, sweeps and claims that raise
  MaxRestarts,  \* bound: restarts of a process
  NoRow, NoWatch

ASSUME WatchAssumption ==
  /\ {Lease, Cadence, RunTime, SweepTime, MaxTime, MaxFails, MaxRestarts} \subseteq Nat
  /\ Prompt \in BOOLEAN
  /\ Loops \cap Callers = {}
  /\ NoWatch \notin Watches

VARIABLES
  rows,        \* the table
  known,       \* watches created so far
  loop,        \* the schedule loop of each process
  run,         \* the run a loop waits for, or a caller
  corpus,      \* papers in the index
  seenBy,      \* ids that a completed run of a watch wrote as seen
  added,       \* papers that runs of a watch put into the index
  announced,   \* papers that a digest of the watch was written about
  cut,         \* papers of runs that ended by an exception or a restart
  overlapped,  \* watches that had two runs at a time
  now, fails, restarts

history == <<known, seenBy, added, announced, cut, overlapped>>
budget == <<fails, restarts>>
vars == <<rows, loop, run, corpus, history, now, budget>>

-----------------------------------------------------------------------------
Runners == Loops \cup Callers
Row == [column : Nat, next : Nat, seen : SUBSET Papers]
Due == [watch : Watches, next : Nat]

IdleRun == [pc |-> "idle", watch |-> NoWatch, seen |-> {}, todo |-> {}, new |-> {},
            fresh |-> {}, mine |-> {}, started |-> 0]
Asleep == [pc |-> "asleep", due |-> {}, at |-> 0]

ASSUME NoRowAssumption == NoRow \notin Row

Active(r) == run[r].pc # "idle"
Exists(w) == rows[w] # NoRow

Init ==
  /\ rows = [w \in Watches |-> NoRow]
  /\ loop = [l \in Loops |-> Asleep]
  /\ run = [r \in Runners |-> IdleRun]
  /\ corpus = {}
  /\ known = {} /\ cut = {} /\ overlapped = {}
  /\ seenBy = [w \in Watches |-> {}]
  /\ added = [w \in Watches |-> {}]
  /\ announced = [w \in Watches |-> {}]
  /\ now = 0 /\ fails = 0 /\ restarts = 0

-----------------------------------------------------------------------------
NextRun == now + Cadence

\* save_watch of a row whose next_run is one cadence away.
Saved(seen) == [column |-> NextRun, next |-> NextRun, seen |-> seen]

\* POST /watch and DELETE /watch/{id}.
Create(w) ==
  /\ w \notin known
  /\ known' = known \cup {w}
  /\ rows' = [rows EXCEPT ![w] = Saved({})]
  /\ UNCHANGED <<loop, run, corpus, seenBy, added, announced, cut, overlapped, now, budget>>

Remove(w) ==
  /\ Exists(w)
  /\ rows' = [rows EXCEPT ![w] = NoRow]
  /\ UNCHANGED <<loop, run, corpus, history, now, budget>>

\* A run of w begins, be it beside another one.
Begin(r, w) ==
  /\ run' = [run EXCEPT ![r] = [IdleRun EXCEPT !.pc = "read", !.watch = w, !.started = now]]
  /\ overlapped' = IF \E q \in Runners \ {r} : Active(q) /\ run[q].watch = w
                   THEN overlapped \cup {w} ELSE overlapped
  /\ UNCHANGED <<corpus, known, seenBy, added, announced, cut, now>>

StartManual(c) ==
  /\ ~Active(c)
  /\ \E w \in Watches : Exists(w) /\ Begin(c, w)
  /\ UNCHANGED <<rows, loop, budget>>

-----------------------------------------------------------------------------
\* An exception.
Raise ==
  /\ fails < MaxFails
  /\ fails' = fails + 1
  /\ UNCHANGED restarts

\* run_due_watches selects by the column and takes next_run from the JSON copy.
DueNow == {[watch |-> w, next |-> rows[w].next] : w \in {v \in Watches : Exists(v) /\ rows[v].column <= now}}

Wake(l) ==
  /\ loop[l].pc = "asleep"
  /\ DueNow # {}
  /\ loop' = [loop EXCEPT ![l] = [pc |-> "sweep", due |-> DueNow, at |-> now]]
  /\ UNCHANGED <<rows, run, corpus, history, now, budget>>

\* Nobody catches an exception of due_watches or claim_watch: the loop's task ends.
LoopDies(l) ==
  /\ loop[l].pc \in {"asleep", "sweep"}
  /\ ~Active(l)
  /\ Raise
  /\ loop' = [loop EXCEPT ![l] = [Asleep EXCEPT !.pc = "dead"]]
  /\ UNCHANGED <<rows, run, corpus, history, now>>

\* Bug: the row is there, which is taken for a claim.
UnclaimedAnyhow(d) == Exists(d.watch)
Unclaimed(d) == Exists(d.watch) /\ rows[d.watch].column = d.next

\* Bug: the JSON copy keeps the old next_run.
ParkedColumn(row, lease) == [row EXCEPT !.column = lease]
Parked(row, lease) == [row EXCEPT !.column = lease, !.next = lease]

\* claim_watch: the lease was worked out when the sweep began.  The loser skips.
Claim(l) ==
  /\ loop[l].pc = "sweep"
  /\ ~Active(l)
  /\ \E d \in loop[l].due :
       /\ \A e \in loop[l].due : d.next <= e.next
       /\ loop' = [loop EXCEPT ![l].due = @ \ {d}]
       /\ \/ /\ Unclaimed(d)
             /\ rows' = [rows EXCEPT ![d.watch] = Parked(@, loop[l].at + Lease)]
             /\ Begin(l, d.watch)
          \/ /\ ~Unclaimed(d)
             /\ UNCHANGED <<rows, run, corpus, history, now>>
  /\ UNCHANGED budget

EndSweep(l) ==
  /\ loop[l].pc = "sweep"
  /\ ~Active(l)
  /\ loop[l].due = {}
  /\ loop' = [loop EXCEPT ![l] = Asleep]
  /\ UNCHANGED <<rows, run, corpus, history, now, budget>>

-----------------------------------------------------------------------------
(***************************************************************************)
(* run_watch.                                                              *)
(***************************************************************************)

\* The row is read, and the search returns what it returns.
Read(r) ==
  LET w == run[r].watch IN
  /\ run[r].pc = "read"
  /\ \/ /\ ~Exists(w)
        /\ run' = [run EXCEPT ![r] = IdleRun]
     \/ /\ Exists(w)
        /\ \E S \in SUBSET (Papers \ rows[w].seen) :
             run' = [run EXCEPT ![r].pc = IF S = {} THEN "save" ELSE "fetch",
                                ![r].seen = rows[w].seen, ![r].todo = S]
  /\ UNCHANGED <<rows, loop, corpus, history, now, budget>>

\* Bug: only abstracts are listed in the digest.
ListedAbstracts(indexed) == ~indexed
Listed(indexed) == TRUE

\* The locals of run_watch after one more paper.
Fetched(R, x, how) ==
  [R EXCEPT !.todo = @ \ {x},
            !.pc = IF R.todo = {x} THEN "save" ELSE "fetch",
            !.new = @ \cup {x},
            !.fresh = IF how # "known" /\ Listed(how = "indexed") THEN @ \cup {x} ELSE @,
            !.mine = IF how = "indexed" THEN @ \cup {x} ELSE @]

\* A paper is ingested; or found in the index, or a duplicate of what is; or it has no
\* PDF and only its abstract is used.
FetchOne(r, x, how) ==
  /\ run' = [run EXCEPT ![r] = Fetched(@, x, how)]
  /\ \/ /\ how = "indexed" /\ x \notin corpus
        /\ corpus' = corpus \cup {x}
        /\ added' = [added EXCEPT ![run[r].watch] = @ \cup {x}]
     \/ /\ how # "indexed"
        /\ UNCHANGED <<corpus, added>>

Fetch(r) ==
  /\ run[r].pc = "fetch"
  /\ \E x \in run[r].todo, how \in {"indexed", "known", "abstract"} : FetchOne(r, x, how)
  /\ UNCHANGED <<rows, loop, known, seenBy, announced, cut, overlapped, now, budget>>

\* Search, download, ingest, refresh or digest raises: nothing is written back, and the
\* lease stays.  A loop goes on with the next watch.
Fail(r) ==
  /\ Active(r)
  /\ Raise
  /\ cut' = cut \cup run[r].mine
  /\ run' = [run EXCEPT ![r] = IdleRun]
  /\ UNCHANGED <<rows, loop, corpus, known, seenBy, added, announced, overlapped, now>>

\* Bug: the ids seen before are forgotten.
SeenAfterNew(r) == run[r].new
SeenAfter(r) == run[r].seen \cup run[r].new

\* The digest is stored with the whole row, were it deleted meanwhile.
Save(r) ==
  LET w == run[r].watch IN
  /\ run[r].pc = "save"
  /\ rows' = [rows EXCEPT ![w] = Saved(SeenAfter(r))]
  /\ seenBy' = [seenBy EXCEPT ![w] = @ \cup run[r].seen \cup run[r].new]
  /\ announced' = [announced EXCEPT ![w] = @ \cup run[r].fresh]
  /\ run' = [run EXCEPT ![r] = IdleRun]
  /\ UNCHANGED <<loop, corpus, known, added, cut, overlapped, now, budget>>

-----------------------------------------------------------------------------
\* The process stops and starts again; what it claimed stays claimed.  (To the requests
\* it was serving this is as if they failed.)
Restart(l) ==
  /\ restarts < MaxRestarts
  /\ restarts' = restarts + 1
  /\ loop' = [loop EXCEPT ![l] = Asleep]
  /\ run' = [run EXCEPT ![l] = IdleRun]
  /\ cut' = cut \cup run[l].mine
  /\ UNCHANGED <<rows, corpus, known, seenBy, added, announced, overlapped, now, fails>>

\* Time passes, within the times assumed of runs and sweeps.
Tick ==
  /\ now < MaxTime
  /\ \A r \in Runners : Active(r) => now < run[r].started + RunTime
  /\ \A l \in Loops :
       loop[l].pc = "sweep" => now < loop[l].at + SweepTime /\ (Prompt => Active(l))
  /\ now' = now + 1
  /\ UNCHANGED <<rows, loop, run, corpus, history, budget>>

Work(r) == Read(r) \/ Fetch(r) \/ Save(r)
Schedule(l) == Wake(l) \/ Claim(l) \/ EndSweep(l)

Next ==
  \/ \E w \in Watches : Create(w) \/ Remove(w)
  \/ \E c \in Callers : StartManual(c)
  \/ \E l \in Loops : Schedule(l) \/ LoopDies(l) \/ Restart(l)
  \/ \E r \in Runners : Work(r) \/ Fail(r)
  \/ Tick

Spec == Init /\ [][Next]_vars

\* A loop that is not dead wakes up, and its runs go on to an end.
FairSpec == Spec /\ \A l \in Loops : WF_vars(Schedule(l)) /\ WF_vars(Work(l))

-----------------------------------------------------------------------------
Run == [pc : {"idle", "read", "fetch", "save"}, watch : Watches \cup {NoWatch},
        seen : SUBSET Papers, todo : SUBSET Papers, new : SUBSET Papers,
        fresh : SUBSET Papers, mine : SUBSET Papers, started : Nat]
Loop == [pc : {"asleep", "sweep", "dead"}, due : SUBSET Due, at : Nat]

\* The rows, the loops and the runs have their types.
TypeOK ==
  /\ rows \in [Watches -> Row \cup {NoRow}]
  /\ loop \in [Loops -> Loop]
  /\ run \in [Runners -> Run]
  /\ \A r \in Runners : Active(r) => run[r].watch \in Watches
  /\ corpus \in SUBSET Papers /\ cut \in SUBSET Papers
  /\ known \in SUBSET Watches /\ overlapped \in SUBSET Watches
  /\ {seenBy, added, announced} \subseteq [Watches -> SUBSET Papers]
  /\ now \in Nat /\ fails \in Nat /\ restarts \in Nat

\* A sweep ends before the leases it gave out, and before a watch run by hand meanwhile
\* is due again.
SweepFits == SweepTime < Lease /\ SweepTime < Cadence

\* However many processes sweep, fail, restart and save, no watch is run by two schedule
\* loops at a time (the purpose of claim_watch).
OneScheduledRun ==
  SweepFits =>
    \A l, k \in Loops : Active(l) /\ Active(k) /\ run[l].watch = run[k].watch => l = k

\* What a completed run has seen no later run of the watch takes up again, unless two
\* runs of it overlapped: each writes back the seen_ids it read.
NotFetchedAgain ==
  \A r \in Runners :
    Active(r) /\ run[r].watch \notin overlapped => run[r].todo \cap seenBy[run[r].watch] = {}

\* Every paper a watch put into the index is announced in a digest of it, also when two
\* runs of the watch overlap; those of a run that failed are not.
NewPapersAnnounced ==
  \A w \in Watches :
    (\A r \in Runners : run[r].watch # w) => added[w] \subseteq announced[w] \cup cut

\* A watch that is due comes to be claimed (or deleted) whatever failed before, unless
\* every loop has died: "a failed watch run no longer wedges the watch forever".
DueWatchRuns ==
  \A w \in Watches :
    (Exists(w) /\ rows[w].column <= now) ~>
      (~Exists(w) \/ rows[w].column > now \/ \A l \in Loops : loop[l].pc = "dead")

\* "Only the claimer proceeds; the rest skip it", where a lease need only "exceed a real
\* run": no two loops run a watch at a time as long as each run is shorter than the lease.
OnlyClaimerRuns ==
  RunTime < Lease =>
    \A l, k \in Loops : Active(l) /\ Active(k) /\ run[l].watch = run[k].watch => l = k

=============================================================================
