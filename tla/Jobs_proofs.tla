----------------------------- MODULE Jobs_proofs -----------------------------
(***************************************************************************)
(* The background jobs.  First their rows and leases (module Jobs), for    *)
(* every number of jobs and processes: the types, RunnerKnowsJob,          *)
(* LiveJobKept and OutcomeKept.  The heart of it is the heartbeat: the     *)
(* lease of a running job always reaches beyond the next progress call,    *)
(* even when the last calls were throttled (Beating), so no process that   *)
(* starts finds its row stale; hence no copy of it in another dict is      *)
(* final (Unreaped), and no sweep deletes it.  Then the tasks of one kind  *)
(* of job, POST /ingest/from-url (module UrlIngest).                       *)
(***************************************************************************)
EXTENDS Jobs, UrlIngest, TLAPS

Live == {"queued", "running", "saving"}

\* The task of a job that is not over lives in a process that is up and knows the job.
Held ==
  \A j \in Jobs : phase[j] \in Live =>
    /\ runner[j] \in Procs
    /\ state[runner[j]] = "up"
    /\ mem[runner[j]][j] # NoJob
    /\ phase[j] # "saving" => mem[runner[j]][j].status \in InFlight
    /\ phase[j] = "saving" => j \in Reports /\ mem[runner[j]][j].completed = progress[j]

\* A job that has not started has no row.
Unstarted ==
  \A j \in Jobs : phase[j] \in {"new", "queued"} => db[j] = NoJob /\ touched[j] = NoTime

\* The lease of a running job outlasts its next progress call.
Beating ==
  \A j \in Jobs \ Silent :
    /\ phase[j] \in {"running", "saving"} => now <= progress[j] + Gap
    /\ phase[j] = "running" =>
         /\ db[j] # NoJob
         /\ db[j].status = "running"
         /\ mem[runner[j]][j].status = "running"
         /\ progress[j] + Lease <= db[j].lease + MinInterval
         /\ touched[j] # NoTime => touched[j] + Lease <= db[j].lease

\* No dict holds a final copy of a job that has not come to its end.
Unreaped ==
  \A j \in Jobs \ Silent, p \in Procs :
    phase[j] \in {"new", "queued", "running"} => ~IsFinal(mem[p][j])

IInv == TypeOK /\ Held /\ Unstarted /\ Beating /\ Unreaped

-----------------------------------------------------------------------------
(***************************************************************************)
(* What one _update_job does, and what a sweep may take away.              *)
(***************************************************************************)
\* _update_job writes the job in both places; of any other job it changes nothing, or
\* forgets a final entry of this process's dict.
LEMMA UpdateFacts ==
  ASSUME TypeOK, NEW p \in Procs, NEW j \in Jobs, NEW e \in Entry,
         e.status \in Final => e.completed = now,
         UpdateJob(p, j, e)
  PROVE  /\ mem' \in [Procs -> [Jobs -> Entry \cup {NoJob}]]
         /\ db' \in [Jobs -> Row \cup {NoJob}]
         /\ evicted' \in [Procs -> Nat \cup {NoTime}]
         /\ state' = state /\ now' = now /\ crashes' = crashes
         /\ mem'[p][j] = e
         /\ db'[j] = AsRow(e, IF e.status \in {"success", "failed"} THEN 0 ELSE now + Lease)
         /\ \A q \in Procs \ {p} : mem'[q] = mem[q]
         /\ \A i \in Jobs \ {j} :
              \/ mem'[p][i] = mem[p][i] /\ db'[i] = db[i]
              \/ mem'[p][i] = NoJob /\ db'[i] = NoJob /\ Old(mem[p][i])
<1> DEFINE lease == IF e.status \in {"success", "failed"} THEN 0 ELSE now + Lease
           m == [mem[p] EXCEPT ![j] = e]
           d == [db EXCEPT ![j] = AsRow(e, lease)]
           due == evicted[p] = NoTime \/ (evicted[p] # NoTime /\ now >= evicted[p] + EvictEvery)
           gone == IF due THEN {i \in Jobs : Old(m[i])} ELSE {}
<1>1. /\ mem' = [mem EXCEPT ![p] = [i \in Jobs |-> IF i \in gone THEN NoJob ELSE m[i]]]
      /\ db' = [i \in Jobs |-> IF i \in gone THEN NoJob ELSE d[i]]
      /\ evicted' = [evicted EXCEPT ![p] = IF due THEN now ELSE @]
      /\ state' = state /\ now' = now /\ crashes' = crashes
  BY DEF UpdateJob, clock
<1>2. now \in Nat /\ mem \in [Procs -> [Jobs -> Entry \cup {NoJob}]]
      /\ db \in [Jobs -> Row \cup {NoJob}] /\ evicted \in [Procs -> Nat \cup {NoTime}]
      /\ Lease \in Nat /\ TTL \in Nat
  BY JobsAssumption DEF TypeOK
<1>3. lease \in Nat /\ AsRow(e, lease) \in Row
  BY <1>2 DEF AsRow, Entry, Row
<1>4. m \in [Jobs -> Entry \cup {NoJob}] /\ d \in [Jobs -> Row \cup {NoJob}]
  BY <1>2, <1>3
<1>5. j \notin gone
  <2>1. m[j] = e
    BY <1>2
  <2>2. ~Old(e)
    BY <1>2 DEF Old, IsFinal, Entry
  <2> QED  BY <2>1, <2>2
<1>6. \A i \in Jobs \ {j} : m[i] = mem[p][i] /\ d[i] = db[i]
  BY <1>2
<1>7. \A i \in gone : Old(m[i])
  OBVIOUS
<1> HIDE DEF m, d, due, gone, lease
<1>8. mem'[p] = [i \in Jobs |-> IF i \in gone THEN NoJob ELSE m[i]]
  BY <1>1, <1>2
<1>9. \A i \in Jobs \ {j} : \/ mem'[p][i] = mem[p][i] /\ db'[i] = db[i]
                            \/ mem'[p][i] = NoJob /\ db'[i] = NoJob /\ Old(mem[p][i])
  BY <1>1, <1>6, <1>7, <1>8
<1>10. mem'[p][j] = e /\ db'[j] = AsRow(e, lease)
  BY <1>1, <1>2, <1>5, <1>8 DEF m, d
<1>11. mem' \in [Procs -> [Jobs -> Entry \cup {NoJob}]] /\ db' \in [Jobs -> Row \cup {NoJob}]
      /\ evicted' \in [Procs -> Nat \cup {NoTime}]
  BY <1>1, <1>2, <1>4
<1>12. \A q \in Procs \ {p} : mem'[q] = mem[q]
  BY <1>1, <1>2
<1> QED
  BY <1>1, <1>9, <1>10, <1>11, <1>12 DEF lease

\* What an _update_job of job j leaves alone: the entries and the row of every other
\* job that is not over.
LEMMA UpdateSpares ==
  ASSUME IInv, NEW p \in Procs, NEW j \in Jobs, NEW e \in Entry,
         e.status \in Final => e.completed = now,
         UpdateJob(p, j, e),
         NEW i \in Jobs \ {j}
  PROVE  /\ phase[i] \in Live => mem'[runner[i]][i] = mem[runner[i]][i]
         /\ \A q \in Procs : mem'[q][i] \in {mem[q][i], NoJob}
         /\ i \notin Silent /\ phase[i] \in {"new", "queued", "running"} => db'[i] = db[i]
         /\ db[i] = NoJob => db'[i] = NoJob
<1>1. /\ \A q \in Procs \ {p} : mem'[q] = mem[q]
      /\ \/ mem'[p][i] = mem[p][i] /\ db'[i] = db[i]
         \/ mem'[p][i] = NoJob /\ db'[i] = NoJob /\ Old(mem[p][i])
  <2>1. TypeOK
    BY DEF IInv
  <2> QED
    BY <2>1, UpdateFacts
<1>2. phase[i] \in Live /\ runner[i] = p => ~Old(mem[p][i])
  <2> SUFFICES ASSUME phase[i] \in Live, runner[i] = p, Old(mem[p][i])
               PROVE  FALSE
    OBVIOUS
  <2>1. IsFinal(mem[p][i])
    BY DEF Old
  <2>2. CASE phase[i] # "saving"
    BY <2>1, <2>2 DEF IInv, Held, IsFinal, InFlight, Final
  <2>3. CASE phase[i] = "saving"
    <3>1. i \in Reports /\ mem[p][i].completed = progress[i]
      BY <2>3 DEF IInv, Held
    <3>2. now <= progress[i] + Gap
      BY <2>3, <3>1, JobsAssumption DEF IInv, Beating
    <3>3. mem[p][i].completed + TTL < now
      BY DEF Old
    <3>4. progress[i] \in Nat /\ now \in Nat /\ {Gap, TTL} \subseteq Nat /\ Gap <= TTL
      BY JobsAssumption, LeaseAssumption DEF IInv, TypeOK
    <3> QED
      BY <3>1, <3>2, <3>3, <3>4
  <2> QED
    BY <2>2, <2>3
<1>3. phase[i] \in Live => runner[i] \in Procs
  BY DEF IInv, Held
<1>4. i \notin Silent /\ phase[i] \in {"new", "queued", "running"} => ~Old(mem[p][i])
  BY DEF IInv, Unreaped, Old
<1> QED
  BY <1>1, <1>2, <1>3, <1>4

-----------------------------------------------------------------------------
LEMMA InitInv == Init => IInv
<1> SUFFICES ASSUME Init PROVE IInv
  OBVIOUS
<1>1. TypeOK
  BY DEF Init, TypeOK
<1>2. Held /\ Unstarted /\ Beating
  BY DEF Init, Held, Unstarted, Beating, Live
<1>3. Unreaped
  BY DEF Init, Unreaped, IsFinal
<1> QED
  BY <1>1, <1>2, <1>3 DEF IInv

\* A job's row is not stale, and its copies stay unreaped, as long as it runs.
LEMMA RunningNotStale ==
  ASSUME IInv, NEW j \in Jobs \ Silent, phase[j] \in {"new", "queued", "running"}
  PROVE  ~Stale(db[j]) /\ ~IsFinal(db[j])
<1>1. CASE phase[j] \in {"new", "queued"}
  BY <1>1 DEF IInv, Unstarted, Stale, IsFinal
<1>2. CASE phase[j] = "running"
  <2>1. /\ db[j] # NoJob /\ db[j].status = "running"
        /\ now <= progress[j] + Gap
        /\ progress[j] + Lease <= db[j].lease + MinInterval
    BY <1>2 DEF IInv, Beating
  <2>2. db[j] \in Row /\ progress[j] \in Nat /\ now \in Nat
    BY <2>1 DEF IInv, TypeOK
  <2>3. db[j].lease \in Nat
    BY <2>2 DEF Row
  <2>4. {Gap, Lease, MinInterval} \subseteq Nat /\ Gap + MinInterval <= Lease
    BY JobsAssumption, LeaseAssumption
  <2>5. now <= db[j].lease
    BY <2>1, <2>2, <2>3, <2>4
  <2> QED
    BY <2>1, <2>2, <2>3, <2>5 DEF Stale, IsFinal, Final
<1> QED
  BY <1>1, <1>2

LEMMA HydrateInv ==
  ASSUME IInv, NEW p \in Procs, Hydrate(p)
  PROVE  IInv'
<1>2. /\ \A j \in Jobs : db'[j] \in {db[j], NoJob}
      /\ \A j \in Jobs : ~IsFinal(db[j]) => db'[j] = db[j]
      /\ \A j \in Jobs : mem'[p][j] = AsEntry(db'[j])
      /\ \A q \in Procs \ {p} : mem'[q] = mem[q]
      /\ state' = [state EXCEPT ![p] = "importing"] /\ state[p] = "down"
      /\ UNCHANGED <<runner, phase, progress, touched, now, crashes>>
  BY DEF IInv, TypeOK, Hydrate, Expired, task, clock
<1>3. TypeOK'
  <2>1. db' \in [Jobs -> Row \cup {NoJob}]
    BY DEF IInv, TypeOK, Hydrate
  <2>2. [j \in Jobs |-> AsEntry(db'[j])] \in [Jobs -> Entry \cup {NoJob}]
    BY <2>1 DEF AsEntry, Row, Entry
  <2>3. mem' \in [Procs -> [Jobs -> Entry \cup {NoJob}]]
    BY <2>2 DEF IInv, TypeOK, Hydrate
  <2> QED
    BY <2>1, <2>3, <1>2 DEF IInv, TypeOK, Hydrate
<1>4. \A j \in Jobs : phase[j] \in Live => runner[j] # p
  BY <1>2 DEF IInv, Held
<1>5. Held'
  BY <1>2, <1>4 DEF IInv, Held, TypeOK
<1>6. Unstarted'
  BY <1>2 DEF IInv, Unstarted
<1>7. Beating'
  <2> SUFFICES ASSUME NEW j \in Jobs \ Silent
               PROVE  /\ phase[j] \in {"running", "saving"} => now <= progress[j] + Gap
                      /\ phase[j] = "running" =>
                           /\ db'[j] = db[j] /\ mem'[runner[j]][j] = mem[runner[j]][j]
    BY <1>2 DEF IInv, Beating
  <2>1. phase[j] = "running" => db'[j] = db[j]
    BY <1>2, RunningNotStale
  <2>2. phase[j] = "running" => mem'[runner[j]][j] = mem[runner[j]][j]
    BY <1>2, <1>4 DEF IInv, Held, Live
  <2> QED
    BY <2>1, <2>2 DEF IInv, Beating
<1>8. Unreaped'
  <2> SUFFICES ASSUME NEW j \in Jobs \ Silent, NEW q \in Procs,
                      phase[j] \in {"new", "queued", "running"}
               PROVE  ~IsFinal(mem'[q][j])
    BY <1>2 DEF Unreaped
  <2>1. db'[j] = db[j] /\ ~IsFinal(db[j])
    BY <1>2, RunningNotStale
  <2>2. CASE q = p
    <3>1. mem'[q][j] = AsEntry(db[j])
      BY <2>1, <2>2, <1>2
    <3>2. ~IsFinal(AsEntry(db[j]))
      BY <2>1 DEF AsEntry, IsFinal
    <3> QED
      BY <3>1, <3>2
  <2>3. CASE q # p
    BY <2>3, <1>2 DEF IInv, Unreaped
  <2> QED
    BY <2>2, <2>3
<1> QED
  BY <1>3, <1>5, <1>6, <1>7, <1>8 DEF IInv

LEMMA ReapInv ==
  ASSUME IInv, NEW p \in Procs, Reap(p)
  PROVE  IInv'
<1>1. /\ \A j \in Jobs : ~Stale(db[j]) => db'[j] = db[j] /\ mem'[p][j] = mem[p][j]
      /\ \A q \in Procs \ {p} : mem'[q] = mem[q]
      /\ state' = [state EXCEPT ![p] = "up"] /\ state[p] = "importing"
      /\ UNCHANGED <<runner, phase, progress, touched, now, crashes, evicted>>
  BY DEF IInv, TypeOK, Reap, task, clock
<1>2. TypeOK'
  <2> DEFINE dead == [status |-> "failed", completed |-> now]
  <2>1. dead \in Entry /\ AsRow(dead, 0) \in Row
    BY DEF IInv, TypeOK, Entry, Row, AsRow, Final
  <2> HIDE DEF dead
  <2>2. /\ db' = [j \in Jobs |-> IF Stale(db[j]) THEN AsRow(dead, 0) ELSE db[j]]
        /\ mem' = [mem EXCEPT ![p] = [j \in Jobs |-> IF Stale(db[j]) /\ mem[p][j] # NoJob
                                                     THEN dead ELSE mem[p][j]]]
    BY DEF Reap, dead
  <2> QED
    BY <1>1, <2>1, <2>2 DEF IInv, TypeOK
<1>3. \A j \in Jobs : phase[j] \in Live => runner[j] # p
  BY <1>1 DEF IInv, Held
<1>4. Held'
  BY <1>1, <1>3 DEF IInv, Held, TypeOK
<1>5. \A j \in Jobs : phase[j] \in {"new", "queued"} => ~Stale(db[j])
  BY DEF IInv, Unstarted, Stale
<1>6. Unstarted'
  BY <1>1, <1>5 DEF IInv, Unstarted
<1>7. Beating'
  <2>1. \A j \in Jobs \ Silent :
          phase[j] = "running" => db'[j] = db[j] /\ mem'[runner[j]][j] = mem[runner[j]][j]
    BY <1>1, <1>3, RunningNotStale DEF IInv, Held, Live
  <2> QED
    BY <1>1, <2>1 DEF IInv, Beating
<1>8. Unreaped'
  BY <1>1, RunningNotStale DEF IInv, Unreaped
<1> QED
  BY <1>2, <1>4, <1>6, <1>7, <1>8 DEF IInv

LEMMA SubmitInv ==
  ASSUME IInv, NEW p \in Procs, NEW j \in Jobs, Submit(p, j)
  PROVE  IInv'
<1> DEFINE e == [status |-> "pending", completed |-> 0]
<1>1. /\ phase[j] = "new" /\ state[p] = "up"
      /\ phase' = [phase EXCEPT ![j] = "queued"]
      /\ runner' = [runner EXCEPT ![j] = p]
      /\ mem' = [mem EXCEPT ![p][j] = e]
      /\ UNCHANGED <<db, state, progress, touched, evicted, now, crashes>>
  BY DEF Submit, clock
<1>2. e \in Entry /\ ~IsFinal(e) /\ e.status \in InFlight
  BY DEF Entry, InFlight, Final, IsFinal
<1>3. e # NoJob
  BY <1>2, NoJobAssumption
<1> HIDE DEF e
<1>4. mem'[p][j] = e /\ \A q \in Procs, i \in Jobs : <<q, i>> # <<p, j>> => mem'[q][i] = mem[q][i]
  BY <1>1 DEF IInv, TypeOK
<1>5. \A i \in Jobs \ {j} : phase'[i] = phase[i] /\ runner'[i] = runner[i]
  BY <1>1 DEF IInv, TypeOK
<1>6. phase'[j] = "queued" /\ runner'[j] = p
  BY <1>1 DEF IInv, TypeOK
<1>7. TypeOK'
  BY <1>1, <1>2 DEF IInv, TypeOK
<1>8. Held'
  <2> SUFFICES ASSUME NEW i \in Jobs, phase'[i] \in Live
               PROVE  /\ runner'[i] \in Procs /\ state[runner'[i]] = "up"
                      /\ mem'[runner'[i]][i] # NoJob
                      /\ phase'[i] # "saving" => mem'[runner'[i]][i].status \in InFlight
                      /\ phase'[i] = "saving" => i \in Reports
                                              /\ mem'[runner'[i]][i].completed = progress[i]
    BY <1>1 DEF Held
  <2>1. CASE i = j
    BY <2>1, <1>1, <1>2, <1>3, <1>4, <1>6
  <2>2. CASE i # j
    BY <2>2, <1>4, <1>5 DEF IInv, Held
  <2> QED
    BY <2>1, <2>2
<1>9. Unstarted'
  BY <1>1, <1>5 DEF IInv, Unstarted
<1>10. Beating'
  <2> SUFFICES ASSUME NEW i \in Jobs \ Silent, phase'[i] \in {"running", "saving"}
               PROVE  /\ now <= progress[i] + Gap
                      /\ phase'[i] = "running" =>
                           /\ db[i] # NoJob /\ db[i].status = "running"
                           /\ mem'[runner'[i]][i].status = "running"
                           /\ progress[i] + Lease <= db[i].lease + MinInterval
                           /\ touched[i] # NoTime => touched[i] + Lease <= db[i].lease
    BY <1>1 DEF Beating
  <2>1. i # j /\ phase'[i] = phase[i] /\ runner'[i] = runner[i] /\ runner[i] \in Procs
    BY <1>5, <1>6 DEF IInv, Held, Live
  <2>2. mem'[runner'[i]][i] = mem[runner[i]][i]
    BY <2>1, <1>4
  <2> QED
    BY <2>1, <2>2 DEF IInv, Beating
<1>11. Unreaped'
  <2> SUFFICES ASSUME NEW i \in Jobs \ Silent, NEW q \in Procs,
                      phase'[i] \in {"new", "queued", "running"}
               PROVE  ~IsFinal(mem'[q][i])
    BY DEF Unreaped
  <2>1. phase[i] \in {"new", "queued", "running"}
    BY <1>1, <1>5
  <2> QED
    BY <2>1, <1>2, <1>4 DEF IInv, Unreaped
<1> QED
  BY <1>7, <1>8, <1>9, <1>10, <1>11 DEF IInv

\* A task of j writes entry e and goes on to phase ph: what Start, Finish and
\* SaveReport have in common, for every other job.
LEMMA OthersKept ==
  ASSUME IInv, NEW p \in Procs, NEW j \in Jobs, NEW e \in Entry,
         e.status \in Final => e.completed = now,
         UpdateJob(p, j, e),
         runner' = runner,
         \A i \in Jobs \ {j} : /\ phase'[i] = phase[i] /\ progress'[i] = progress[i]
                              /\ touched'[i] = touched[i],
         NEW i \in Jobs \ {j}
  PROVE  /\ phase'[i] \in Live =>
              /\ runner'[i] \in Procs /\ state'[runner'[i]] = "up"
              /\ mem'[runner'[i]][i] # NoJob
              /\ phase'[i] # "saving" => mem'[runner'[i]][i].status \in InFlight
              /\ phase'[i] = "saving" => i \in Reports
                                      /\ mem'[runner'[i]][i].completed = progress'[i]
         /\ phase'[i] \in {"new", "queued"} => db'[i] = NoJob /\ touched'[i] = NoTime
         /\ i \notin Silent /\ phase'[i] \in {"running", "saving"} =>
              now' <= progress'[i] + Gap
         /\ i \notin Silent /\ phase'[i] = "running" =>
              /\ db'[i] # NoJob
              /\ db'[i].status = "running"
              /\ mem'[runner'[i]][i].status = "running"
              /\ progress'[i] + Lease <= db'[i].lease + MinInterval
              /\ touched'[i] # NoTime => touched'[i] + Lease <= db'[i].lease
         /\ i \notin Silent /\ phase'[i] \in {"new", "queued", "running"} =>
              \A q \in Procs : ~IsFinal(mem'[q][i])
<1>1. /\ phase[i] \in Live => mem'[runner[i]][i] = mem[runner[i]][i]
      /\ \A q \in Procs : mem'[q][i] \in {mem[q][i], NoJob}
      /\ i \notin Silent /\ phase[i] \in {"new", "queued", "running"} => db'[i] = db[i]
      /\ db[i] = NoJob => db'[i] = NoJob
  BY UpdateSpares
<1>2. state' = state /\ now' = now
  BY DEF UpdateJob, clock
<1>3. phase'[i] = phase[i] /\ runner'[i] = runner[i] /\ progress'[i] = progress[i]
      /\ touched'[i] = touched[i]
  OBVIOUS
<1>4. ~IsFinal(NoJob)
  BY DEF IsFinal
<1>5. phase[i] \in Live =>
        /\ runner[i] \in Procs /\ state[runner[i]] = "up" /\ mem[runner[i]][i] # NoJob
        /\ phase[i] # "saving" => mem[runner[i]][i].status \in InFlight
        /\ phase[i] = "saving" => i \in Reports /\ mem[runner[i]][i].completed = progress[i]
  BY DEF IInv, Held
<1>6. phase[i] \in {"new", "queued"} => db[i] = NoJob /\ touched[i] = NoTime
  BY DEF IInv, Unstarted
<1>7. i \notin Silent =>
        /\ phase[i] \in {"running", "saving"} => now <= progress[i] + Gap
        /\ phase[i] = "running" =>
             /\ db[i] # NoJob
             /\ db[i].status = "running"
             /\ mem[runner[i]][i].status = "running"
             /\ progress[i] + Lease <= db[i].lease + MinInterval
             /\ touched[i] # NoTime => touched[i] + Lease <= db[i].lease
        /\ phase[i] \in {"new", "queued", "running"} => \A q \in Procs : ~IsFinal(mem[q][i])
  BY DEF IInv, Beating, Unreaped
<1>8. phase[i] = "running" => phase[i] \in Live
  BY DEF Live
<1> QED
  BY <1>1, <1>2, <1>3, <1>4, <1>5, <1>6, <1>7, <1>8

LEMMA StartInv ==
  ASSUME IInv, NEW p \in Procs, NEW j \in Jobs, Start(p, j)
  PROVE  IInv'
<1> DEFINE e == [status |-> "running", completed |-> 0]
<1>1. /\ runner[j] = p /\ phase[j] = "queued" /\ j \in Jobs
      /\ phase' = [phase EXCEPT ![j] = "running"]
      /\ progress' = [progress EXCEPT ![j] = now]
      /\ UpdateJob(p, j, e)
      /\ runner' = runner /\ touched' = touched
  BY DEF Start
<1>2. e \in Entry /\ e.status \notin Final /\ e.status = "running" /\ e # NoJob
  BY NoJobAssumption DEF Entry, InFlight, Final
<1> HIDE DEF e
<1>3. /\ mem' \in [Procs -> [Jobs -> Entry \cup {NoJob}]]
      /\ db' \in [Jobs -> Row \cup {NoJob}]
      /\ evicted' \in [Procs -> Nat \cup {NoTime}]
      /\ state' = state /\ now' = now /\ crashes' = crashes
      /\ mem'[p][j] = e
      /\ db'[j] = AsRow(e, now + Lease)
      /\ \A q \in Procs \ {p} : mem'[q] = mem[q]
  <2>1. TypeOK
    BY DEF IInv
  <2> QED
    BY <1>1, <1>2, <2>1, UpdateFacts
<1>4. TypeOK'
  BY <1>1, <1>3 DEF IInv, TypeOK
<1>5. now \in Nat /\ Lease \in Nat /\ Gap \in Nat /\ MinInterval \in Nat
  BY JobsAssumption DEF IInv, TypeOK
<1>6. db'[j] # NoJob /\ db'[j].status = "running" /\ db'[j].lease = now + Lease
  <2>1. AsRow(e, now + Lease) \in Row
    BY <1>2, <1>5 DEF AsRow, Entry, Row
  <2> QED
    BY <2>1, <1>2, <1>3, NoJobAssumption DEF AsRow
<1>7. phase'[j] = "running" /\ progress'[j] = now /\ runner'[j] = p /\ touched'[j] = NoTime
  BY <1>1 DEF IInv, TypeOK, Unstarted
<1>8. \A i \in Jobs \ {j} : phase'[i] = phase[i] /\ progress'[i] = progress[i] /\ touched'[i] = touched[i]
  BY <1>1 DEF IInv, TypeOK
<1>9. p \in Procs /\ state[p] = "up"
  BY <1>1 DEF IInv, Held, Live
<1>10. Held'
  <2> SUFFICES ASSUME NEW i \in Jobs, phase'[i] \in Live
               PROVE  /\ runner'[i] \in Procs /\ state'[runner'[i]] = "up"
                      /\ mem'[runner'[i]][i] # NoJob
                      /\ phase'[i] # "saving" => mem'[runner'[i]][i].status \in InFlight
                      /\ phase'[i] = "saving" => i \in Reports
                                              /\ mem'[runner'[i]][i].completed = progress'[i]
    BY DEF Held
  <2>1. CASE i = j
    BY <2>1, <1>2, <1>3, <1>7, <1>9 DEF InFlight
  <2>2. CASE i # j
    BY <2>2, <1>1, <1>2, <1>8, OthersKept
  <2> QED
    BY <2>1, <2>2
<1>11. Unstarted'
  <2> SUFFICES ASSUME NEW i \in Jobs, phase'[i] \in {"new", "queued"}
               PROVE  db'[i] = NoJob /\ touched'[i] = NoTime
    BY DEF Unstarted
  <2> QED
    BY <1>1, <1>2, <1>7, <1>8, OthersKept
<1>12. Beating'
  <2> SUFFICES ASSUME NEW i \in Jobs \ Silent, phase'[i] \in {"running", "saving"}
               PROVE  /\ now' <= progress'[i] + Gap
                      /\ phase'[i] = "running" =>
                           /\ db'[i] # NoJob /\ db'[i].status = "running"
                           /\ mem'[runner'[i]][i].status = "running"
                           /\ progress'[i] + Lease <= db'[i].lease + MinInterval
                           /\ touched'[i] # NoTime => touched'[i] + Lease <= db'[i].lease
    BY DEF Beating
  <2>1. CASE i = j
    BY <2>1, <1>2, <1>3, <1>5, <1>6, <1>7
  <2>2. CASE i # j
    BY <2>2, <1>1, <1>2, <1>8, OthersKept
  <2> QED
    BY <2>1, <2>2
<1>13. Unreaped'
  <2> SUFFICES ASSUME NEW i \in Jobs \ Silent, NEW q \in Procs,
                      phase'[i] \in {"new", "queued", "running"}
               PROVE  ~IsFinal(mem'[q][i])
    BY DEF Unreaped
  <2>1. CASE i = j
    <3>1. CASE q = p
      BY <2>1, <3>1, <1>2, <1>3 DEF IsFinal
    <3>2. CASE q # p
      BY <2>1, <3>2, <1>1, <1>3 DEF IInv, Unreaped
    <3> QED
      BY <3>1, <3>2
  <2>2. CASE i # j
    BY <2>2, <1>1, <1>2, <1>8, OthersKept
  <2> QED
    BY <2>1, <2>2
<1> QED
  BY <1>4, <1>10, <1>11, <1>12, <1>13 DEF IInv

LEMMA ProgressInv ==
  ASSUME IInv, NEW p \in Procs, NEW j \in Jobs, Progress(p, j)
  PROVE  IInv'
<1>1. /\ runner[j] = p /\ phase[j] = "running" /\ j \in Jobs \ Silent
      /\ progress' = [progress EXCEPT ![j] = now]
      /\ UNCHANGED <<mem, state, runner, phase, evicted, now, crashes>>
      /\ \/ /\ touched[j] # NoTime /\ now < touched[j] + MinInterval
            /\ db' = db /\ touched' = touched
         \/ /\ touched' = [touched EXCEPT ![j] = now]
            /\ db' = [db EXCEPT ![j] = AsRow(mem[p][j], now + Lease)]
  BY DEF Progress, clock
<1>2. /\ now \in Nat /\ Lease \in Nat /\ Gap \in Nat /\ MinInterval \in Nat
      /\ progress[j] \in Nat /\ touched[j] \in Nat \cup {NoTime}
  BY <1>1, JobsAssumption DEF IInv, TypeOK
<1>3. /\ db[j] # NoJob /\ db[j].status = "running" /\ mem[p][j].status = "running"
      /\ progress[j] + Lease <= db[j].lease + MinInterval
      /\ touched[j] # NoTime => touched[j] + Lease <= db[j].lease
  BY <1>1 DEF IInv, Beating
<1>4. db[j] \in Row /\ mem[p][j] \in Entry /\ p \in Procs
  BY <1>1, <1>3 DEF IInv, TypeOK, Held, Live
<1>5. AsRow(mem[p][j], now + Lease) \in Row
      /\ AsRow(mem[p][j], now + Lease).status = "running"
      /\ AsRow(mem[p][j], now + Lease).lease = now + Lease
  BY <1>2, <1>3, <1>4 DEF AsRow, Entry, Row
<1>6. db[j].lease \in Nat
  BY <1>4 DEF Row
<1>7. /\ db'[j] # NoJob /\ db'[j].status = "running"
      /\ now + Lease <= db'[j].lease + MinInterval
      /\ touched'[j] # NoTime => touched'[j] + Lease <= db'[j].lease
  <2>1. CASE /\ touched[j] # NoTime /\ now < touched[j] + MinInterval
             /\ db' = db /\ touched' = touched
    BY <2>1, <1>2, <1>3, <1>6
  <2>2. CASE /\ touched' = [touched EXCEPT ![j] = now]
             /\ db' = [db EXCEPT ![j] = AsRow(mem[p][j], now + Lease)]
    <3>1. db'[j] = AsRow(mem[p][j], now + Lease) /\ touched'[j] = now
      BY <2>2 DEF IInv, TypeOK
    <3> QED
      BY <3>1, <1>2, <1>5, NoJobAssumption
  <2> QED
    BY <1>1, <2>1, <2>2
<1>8. \A i \in Jobs \ {j} : db'[i] = db[i] /\ touched'[i] = touched[i] /\ progress'[i] = progress[i]
  BY <1>1 DEF IInv, TypeOK
<1>9. progress'[j] = now
  BY <1>1 DEF IInv, TypeOK
<1>10. TypeOK'
  <2>1. db' \in [Jobs -> Row \cup {NoJob}]
    BY <1>1, <1>5 DEF IInv, TypeOK
  <2>2. touched' \in [Jobs -> Nat \cup {NoTime}] /\ progress' \in [Jobs -> Nat]
    BY <1>1, <1>2 DEF IInv, TypeOK
  <2> QED
    BY <1>1, <2>1, <2>2 DEF IInv, TypeOK
<1>11. Held'
  BY <1>1, <1>8 DEF IInv, Held
<1>12. Unstarted'
  BY <1>1, <1>8 DEF IInv, Unstarted
<1>13. Beating'
  <2> SUFFICES ASSUME NEW i \in Jobs \ Silent, phase[i] \in {"running", "saving"}
               PROVE  /\ now <= progress'[i] + Gap
                      /\ phase[i] = "running" =>
                           /\ db'[i] # NoJob /\ db'[i].status = "running"
                           /\ mem[runner[i]][i].status = "running"
                           /\ progress'[i] + Lease <= db'[i].lease + MinInterval
                           /\ touched'[i] # NoTime => touched'[i] + Lease <= db'[i].lease
    BY <1>1 DEF Beating
  <2>1. CASE i = j
    BY <2>1, <1>1, <1>2, <1>3, <1>7, <1>9
  <2>2. CASE i # j
    BY <2>2, <1>8 DEF IInv, Beating
  <2> QED
    BY <2>1, <2>2
<1>14. Unreaped'
  BY <1>1 DEF IInv, Unreaped
<1> QED
  BY <1>10, <1>11, <1>12, <1>13, <1>14 DEF IInv

\* A final entry written by the task of j that moves on to a phase ph in which it no
\* longer runs: Finish, and SaveReport when it fails.
LEMMA OutcomeInv ==
  ASSUME IInv, NEW p \in Procs, NEW j \in Jobs, NEW e \in Entry, NEW ph \in {"saving", "done"},
         phase[j] \in {"running", "saving"}, runner[j] = p,
         e.status \in Final, e.completed = now,
         UpdateJob(p, j, e),
         phase' = [phase EXCEPT ![j] = ph],
         ph = "saving" => j \in Reports /\ progress' = [progress EXCEPT ![j] = now],
         progress' \in {progress, [progress EXCEPT ![j] = now]},
         runner' = runner, touched' = touched
  PROVE  IInv'
<1>1. e # NoJob
  BY NoJobAssumption
<1>2. TypeOK /\ now \in Nat /\ Gap \in Nat /\ p \in Procs /\ state[p] = "up"
  BY JobsAssumption DEF IInv, TypeOK, Held, Live
<1>3. /\ mem' \in [Procs -> [Jobs -> Entry \cup {NoJob}]]
      /\ db' \in [Jobs -> Row \cup {NoJob}]
      /\ evicted' \in [Procs -> Nat \cup {NoTime}]
      /\ state' = state /\ now' = now /\ crashes' = crashes
      /\ mem'[p][j] = e
  BY <1>2, UpdateFacts
<1>4. TypeOK'
  BY <1>2, <1>3 DEF TypeOK
<1>5. \A i \in Jobs \ {j} : phase'[i] = phase[i] /\ progress'[i] = progress[i] /\ touched'[i] = touched[i]
  BY <1>2 DEF TypeOK
<1>6. phase'[j] = ph /\ (ph = "saving" => j \in Reports /\ progress'[j] = now)
  BY <1>2 DEF TypeOK
<1>7. Held'
  <2> SUFFICES ASSUME NEW i \in Jobs, phase'[i] \in Live
               PROVE  /\ runner'[i] \in Procs /\ state'[runner'[i]] = "up"
                      /\ mem'[runner'[i]][i] # NoJob
                      /\ phase'[i] # "saving" => mem'[runner'[i]][i].status \in InFlight
                      /\ phase'[i] = "saving" => i \in Reports
                                              /\ mem'[runner'[i]][i].completed = progress'[i]
    BY DEF Held
  <2>1. CASE i = j
    BY <2>1, <1>1, <1>2, <1>3, <1>6 DEF Live
  <2>2. CASE i # j
    BY <2>2, <1>5, OthersKept
  <2> QED
    BY <2>1, <2>2
<1>8. Unstarted'
  BY <1>5, <1>6, OthersKept DEF Unstarted
<1>9. Beating'
  <2> SUFFICES ASSUME NEW i \in Jobs \ Silent, phase'[i] \in {"running", "saving"}
               PROVE  /\ now' <= progress'[i] + Gap
                      /\ phase'[i] = "running" =>
                           /\ db'[i] # NoJob /\ db'[i].status = "running"
                           /\ mem'[runner'[i]][i].status = "running"
                           /\ progress'[i] + Lease <= db'[i].lease + MinInterval
                           /\ touched'[i] # NoTime => touched'[i] + Lease <= db'[i].lease
    BY DEF Beating
  <2>1. CASE i = j
    BY <2>1, <1>2, <1>3, <1>6
  <2>2. CASE i # j
    BY <2>2, <1>5, OthersKept
  <2> QED
    BY <2>1, <2>2
<1>10. Unreaped'
  <2> SUFFICES ASSUME NEW i \in Jobs \ Silent, NEW q \in Procs,
                      phase'[i] \in {"new", "queued", "running"}
               PROVE  ~IsFinal(mem'[q][i])
    BY DEF Unreaped
  <2>1. i # j
    BY <1>6
  <2> QED
    BY <2>1, <1>5, OthersKept
<1> QED
  BY <1>4, <1>7, <1>8, <1>9, <1>10 DEF IInv

LEMMA FinishInv ==
  ASSUME IInv, NEW p \in Procs, NEW j \in Jobs, Finish(p, j)
  PROVE  IInv'
<1>1. PICK s \in Final :
        /\ runner[j] = p
        /\ phase[j] = "running"
        /\ phase' = [phase EXCEPT ![j] = IF j \in Reports /\ s = "success" THEN "saving" ELSE "done"]
        /\ progress' = [progress EXCEPT ![j] = now]
        /\ UpdateJob(p, j, [status |-> s, completed |-> now])
        /\ runner' = runner /\ touched' = touched
  BY DEF Finish
<1> DEFINE e == [status |-> s, completed |-> now]
           ph == IF j \in Reports /\ s = "success" THEN "saving" ELSE "done"
<1>2. e \in Entry /\ e.status \in Final /\ e.completed = now
  BY DEF Entry, IInv, TypeOK
<1>3. ph \in {"saving", "done"} /\ (ph = "saving" => j \in Reports)
  OBVIOUS
<1>4. phase' = [phase EXCEPT ![j] = ph] /\ UpdateJob(p, j, e)
  BY <1>1
<1> HIDE DEF e, ph
<1> QED
  BY <1>1, <1>2, <1>3, <1>4, OutcomeInv

LEMMA SaveReportInv ==
  ASSUME IInv, NEW p \in Procs, NEW j \in Jobs, SaveReport(p, j)
  PROVE  IInv'
<1>1. /\ runner[j] = p /\ phase[j] = "saving"
      /\ phase' = [phase EXCEPT ![j] = "done"]
      /\ runner' = runner /\ progress' = progress /\ touched' = touched
  BY DEF SaveReport
<1>2. CASE UNCHANGED <<mem, db, state, evicted, clock>>
  <2>1. \A i \in Jobs : phase'[i] = phase[i] \/ phase'[i] = "done"
    BY <1>1 DEF IInv, TypeOK
  <2>2. TypeOK'
    BY <1>1, <1>2 DEF IInv, TypeOK, clock
  <2>3. Held' /\ Unstarted' /\ Beating' /\ Unreaped'
    BY <1>1, <1>2, <2>1 DEF IInv, Held, Unstarted, Beating, Unreaped, clock, Live
  <2> QED
    BY <2>2, <2>3 DEF IInv
<1>3. CASE UpdateJob(p, j, [status |-> "failed", completed |-> now])
  <2> DEFINE e == [status |-> "failed", completed |-> now]
  <2>1. e \in Entry /\ e.status \in Final /\ e.completed = now
    BY DEF Entry, Final, IInv, TypeOK
  <2>2. UpdateJob(p, j, e)
    BY <1>3
  <2> HIDE DEF e
  <2> QED
    BY <1>1, <2>1, <2>2, OutcomeInv
<1> QED
  BY <1>2, <1>3 DEF SaveReport

LEMMA DieInv ==
  ASSUME IInv, NEW p \in Procs, NEW j \in Jobs, Die(p, j)
  PROVE  IInv'
<1>1. /\ UNCHANGED <<mem, db, state, runner, progress, touched, evicted, now, crashes>>
      /\ phase' = [phase EXCEPT ![j] = "dead"]
  BY DEF Die, clock
<1>2. \A i \in Jobs : phase'[i] = phase[i] \/ phase'[i] = "dead"
  BY <1>1 DEF IInv, TypeOK
<1>3. TypeOK'
  BY <1>1 DEF IInv, TypeOK
<1>4. Held' /\ Unstarted' /\ Beating' /\ Unreaped'
  BY <1>1, <1>2 DEF IInv, Held, Unstarted, Beating, Unreaped, Live
<1> QED
  BY <1>3, <1>4 DEF IInv

LEMMA CrashInv ==
  ASSUME IInv, NEW p \in Procs, Crash(p)
  PROVE  IInv'
<1>1. /\ state' = [state EXCEPT ![p] = "down"]
      /\ mem' = [mem EXCEPT ![p] = [j \in Jobs |-> NoJob]]
      /\ runner' = [j \in Jobs |-> IF runner[j] = p THEN NoProc ELSE runner[j]]
      /\ phase' = [j \in Jobs |-> IF runner[j] = p /\ phase[j] # "done" THEN "dead" ELSE phase[j]]
      /\ crashes' = crashes + 1
      /\ UNCHANGED <<db, progress, touched, evicted, now>>
  BY DEF Crash
<1>2. \A j \in Jobs : phase'[j] \in Live \cup {"new"} =>
                        phase'[j] = phase[j] /\ (runner[j] # p => runner'[j] = runner[j])
                        /\ (phase[j] \in Live => runner[j] # p)
  BY <1>1 DEF IInv, TypeOK, Live
<1>3. \A q \in Procs \ {p} : mem'[q] = mem[q] /\ state'[q] = state[q]
  BY <1>1 DEF IInv, TypeOK
<1>4. \A j \in Jobs : mem'[p][j] = NoJob
  BY <1>1 DEF IInv, TypeOK
<1>5. TypeOK'
  BY <1>1 DEF IInv, TypeOK
<1>6. Held'
  BY <1>1, <1>2, <1>3 DEF IInv, Held
<1>7. Unstarted'
  BY <1>1, <1>2 DEF IInv, Unstarted, Live
<1>8. Beating'
  <2>1. \A j \in Jobs \ Silent : phase'[j] \in {"running", "saving"} =>
          phase[j] = phase'[j] /\ mem'[runner'[j]][j] = mem[runner[j]][j]
    BY <1>2, <1>3 DEF IInv, Held, Live
  <2> QED
    BY <1>1, <2>1 DEF IInv, Beating
<1>9. Unreaped'
  <2>1. ~IsFinal(NoJob)
    BY DEF IsFinal
  <2> QED
    BY <1>2, <1>3, <1>4, <2>1 DEF IInv, Unreaped, Live
<1> QED
  BY <1>5, <1>6, <1>7, <1>8, <1>9 DEF IInv

LEMMA TickInv ==
  ASSUME IInv, Tick
  PROVE  IInv'
<1>1. /\ UNCHANGED <<mem, db, state, runner, phase, progress, touched, evicted, crashes>>
      /\ now' = now + 1
  BY DEF Tick, task
<1>2. TypeOK'
  BY <1>1 DEF IInv, TypeOK
<1>3. Held' /\ Unstarted' /\ Unreaped'
  BY <1>1 DEF IInv, Held, Unstarted, Unreaped
<1>4. Beating'
  <2>1. \A j \in Jobs \ Silent : phase[j] \in {"running", "saving"} => now' <= progress[j] + Gap
    <3> SUFFICES ASSUME NEW j \in Jobs \ Silent, phase[j] \in {"running", "saving"}
                 PROVE  now + 1 <= progress[j] + Gap
      BY <1>1
    <3>1. now < progress[j] + Gap
      BY DEF Tick
    <3>2. now \in Nat /\ progress[j] \in Nat /\ Gap \in Nat
      BY JobsAssumption DEF IInv, TypeOK
    <3> QED
      BY <3>1, <3>2
  <2> QED
    BY <1>1, <2>1 DEF IInv, Beating
<1> QED
  BY <1>2, <1>3, <1>4 DEF IInv

LEMMA NextInv ==
  ASSUME IInv, [Next]_vars
  PROVE  IInv'
<1>1. CASE UNCHANGED vars
  BY <1>1 DEF vars, task, clock, IInv, TypeOK, Held, Unstarted, Beating, Unreaped
<1>2. ASSUME NEW p \in Procs, Hydrate(p) \/ Reap(p) \/ Crash(p)
      PROVE  IInv'
  BY <1>2, HydrateInv, ReapInv, CrashInv
<1>3. ASSUME NEW p \in Procs, NEW j \in Jobs, Submit(p, j) \/ Work(p, j) \/ Die(p, j)
      PROVE  IInv'
  BY <1>3, SubmitInv, StartInv, ProgressInv, FinishInv, SaveReportInv, DieInv DEF Work
<1> QED
  BY <1>1, <1>2, <1>3, TickInv DEF Next

-----------------------------------------------------------------------------
LEMMA Invariance == Spec => []IInv
<1>1. Init => IInv
  BY InitInv
<1>2. IInv /\ [Next]_vars => IInv'
  BY NextInv
<1> QED
  BY <1>1, <1>2, PTL DEF Spec

\* In every reachable state the dicts, the table and the tasks have their types.
THEOREM TypeCorrect == Spec => []TypeOK
<1>1. IInv => TypeOK
  BY DEF IInv
<1> QED
  BY <1>1, Invariance, PTL

\* No _update_job of a running task finds its job gone (deps._update_job's KeyError).
THEOREM RunnersKnow == Spec => []RunnerKnowsJob
<1>1. IInv => RunnerKnowsJob
  <2> SUFFICES ASSUME IInv, NEW j \in Jobs, phase[j] \in Live
               PROVE  runner[j] # NoProc /\ mem[runner[j]][j] # NoJob
    BY DEF RunnerKnowsJob, Live
  <2> QED
    BY JobsAssumption DEF IInv, Held
<1> QED
  BY <1>1, Invariance, PTL

\* However many processes start and reap, the row of a job that heartbeats says running
\* for as long as its task runs.
THEOREM LiveJobsKept == Spec => []LiveJobKept
<1>1. IInv => LiveJobKept
  BY DEF IInv, Beating, LiveJobKept
<1> QED
  BY <1>1, Invariance, PTL

\* The only ways a final row changes.
OutcomeStep(j) ==
  \/ db'[j] = db[j]
  \/ db'[j] = NoJob /\ \E e \in {db[j]} \cup {mem[p][j] : p \in Procs} : Expired(e)
  \/ j \in Reports /\ phase[j] = "saving" /\ db'[j] # NoJob /\ db'[j].status = "failed"

\* An _update_job of another job.
LEMMA UpdateOther ==
  ASSUME TypeOK, NEW p \in Procs, NEW i \in Jobs, NEW e \in Entry,
         e.status \in Final => e.completed = now, UpdateJob(p, i, e),
         NEW j \in Jobs \ {i}
  PROVE  OutcomeStep(j)
<1>1. db'[j] = db[j] \/ (db'[j] = NoJob /\ Old(mem[p][j]))
  BY UpdateFacts
<1>2. Old(mem[p][j]) => Expired(mem[p][j])
  BY DEF Old, Expired
<1> QED
  BY <1>1, <1>2 DEF OutcomeStep

LEMMA WorkKeepsOutcome ==
  ASSUME IInv, NEW p \in Procs, NEW i \in Jobs, Submit(p, i) \/ Work(p, i) \/ Die(p, i),
         NEW j \in Jobs \ Silent, IsFinal(db[j])
  PROVE  OutcomeStep(j)
<1>1. phase[j] \notin {"new", "queued", "running"}
  BY RunningNotStale
<1>2. TypeOK /\ now \in Nat
  BY DEF IInv, TypeOK
<1>3. CASE Submit(p, i) \/ Die(p, i)
  BY <1>3 DEF Submit, Die, OutcomeStep
<1>4. CASE Start(p, i)
  <2>1. i # j /\ UpdateJob(p, i, [status |-> "running", completed |-> 0])
    BY <1>1, <1>4 DEF Start
  <2>2. [status |-> "running", completed |-> 0] \in Entry /\ "running" \notin Final
    BY DEF Entry, InFlight, Final
  <2> QED
    BY <1>2, <2>1, <2>2, UpdateOther
<1>5. CASE Progress(p, i)
  BY <1>1, <1>2, <1>5 DEF Progress, OutcomeStep, TypeOK
<1>6. CASE Finish(p, i)
  <2>1. PICK s \in Final : i # j /\ UpdateJob(p, i, [status |-> s, completed |-> now])
    BY <1>1, <1>6 DEF Finish
  <2>2. [status |-> s, completed |-> now] \in Entry
    BY <1>2 DEF Entry
  <2> QED
    BY <1>2, <2>1, <2>2, UpdateOther
<1>7. CASE SaveReport(p, i)
  <2> DEFINE e == [status |-> "failed", completed |-> now]
  <2>1. e \in Entry /\ e.completed = now /\ e.status = "failed"
    BY <1>2 DEF Entry, Final
  <2>2. UNCHANGED db \/ UpdateJob(p, i, e)
    BY <1>7 DEF SaveReport
  <2>3. CASE UNCHANGED db
    BY <2>3 DEF OutcomeStep
  <2>4. CASE UpdateJob(p, i, e) /\ i # j
    <3> HIDE DEF e
    <3> QED
      BY <2>1, <2>4, <1>2, UpdateOther
  <2>5. CASE UpdateJob(p, i, e) /\ i = j
    <3>1. phase[j] = "saving" /\ j \in Reports
      BY <1>7, <2>5 DEF SaveReport, IInv, Held, Live
    <3> HIDE DEF e
    <3>2. db'[j] = AsRow(e, 0)
      BY <2>1, <2>5, <1>2, UpdateFacts
    <3>3. AsRow(e, 0) \in Row /\ AsRow(e, 0).status = "failed"
      BY <2>1 DEF AsRow, Entry, Row
    <3> QED
      BY <3>1, <3>2, <3>3, NoJobAssumption DEF OutcomeStep
  <2> QED
    BY <2>2, <2>3, <2>4, <2>5
<1> QED
  BY <1>3, <1>4, <1>5, <1>6, <1>7 DEF Work

\* Heartbeats, reapers and sweeps never undo an outcome that was written down.
THEOREM OutcomesKept == Spec => OutcomeKept
<1>1. ASSUME IInv, [Next]_vars
      PROVE  [\A j \in Jobs \ Silent : IsFinal(db[j]) => OutcomeStep(j)]_vars
  <2> SUFFICES ASSUME Next, NEW j \in Jobs \ Silent, IsFinal(db[j])
               PROVE  OutcomeStep(j)
    BY <1>1
  <2>1. ASSUME NEW p \in Procs, Hydrate(p)
        PROVE  OutcomeStep(j)
    BY <2>1 DEF Hydrate, OutcomeStep
  <2>2. ASSUME NEW p \in Procs, Reap(p)
        PROVE  OutcomeStep(j)
    <3>1. ~Stale(db[j])
      BY DEF Stale, IsFinal, InFlight, Final
    <3> QED
      BY <2>2, <3>1 DEF Reap, OutcomeStep
  <2>3. ASSUME NEW p \in Procs, Crash(p)
        PROVE  OutcomeStep(j)
    BY <2>3 DEF Crash, OutcomeStep
  <2>4. ASSUME NEW p \in Procs, NEW i \in Jobs, Submit(p, i) \/ Work(p, i) \/ Die(p, i)
        PROVE  OutcomeStep(j)
    BY <1>1, <2>4, WorkKeepsOutcome
  <2>5. CASE Tick
    BY <2>5 DEF Tick, OutcomeStep
  <2> QED
    BY <2>1, <2>2, <2>3, <2>4, <2>5 DEF Next
<1>2. IInv /\ [Next]_vars => [\A j \in Jobs \ Silent : IsFinal(db[j]) =>
         \/ db'[j] = db[j]
         \/ db'[j] = NoJob /\ \E e \in {db[j]} \cup {mem[p][j] : p \in Procs} : Expired(e)
         \/ j \in Reports /\ phase[j] = "saving" /\ db'[j] # NoJob /\ db'[j].status = "failed"]_vars
  BY <1>1 DEF OutcomeStep
<1> QED
  BY <1>2, Invariance, PTL DEF Spec, OutcomeKept

-----------------------------------------------------------------------------
(***************************************************************************)
(* The tasks of POST /ingest/from-url (module UrlIngest): for any number   *)
(* of jobs, items and lists, the types, OneJobPerPaper, RegistryExact and  *)
(* AllCounted.  A job that reserves an id holds it alone because the       *)
(* registry is exact when it is tested, and the registry stays exact       *)
(* because what a job gives back no other job holds: the two are inductive *)
(* together and not apart.  A job whose download raised counts as a holder *)
(* for good (Holds).                                                       *)
(***************************************************************************)
Holds(j) == pc[j] \in Busy \cup {"stranded"}
Holders == {j \in UrlJobs : Holds(j)}

\* A job that holds an id is at an item of its list; no job is beyond the end by more.
AtItem ==
  \A j \in UrlJobs :
    /\ Holds(j) => pos[j] \in 1..Len(list[j])
    /\ pc[j] \in {"snapshot", "next", "done"} => pos[j] <= Len(list[j]) + 1
    /\ pc[j] \in {"off", "snapshot"} => pos[j] = 1 /\ ok[j] = 0 /\ bad[j] = 0
    /\ pc[j] = "done" => pos[j] \notin 1..Len(list[j])

OneHolder == \A j, k \in UrlJobs : Holds(j) /\ Holds(k) /\ Paper(j) = Paper(k) => j = k

Exact == \A p \in Papers : p \in inflight <=> \E j \in UrlJobs : Holds(j) /\ Paper(j) = p

\* What has been counted: the items before this one, and this one from "release" on.
Counted ==
  \A j \in UrlJobs :
    /\ pc[j] \in (Busy \ {"release"}) \cup {"next", "done"} => ok[j] + bad[j] + 1 = pos[j]
    /\ pc[j] = "release" => ok[j] + bad[j] = pos[j]

UrlInv == UrlTypeOK /\ AtItem /\ OneHolder /\ Exact /\ Counted

-----------------------------------------------------------------------------
LEMMA PaperType ==
  ASSUME UrlTypeOK, NEW j \in UrlJobs, pos[j] \in 1..Len(list[j])
  PROVE  Item(j) \in Items /\ Paper(j) \in Papers
<1>1. list[j] \in Seq(Items)
  BY DEF UrlTypeOK
<1>2. list[j][pos[j]] \in Items
  BY <1>1
<1> QED
  BY <1>2, UrlAssumption DEF Item, Paper

\* What the other jobs see of a step of job j.
Others(j) ==
  \A k \in UrlJobs \ {j} : /\ pc'[k] = pc[k] /\ list'[k] = list[k] /\ pos'[k] = pos[k]
                       /\ ok'[k] = ok[k] /\ bad'[k] = bad[k]

LEMMA OthersSame ==
  ASSUME NEW j \in UrlJobs, Others(j), NEW k \in UrlJobs \ {j}
  PROVE  (Holds(k)' <=> Holds(k)) /\ Paper(k)' = Paper(k)
BY DEF Others, Holds, Paper, Item

\* The four ways a step treats the registry keep it exact and its holders apart.
LEMMA Registry ==
  ASSUME OneHolder, Exact, NEW j \in UrlJobs, Others(j),
         \/ (Holds(j) <=> Holds(j)') /\ (Holds(j) => Paper(j)' = Paper(j)) /\ inflight' = inflight
         \/ /\ ~Holds(j) /\ Holds(j)' /\ Paper(j)' \in Papers \ inflight
            /\ inflight' = inflight \cup {Paper(j)'}
         \/ /\ Holds(j) /\ ~Holds(j)' /\ Paper(j) \in Papers
            /\ inflight' = inflight \ {Paper(j)}
  PROVE  OneHolder' /\ Exact'
<1>1. \A k \in UrlJobs \ {j} : (Holds(k)' <=> Holds(k)) /\ Paper(k)' = Paper(k)
  BY OthersSame
<1>2. CASE (Holds(j) <=> Holds(j)') /\ (Holds(j) => Paper(j)' = Paper(j)) /\ inflight' = inflight
  <2>1. \A k \in UrlJobs : (Holds(k)' <=> Holds(k)) /\ (Holds(k) => Paper(k)' = Paper(k))
    BY <1>1, <1>2
  <2> QED
    BY <2>1, <1>2 DEF OneHolder, Exact
<1>3. CASE /\ ~Holds(j) /\ Holds(j)' /\ Paper(j)' \in Papers \ inflight
           /\ inflight' = inflight \cup {Paper(j)'}
  <2>1. \A k \in UrlJobs \ {j} : Holds(k) => Paper(k) # Paper(j)'
    BY <1>3 DEF Exact
  <2>2. OneHolder'
    BY <1>1, <1>3, <2>1 DEF OneHolder
  <2>3. ASSUME NEW p \in Papers
        PROVE  p \in inflight' <=> \E k \in UrlJobs : Holds(k)' /\ Paper(k)' = p
    <3>1. p \in inflight => \E k \in UrlJobs \ {j} : Holds(k) /\ Paper(k) = p
      BY <1>3 DEF Exact
    <3>2. (\E k \in UrlJobs \ {j} : Holds(k) /\ Paper(k) = p) => p \in inflight
      BY DEF Exact
    <3> QED
      BY <1>1, <1>3, <3>1, <3>2
  <2> QED
    BY <2>2, <2>3 DEF Exact
<1>4. CASE /\ Holds(j) /\ ~Holds(j)' /\ Paper(j) \in Papers
           /\ inflight' = inflight \ {Paper(j)}
  <2>1. \A k \in UrlJobs \ {j} : Holds(k) => Paper(k) # Paper(j)
    BY <1>4 DEF OneHolder
  <2>2. OneHolder'
    BY <1>1, <1>4 DEF OneHolder
  <2>3. ASSUME NEW p \in Papers
        PROVE  p \in inflight' <=> \E k \in UrlJobs : Holds(k)' /\ Paper(k)' = p
    <3>1. p \in inflight <=> \E k \in UrlJobs : Holds(k) /\ Paper(k) = p
      BY DEF Exact
    <3> QED
      BY <1>1, <1>4, <2>1, <3>1
  <2> QED
    BY <2>2, <2>3 DEF Exact
<1> QED
  BY <1>2, <1>3, <1>4

\* The parts about one job only: they hold of the others after a step of j.
AtItemOf(j) ==
  /\ Holds(j) => pos[j] \in 1..Len(list[j])
  /\ pc[j] \in {"snapshot", "next", "done"} => pos[j] <= Len(list[j]) + 1
  /\ pc[j] \in {"off", "snapshot"} => pos[j] = 1 /\ ok[j] = 0 /\ bad[j] = 0
  /\ pc[j] = "done" => pos[j] \notin 1..Len(list[j])
CountedOf(j) ==
  /\ pc[j] \in (Busy \ {"release"}) \cup {"next", "done"} => ok[j] + bad[j] + 1 = pos[j]
  /\ pc[j] = "release" => ok[j] + bad[j] = pos[j]

LEMMA Local ==
  ASSUME AtItem, Counted, NEW j \in UrlJobs, Others(j), AtItemOf(j)', CountedOf(j)'
  PROVE  AtItem' /\ Counted'
<1>1. ASSUME NEW k \in UrlJobs
      PROVE  AtItemOf(k)' /\ CountedOf(k)'
  <2>1. CASE k = j
    BY <2>1
  <2>2. CASE k # j
    <3>1. AtItemOf(k) /\ CountedOf(k)
      BY DEF AtItem, Counted, AtItemOf, CountedOf
    <3> QED
      BY <2>2, <3>1 DEF Others, AtItemOf, CountedOf, Holds
  <2> QED
    BY <2>1, <2>2
<1> QED
  BY <1>1 DEF AtItem, Counted, AtItemOf, CountedOf

LEMMA Current ==
  ASSUME UrlInv, NEW j \in UrlJobs
  PROVE  /\ AtItemOf(j) /\ CountedOf(j)
         /\ pos[j] \in Nat \ {0} /\ ok[j] \in Nat /\ bad[j] \in Nat
         /\ list[j] \in Seq(Items) /\ Len(list[j]) \in Nat
         /\ pos[j] \in 1..Len(list[j]) => Paper(j) \in Papers
<1>1. UrlTypeOK
  BY DEF UrlInv
<1>2. list[j] \in Seq(Items) /\ pos[j] \in Nat \ {0} /\ ok[j] \in Nat /\ bad[j] \in Nat
  BY <1>1 DEF UrlTypeOK
<1> QED
  BY <1>1, <1>2, PaperType DEF UrlInv, AtItem, Counted, AtItemOf, CountedOf

-----------------------------------------------------------------------------
LEMMA UrlInitInv == UrlInit => UrlInv
<1> SUFFICES ASSUME UrlInit PROVE UrlInv
  OBVIOUS
<1>1. UrlTypeOK
  BY DEF UrlInit, UrlTypeOK, Places, Busy
<1>2. AtItem /\ OneHolder /\ Exact /\ Counted
  BY DEF UrlInit, AtItem, OneHolder, Exact, Counted, Holds, Busy
<1> QED
  BY <1>1, <1>2 DEF UrlInv

\* A step of j that moves it between places where it holds nothing.
LEMMA FreeStep ==
  ASSUME UrlInv, UrlTypeOK', NEW j \in UrlJobs, Others(j), AtItemOf(j)', CountedOf(j)',
         ~Holds(j), ~Holds(j)', inflight' = inflight
  PROVE  UrlInv'
BY Registry, Local DEF UrlInv

\* A step of j that moves it between places where it holds its item's id.
LEMMA HeldStep ==
  ASSUME UrlInv, UrlTypeOK', NEW j \in UrlJobs, Others(j), AtItemOf(j)', CountedOf(j)',
         Holds(j), Holds(j)', pos'[j] = pos[j], list' = list, inflight' = inflight
  PROVE  UrlInv'
<1>1. Paper(j)' = Paper(j)
  BY DEF Paper, Item
<1> QED
  BY <1>1, Registry, Local DEF UrlInv

LEMMA BeginInv ==
  ASSUME UrlInv, NEW j \in UrlJobs, Begin(j)
  PROVE  UrlInv'
<1>1. PICK l \in Lists :
        /\ pc[j] = "off" /\ pc' = [pc EXCEPT ![j] = "snapshot"]
        /\ list' = [list EXCEPT ![j] = l]
        /\ UNCHANGED <<index, inflight, pos, existing, plan, ok, bad, strange, late, other>>
  BY DEF Begin, At
<1>2. UrlTypeOK'
  BY <1>1, UrlAssumption DEF UrlInv, UrlTypeOK, Places
<1>3. pc'[j] = "snapshot" /\ list'[j] = l /\ l \in Seq(Items) /\ Others(j)
  BY <1>1, UrlAssumption DEF UrlInv, UrlTypeOK, Others
<1>4. ~Holds(j) /\ ~Holds(j)'
  BY <1>1, <1>3 DEF Holds, Busy
<1>5. pos[j] = 1 /\ ok[j] = 0 /\ bad[j] = 0
  BY <1>1, Current DEF AtItemOf
<1>6. Len(l) \in Nat
  BY <1>3
<1>7. AtItemOf(j)' /\ CountedOf(j)'
  BY <1>1, <1>3, <1>4, <1>5, <1>6 DEF AtItemOf, CountedOf, Busy
<1> QED
  BY <1>1, <1>2, <1>3, <1>4, <1>7, FreeStep

LEMMA SnapshotInv ==
  ASSUME UrlInv, NEW j \in UrlJobs, Snapshot(j)
  PROVE  UrlInv'
<1>1. /\ pc[j] = "snapshot"
      /\ \E there \in {"next", "dead"} : pc' = [pc EXCEPT ![j] = there]
      /\ existing' \in {existing, [existing EXCEPT ![j] = {p \in Papers : index[p] # NoItem}]}
      /\ strange' \in {strange, [strange EXCEPT ![j] = {}]}
      /\ UNCHANGED <<index, inflight, list, pos, plan, ok, bad, late, other>>
  BY DEF Snapshot, At
<1>2. UrlTypeOK'
  BY <1>1 DEF UrlInv, UrlTypeOK, Places
<1>3. pc'[j] \in {"next", "dead"} /\ Others(j)
  BY <1>1 DEF UrlInv, UrlTypeOK, Others
<1>4. ~Holds(j) /\ ~Holds(j)'
  BY <1>1, <1>3 DEF Holds, Busy
<1>5. AtItemOf(j)' /\ CountedOf(j)'
  BY <1>1, <1>3, <1>4, Current DEF AtItemOf, CountedOf, Busy
<1> QED
  BY <1>1, <1>2, <1>3, <1>4, <1>5, FreeStep

LEMMA NextItemInv ==
  ASSUME UrlInv, NEW j \in UrlJobs, NextItem(j)
  PROVE  UrlInv'
<1>1. pc[j] = "next" /\ pos[j] \in 1..Len(list[j]) /\ ~Holds(j) /\ Paper(j) \in Papers
  BY Current DEF NextItem, Holds, Busy
<1>2. CASE Skip(j, "next") /\ UNCHANGED inflight
  <2>1. /\ pc' = [pc EXCEPT ![j] = "next"]
        /\ pos' = [pos EXCEPT ![j] = @ + 1] /\ bad' = [bad EXCEPT ![j] = @ + 1]
        /\ UNCHANGED <<index, inflight, list, existing, plan, ok, strange, late, other>>
    BY <1>2 DEF Skip, At
  <2>2. UrlTypeOK'
    BY <2>1 DEF UrlInv, UrlTypeOK, Places
  <2>3. Others(j) /\ pc'[j] = "next" /\ pos'[j] = pos[j] + 1 /\ bad'[j] = bad[j] + 1
    BY <2>1 DEF UrlInv, UrlTypeOK, Others
  <2>4. ~Holds(j)'
    BY <2>3 DEF Holds, Busy
  <2>5. AtItemOf(j)' /\ CountedOf(j)'
    <3>1. ok[j] + bad[j] + 1 = pos[j] /\ ok[j] \in Nat /\ bad[j] \in Nat /\ Len(list[j]) \in Nat
      BY <1>1, Current DEF CountedOf
    <3>2. ok'[j] + bad'[j] + 1 = pos'[j] /\ pos'[j] <= Len(list[j]) + 1 /\ list'[j] = list[j]
      BY <1>1, <2>1, <2>3, <3>1
    <3> QED
      BY <2>3, <2>4, <3>2 DEF AtItemOf, CountedOf
  <2> QED
    BY <1>1, <2>1, <2>2, <2>3, <2>4, <2>5, FreeStep
<1>3. CASE /\ Paper(j) \notin existing[j] \cup inflight
           /\ At(j, "next", "download")
           /\ inflight' = inflight \cup Reserves(j)
           /\ UNCHANGED <<index, list, pos, existing, plan, ok, bad, strange, late, other>>
  <2>1. inflight' = inflight \cup {Paper(j)} /\ pc' = [pc EXCEPT ![j] = "download"]
    BY <1>3 DEF Reserves, At
  <2>2. UrlTypeOK'
    BY <1>1, <1>3, <2>1 DEF UrlInv, UrlTypeOK, Places, Busy
  <2>3. Others(j) /\ pc'[j] = "download"
    BY <1>3, <2>1 DEF UrlInv, UrlTypeOK, Others
  <2>4. Holds(j)' /\ Paper(j)' = Paper(j)
    BY <1>3, <2>3 DEF Holds, Busy, Paper, Item
  <2>5. AtItemOf(j)' /\ CountedOf(j)'
    BY <1>1, <1>3, <2>3, <2>4, Current DEF AtItemOf, CountedOf, Busy
  <2>6. OneHolder' /\ Exact'
    BY <1>1, <1>3, <2>1, <2>3, <2>4, Registry DEF UrlInv
  <2> QED
    BY <2>2, <2>3, <2>5, <2>6, Local DEF UrlInv
<1> QED
  BY <1>2, <1>3 DEF NextItem

LEMMA GiveBack ==
  ASSUME UrlInv, NEW j \in UrlJobs, Holds(j), pc[j] \in Busy,
         pc' = [pc EXCEPT ![j] = "next"],
         pos' = [pos EXCEPT ![j] = @ + 1],
         inflight' = Unreserved(j),
         ok' = ok,
         bad' = IF pc[j] = "release" THEN bad ELSE [bad EXCEPT ![j] = @ + 1],
         UNCHANGED <<index, list, existing, plan, strange, late, other>>
  PROVE  UrlInv'
<1>1. pos[j] \in 1..Len(list[j]) /\ Paper(j) \in Papers
  BY Current DEF AtItemOf
<1>2. UrlTypeOK'
  BY DEF UrlInv, UrlTypeOK, Places, Unreserved
<1>3. /\ Others(j) /\ pc'[j] = "next" /\ pos'[j] = pos[j] + 1
      /\ bad'[j] = IF pc[j] = "release" THEN bad[j] ELSE bad[j] + 1
  BY DEF UrlInv, UrlTypeOK, Others
<1>4. ~Holds(j)'
  BY <1>3 DEF Holds, Busy
<1>5. AtItemOf(j)'
  BY <1>1, <1>3, <1>4, Current DEF AtItemOf
<1>6. CountedOf(j)'
  BY <1>3, Current DEF CountedOf, Busy
<1>7. OneHolder' /\ Exact'
  BY <1>1, <1>3, <1>4, Registry DEF UrlInv, Unreserved
<1> QED
  BY <1>2, <1>3, <1>5, <1>6, <1>7, Local DEF UrlInv

\* A step of a job that keeps its id and its item, with the counters as they are.
LEMMA QuietStep ==
  ASSUME UrlInv, NEW j \in UrlJobs, NEW here \in {"download", "check"},
         NEW there \in {"check", "write", "stranded"}, At(j, here, there), plan' \in [UrlJobs -> BOOLEAN],
         UNCHANGED <<index, inflight, list, pos, existing, ok, bad, strange, late, other>>
  PROVE  UrlInv'
<1>1. pc[j] = here /\ pc' = [pc EXCEPT ![j] = there]
  BY DEF At
<1>2. UrlTypeOK'
  BY <1>1 DEF UrlInv, UrlTypeOK, Places, Busy
<1>3. Others(j) /\ pc'[j] = there
  BY <1>1 DEF UrlInv, UrlTypeOK, Others
<1>4. Holds(j) /\ Holds(j)'
  BY <1>1, <1>3 DEF Holds, Busy
<1>5. AtItemOf(j)' /\ CountedOf(j)'
  BY <1>1, <1>3, <1>4, Current DEF AtItemOf, CountedOf, Busy
<1> QED
  BY <1>2, <1>3, <1>4, <1>5, HeldStep

LEMMA DownloadInv ==
  ASSUME UrlInv, NEW j \in UrlJobs, Download(j)
  PROVE  UrlInv'
<1>1. plan \in [UrlJobs -> BOOLEAN]
  BY DEF UrlInv, UrlTypeOK
<1>2. CASE /\ At(j, "download", "check") \/ At(j, "download", "stranded")
           /\ UNCHANGED <<index, inflight, list, pos, existing, plan, ok, bad, strange, late, other>>
  BY <1>1, <1>2, QuietStep
<1>3. CASE pc[j] = "download" /\ inflight' = Unreserved(j) /\ Skip(j, "next")
  BY <1>3, GiveBack DEF Skip, At, Holds, Busy
<1> QED
  BY <1>2, <1>3 DEF Download

LEMMA CheckIndexInv ==
  ASSUME UrlInv, NEW j \in UrlJobs, CheckIndex(j)
  PROVE  UrlInv'
<1>1. plan' \in [UrlJobs -> BOOLEAN]
  BY DEF CheckIndex, UrlInv, UrlTypeOK
<1>2. At(j, "check", "write") /\ UNCHANGED <<index, inflight, list, pos, existing, ok, bad, strange, late, other>>
  BY DEF CheckIndex
<1> QED
  BY <1>1, <1>2, QuietStep

LEMMA WriteInv ==
  ASSUME UrlInv, NEW j \in UrlJobs, Write(j)
  PROVE  UrlInv'
<1>1. /\ pc[j] = "write" /\ pc' = [pc EXCEPT ![j] = "release"]
      /\ UNCHANGED <<inflight, list, pos, plan>>
      /\ \/ ok' = [ok EXCEPT ![j] = @ + 1] /\ bad' = bad
         \/ bad' = [bad EXCEPT ![j] = @ + 1] /\ ok' = ok
      /\ existing' \in {existing, [existing EXCEPT ![j] = @ \cup {Paper(j)}]}
      /\ \E jobs : strange' \in {strange, Unknown(Paper(j), jobs)}
      /\ late' \in {late, late \cup {Item(j)}} /\ other' \in {other, other + 1}
      /\ index' \in {index, [index EXCEPT ![Paper(j)] = Item(j)], [index EXCEPT ![Paper(j)] = NoItem]}
  BY DEF Write, At, Known
<1>2. Holds(j)
  BY <1>1 DEF Holds, Busy
<1>3. Paper(j) \in Papers /\ Item(j) \in Items
  BY <1>2, Current, PaperType DEF AtItemOf, UrlInv
<1>4. UrlTypeOK'
  <2>1. index' \in [Papers -> Items \cup {NoItem}]
    BY <1>1, <1>3 DEF UrlInv, UrlTypeOK
  <2>3. existing' \in [UrlJobs -> SUBSET Papers]
    <3>1. existing \in [UrlJobs -> SUBSET Papers]
      BY DEF UrlInv, UrlTypeOK
    <3>2. existing[j] \cup {Paper(j)} \in SUBSET Papers
      BY <1>3, <3>1
    <3>3. [existing EXCEPT ![j] = @ \cup {Paper(j)}] \in [UrlJobs -> SUBSET Papers]
      BY <3>1, <3>2
    <3> QED
      BY <1>1, <3>1, <3>3
  <2>2. ok' \in [UrlJobs -> Nat] /\ bad' \in [UrlJobs -> Nat]
    <3>1. ok \in [UrlJobs -> Nat] /\ bad \in [UrlJobs -> Nat]
      BY DEF UrlInv, UrlTypeOK
    <3>2. ok' = ok \/ ok' = [ok EXCEPT ![j] = @ + 1]
      BY <1>1
    <3>3. bad' = bad \/ bad' = [bad EXCEPT ![j] = @ + 1]
      BY <1>1
    <3> QED
      BY <3>1, <3>2, <3>3
  <2>4. strange' \in [UrlJobs -> SUBSET Papers]
    <3>1. strange \in [UrlJobs -> SUBSET Papers]
      BY DEF UrlInv, UrlTypeOK
    <3>2. ASSUME NEW jobs PROVE Unknown(Paper(j), jobs) \in [UrlJobs -> SUBSET Papers]
      BY <1>3, <3>1 DEF Unknown
    <3> QED
      BY <1>1, <3>1, <3>2
  <2>5. late' \in SUBSET Items /\ other' \in Nat
    BY <1>1, <1>3 DEF UrlInv, UrlTypeOK
  <2> QED
    BY <1>1, <2>1, <2>2, <2>3, <2>4, <2>5 DEF UrlInv, UrlTypeOK, Places, Busy
<1>5. Others(j) /\ pc'[j] = "release"
      /\ (\/ ok'[j] = ok[j] + 1 /\ bad'[j] = bad[j]
          \/ ok'[j] = ok[j] /\ bad'[j] = bad[j] + 1)
  BY <1>1 DEF UrlInv, UrlTypeOK, Others
<1>6. Holds(j)'
  BY <1>5 DEF Holds, Busy
<1>7. AtItemOf(j)'
  BY <1>1, <1>2, <1>5, <1>6, Current DEF AtItemOf, Busy
<1>8. CountedOf(j)'
  <2>1. ok[j] + bad[j] + 1 = pos[j] /\ ok[j] \in Nat /\ bad[j] \in Nat
    BY <1>1, Current DEF CountedOf, Busy
  <2>2. ok'[j] + bad'[j] = pos'[j]
    BY <1>1, <1>5, <2>1
  <2> QED
    BY <1>5, <2>2 DEF CountedOf, Busy
<1> QED
  BY <1>1, <1>2, <1>4, <1>5, <1>6, <1>7, <1>8, HeldStep

LEMMA FinishJobInv ==
  ASSUME UrlInv, NEW j \in UrlJobs, FinishJob(j)
  PROVE  UrlInv'
<1>1. /\ pc[j] = "next" /\ pc' = [pc EXCEPT ![j] = "done"]
      /\ pos[j] \notin 1..Len(list[j])
      /\ UNCHANGED <<index, inflight, list, pos, existing, plan, ok, bad, strange, late, other>>
  BY DEF FinishJob, At
<1>2. UrlTypeOK'
  BY <1>1 DEF UrlInv, UrlTypeOK, Places
<1>3. pc'[j] = "done" /\ Others(j)
  BY <1>1 DEF UrlInv, UrlTypeOK, Others
<1>4. ~Holds(j) /\ ~Holds(j)'
  BY <1>1, <1>3 DEF Holds, Busy
<1>5. AtItemOf(j)' /\ CountedOf(j)'
  BY <1>1, <1>3, <1>4, Current DEF AtItemOf, CountedOf, Busy
<1> QED
  BY <1>1, <1>2, <1>3, <1>4, <1>5, FreeStep

LEMMA OtherInv ==
  ASSUME UrlInv, Other \/ Lands \/ UNCHANGED urlVars
  PROVE  UrlInv'
<1>1. UNCHANGED <<inflight, pc, list, pos, existing, plan, ok, bad>>
  BY DEF Other, Lands, private, urlVars
<1>2. UrlTypeOK'
  <2>1. /\ index' \in [Papers -> Items \cup {NoItem}] /\ other' \in Nat
        /\ strange' \in [UrlJobs -> SUBSET Papers] /\ late' \in SUBSET Items
    <3>0. /\ index \in [Papers -> Items \cup {NoItem}] /\ other \in Nat
          /\ strange \in [UrlJobs -> SUBSET Papers] /\ late \in SUBSET Items
      BY DEF UrlInv, UrlTypeOK
    <3>1. CASE Other
      <4>1. PICK p \in Papers, x \in Items \cup {NoItem} :
              /\ index' = [index EXCEPT ![p] = x]
              /\ strange' \in {strange, Unknown(p, UrlJobs)}
        BY <3>1 DEF Other
      <4>2. other' = other + 1 /\ late' = late
        BY <3>1 DEF Other
      <4> QED
        BY <3>0, <4>1, <4>2 DEF Unknown
    <3>3. CASE Lands
      <4>1. PICK x \in late :
              /\ late' = late \ {x}
              /\ index' = [index EXCEPT ![IdOf[x]] = x]
              /\ strange' = Unknown(IdOf[x], UrlJobs)
        BY <3>3 DEF Lands
      <4>2. x \in Items /\ IdOf[x] \in Papers
        BY <3>0, <4>1, UrlAssumption
      <4>3. other' = other
        BY <3>3 DEF Lands
      <4> QED
        BY <3>0, <4>1, <4>2, <4>3 DEF Unknown
    <3>2. CASE UNCHANGED urlVars
      BY <3>2 DEF urlVars, UrlInv, UrlTypeOK
    <3> QED
      BY <3>1, <3>2, <3>3
  <2> QED
    BY <1>1, <2>1 DEF UrlInv, UrlTypeOK
<1>3. AtItem' /\ OneHolder' /\ Exact' /\ Counted'
  BY <1>1 DEF UrlInv, AtItem, OneHolder, Exact, Counted, Holds, Paper, Item
<1> QED
  BY <1>2, <1>3 DEF UrlInv

LEMMA UrlNextInv ==
  ASSUME UrlInv, [UrlNext]_urlVars
  PROVE  UrlInv'
<1>1. ASSUME NEW j \in UrlJobs, Begin(j) \/ UrlWork(j)
      PROVE  UrlInv'
  <2>1. CASE Release(j)
    BY <2>1, GiveBack DEF Release, At, Holds, Busy
  <2> QED
    BY <1>1, <2>1, BeginInv, SnapshotInv, NextItemInv, DownloadInv, CheckIndexInv, WriteInv,
       FinishJobInv DEF UrlWork
<1> QED
  BY <1>1, OtherInv DEF UrlNext

-----------------------------------------------------------------------------
LEMMA UrlInvariance == UrlSpec => []UrlInv
<1>1. UrlInit => UrlInv
  BY UrlInitInv
<1>2. UrlInv /\ [UrlNext]_urlVars => UrlInv'
  BY UrlNextInv
<1> QED
  BY <1>1, <1>2, PTL DEF UrlSpec

\* The registry, the index and the jobs' locals have their types in every reachable state.
THEOREM UrlTypes == UrlSpec => []UrlTypeOK
<1>1. UrlInv => UrlTypeOK
  BY DEF UrlInv
<1> QED
  BY <1>1, UrlInvariance, PTL

\* The registry does its work: no two jobs download, ingest or write the same paper id.
THEOREM MutualExclusion == UrlSpec => []OneJobPerPaper
<1>1. UrlInv => OneJobPerPaper
  BY DEF UrlInv, OneHolder, OneJobPerPaper, Holds
<1> QED
  BY <1>1, UrlInvariance, PTL

\* No reservation is left behind, and none is taken from the job that holds it.
THEOREM RegistryIsExact == UrlSpec => []RegistryExact
<1>1. UrlInv => RegistryExact
  <2> SUFFICES ASSUME UrlInv PROVE RegistryExact
    OBVIOUS
  <2>1. inflight \subseteq Papers
    BY DEF UrlInv, UrlTypeOK
  <2>2. \A j \in UrlJobs : Holds(j) => Paper(j) \in Papers
    BY Current DEF AtItemOf
  <2> QED
    BY <2>1, <2>2 DEF UrlInv, Exact, RegistryExact, Holds
<1> QED
  BY <1>1, UrlInvariance, PTL

\* A job that ends has counted every item of its list once.
THEOREM CountsAddUp == UrlSpec => []AllCounted
<1>1. UrlInv => AllCounted
  <2> SUFFICES ASSUME UrlInv, NEW j \in UrlJobs, pc[j] = "done"
               PROVE  ok[j] + bad[j] = Len(list[j])
    BY DEF AllCounted
  <2>1. ok[j] + bad[j] + 1 = pos[j] /\ pos[j] <= Len(list[j]) + 1 /\ pos[j] \notin 1..Len(list[j])
    BY Current DEF AtItemOf, CountedOf
  <2>2. pos[j] \in Nat \ {0} /\ ok[j] \in Nat /\ bad[j] \in Nat /\ Len(list[j]) \in Nat
    BY Current
  <2> QED
    BY <2>1, <2>2
<1> QED
  BY <1>1, UrlInvariance, PTL

-----------------------------------------------------------------------------
\* What is in the index, a job that has read the ids knows of, or it is strange to it; and
\* it does not know of the paper it is about to ingest.
StrangeOf(j) ==
  /\ pc[j] \in {"download", "check", "write"} => Paper(j) \notin existing[j]
  /\ pc[j] \notin {"off", "snapshot", "dead"} =>
       \A p \in Papers : index[p] # NoItem => p \in existing[j] \cup strange[j]
KnownOrStrange == \A j \in UrlJobs : StrangeOf(j)

\* At first no job has read the ids.
LEMMA StrangeInit == UrlInit => KnownOrStrange
BY DEF UrlInit, KnownOrStrange, StrangeOf

\* The other jobs stay where they are.
Apart(j) ==
  \A k \in UrlJobs \ {j} : pc'[k] = pc[k] /\ list'[k] = list[k] /\ pos'[k] = pos[k]

\* A step that writes no chunks leaves the others as they are.
LEMMA StrangeLocal ==
  ASSUME KnownOrStrange, NEW j \in UrlJobs, Apart(j), StrangeOf(j)', index' = index,
         \A k \in UrlJobs \ {j} : existing'[k] = existing[k] /\ strange'[k] = strange[k]
  PROVE  KnownOrStrange'
<1>1. ASSUME NEW k \in UrlJobs, k # j PROVE StrangeOf(k)'
  BY <1>1 DEF KnownOrStrange, StrangeOf, Apart, Paper, Item
<1> QED
  BY <1>1 DEF KnownOrStrange

\* Nor does one that moves a job on with the ids it knows.
LEMMA StrangeMove ==
  ASSUME UrlInv, KnownOrStrange, NEW j \in UrlJobs, Apart(j),
         UNCHANGED <<index, existing, strange>>,
         pc[j] \notin {"off", "snapshot", "dead"},
         pc'[j] \in {"download", "check", "write"} => Paper(j)' \notin existing[j]
  PROVE  KnownOrStrange'
<1>1. StrangeOf(j)'
  BY DEF KnownOrStrange, StrangeOf
<1> QED
  BY <1>1, StrangeLocal

\* Chunks that a job writes are known to it and strange to the others.
LEMMA StrangeWrite ==
  ASSUME UrlInv, KnownOrStrange, NEW j \in UrlJobs, Write(j)
  PROVE  KnownOrStrange'
<1>1. /\ pc[j] = "write" /\ pc' = [pc EXCEPT ![j] = "release"]
      /\ UNCHANGED <<list, pos>>
  BY DEF Write, At
<1>2. pc'[j] = "release" /\ Apart(j) /\ Paper(j) \in Papers
  <2>1. Holds(j)
    BY <1>1 DEF Holds, Busy
  <2> QED
    BY <1>1, <2>1, Current DEF UrlInv, UrlTypeOK, Apart, AtItemOf
<1>3. /\ \A p \in Papers \ {Paper(j)} : index'[p] = index[p]
      /\ \A k \in UrlJobs : existing[k] \subseteq existing'[k] /\ strange[k] \subseteq strange'[k]
      /\ \A k \in UrlJobs \ {j} : existing'[k] = existing[k]
  <2>1. /\ index \in [Papers -> Items \cup {NoItem}]
        /\ existing \in [UrlJobs -> SUBSET Papers] /\ strange \in [UrlJobs -> SUBSET Papers]
    BY DEF UrlInv, UrlTypeOK
  <2>2. \A p \in Papers \ {Paper(j)} : index'[p] = index[p]
    BY <2>1 DEF Write
  <2>3. \A k \in UrlJobs : existing[k] \subseteq existing'[k]
    BY <2>1 DEF Write, Known
  <2>4. \A k \in UrlJobs : strange[k] \subseteq strange'[k]
    BY <2>1 DEF Write, Unknown
  <2>5. \A k \in UrlJobs \ {j} : existing'[k] = existing[k]
    BY <2>1 DEF Write
  <2> QED
    BY <2>2, <2>3, <2>4, <2>5
<1>4. \/ index'[Paper(j)] \in {index[Paper(j)], NoItem}
      \/ /\ Paper(j) \in existing'[j]
         /\ \A k \in UrlJobs \ {j} : Paper(j) \in strange'[k]
      \/ \A k \in UrlJobs : Paper(j) \in strange'[k]
  <2>1. CASE index' = index \/ index' = [index EXCEPT ![Paper(j)] = NoItem]
    BY <1>2, <2>1 DEF UrlInv, UrlTypeOK
  <2>2. CASE /\ index' = IF plan[j] THEN [index EXCEPT ![Paper(j)] = Item(j)] ELSE index
             /\ strange' = IF plan[j] THEN Unknown(Paper(j), UrlJobs \ {j}) ELSE strange
             /\ existing' = [existing EXCEPT ![j] = Known(j)]
    BY <1>2, <2>2 DEF Known, Unknown, UrlInv, UrlTypeOK
  <2>3. CASE strange' = Unknown(Paper(j), UrlJobs)
    BY <2>3 DEF Unknown
  <2> QED
    BY <2>1, <2>2, <2>3 DEF Write
<1>5. ASSUME NEW k \in UrlJobs
      PROVE  StrangeOf(k)'
  <2>1. StrangeOf(k)
    BY DEF KnownOrStrange
  <2>2. CASE k = j
    BY <1>1, <1>2, <1>3, <1>4, <2>1, <2>2 DEF StrangeOf
  <2>3. CASE k # j
    <3>1. pc'[k] = pc[k] /\ Paper(k)' = Paper(k)
      BY <1>2, <2>3 DEF Apart, Paper, Item
    <3> QED
      BY <1>3, <1>4, <2>1, <2>3, <3>1 DEF StrangeOf
  <2> QED
    BY <2>2, <2>3
<1> QED
  BY <1>5 DEF KnownOrStrange

\* Chunks from elsewhere are strange to every job.
LEMMA StrangeOther ==
  ASSUME UrlInv, KnownOrStrange, Other \/ Lands
  PROVE  KnownOrStrange'
<1>1. PICK q \in Papers, x \in Items \cup {NoItem} :
        /\ index' = [index EXCEPT ![q] = x]
        /\ strange' = IF x = NoItem THEN strange ELSE Unknown(q, UrlJobs)
  <2>1. CASE Other
    BY <2>1 DEF Other
  <2>2. CASE Lands
    <3>1. PICK x \in late : /\ index' = [index EXCEPT ![IdOf[x]] = x]
                            /\ strange' = Unknown(IdOf[x], UrlJobs)
      BY <2>2 DEF Lands
    <3>2. x \in Items /\ IdOf[x] \in Papers /\ x # NoItem
      BY <3>1, UrlAssumption DEF UrlInv, UrlTypeOK
    <3> QED
      BY <3>1, <3>2
  <2> QED
    BY <2>1, <2>2
<1>2. UNCHANGED <<pc, list, pos, existing>>
  BY DEF Other, Lands, private
<1>3. ASSUME NEW k \in UrlJobs
      PROVE  StrangeOf(k)'
  <2>1. StrangeOf(k) /\ Paper(k)' = Paper(k)
    BY <1>2 DEF KnownOrStrange, Paper, Item
  <2>2. ASSUME NEW p \in Papers, index'[p] # NoItem, p \notin strange'[k]
        PROVE  index[p] # NoItem /\ p \notin strange[k]
    BY <1>1, <2>2 DEF UrlInv, UrlTypeOK, Unknown
  <2> QED
    BY <1>2, <2>1, <2>2 DEF StrangeOf
<1> QED
  BY <1>3 DEF KnownOrStrange

\* Every step keeps it.
LEMMA StrangeStep ==
  ASSUME UrlInv, KnownOrStrange, [UrlNext]_urlVars
  PROVE  KnownOrStrange'
<1>1. CASE UNCHANGED urlVars
  BY <1>1 DEF urlVars, private, KnownOrStrange, StrangeOf, Paper, Item
<1>2. ASSUME NEW j \in UrlJobs, Begin(j) PROVE KnownOrStrange'
  <2>1. pc' = [pc EXCEPT ![j] = "snapshot"] /\ UNCHANGED <<index, pos, existing, strange>>
        /\ \E l : list' = [list EXCEPT ![j] = l]
    BY <1>2 DEF Begin, At
  <2>2. Apart(j) /\ pc'[j] = "snapshot"
    BY <2>1 DEF UrlInv, UrlTypeOK, Apart
  <2> QED
    BY <2>1, <2>2, StrangeLocal DEF StrangeOf
<1>3. ASSUME NEW j \in UrlJobs, Snapshot(j) PROVE KnownOrStrange'
  <2>1. CASE /\ At(j, "snapshot", "next")
             /\ existing' = [existing EXCEPT ![j] = {p \in Papers : index[p] # NoItem}]
             /\ strange' = [strange EXCEPT ![j] = {}]
    <3>1. UNCHANGED <<index, list, pos>> /\ pc' = [pc EXCEPT ![j] = "next"]
      BY <1>3, <2>1 DEF Snapshot, At
    <3>2. Apart(j) /\ pc'[j] = "next" /\ existing'[j] = {p \in Papers : index[p] # NoItem}
      BY <2>1, <3>1 DEF UrlInv, UrlTypeOK, Apart
    <3>3. \A k \in UrlJobs \ {j} : existing'[k] = existing[k] /\ strange'[k] = strange[k]
      BY <2>1 DEF UrlInv, UrlTypeOK
    <3>4. StrangeOf(j)'
      BY <3>1, <3>2 DEF StrangeOf
    <3> QED
      BY <3>1, <3>2, <3>3, <3>4, StrangeLocal
  <2>2. CASE At(j, "snapshot", "dead") /\ UNCHANGED <<existing, strange>>
    <3>1. UNCHANGED <<index, list, pos>> /\ pc' = [pc EXCEPT ![j] = "dead"]
      BY <1>3, <2>2 DEF Snapshot, At
    <3>2. Apart(j) /\ pc'[j] = "dead"
      BY <3>1 DEF UrlInv, UrlTypeOK, Apart
    <3> QED
      BY <2>2, <3>1, <3>2, StrangeLocal DEF StrangeOf
  <2> QED
    BY <1>3, <2>1, <2>2 DEF Snapshot
<1>4. ASSUME NEW j \in UrlJobs, NextItem(j) PROVE KnownOrStrange'
  <2>1. CASE Skip(j, "next")
    <3>1. pc' = [pc EXCEPT ![j] = "next"] /\ pos' = [pos EXCEPT ![j] = @ + 1]
          /\ UNCHANGED <<index, list, existing, strange>> /\ pc[j] = "next"
      BY <1>4, <2>1 DEF NextItem, Skip, At
    <3>2. Apart(j) /\ pc'[j] = "next"
      BY <3>1 DEF UrlInv, UrlTypeOK, Apart
    <3> QED
      BY <3>1, <3>2, StrangeMove
  <2>2. CASE /\ Paper(j) \notin existing[j] \cup inflight
             /\ At(j, "next", "download")
             /\ UNCHANGED <<index, list, pos, existing, plan, ok, bad, strange, late, other>>
    <3>1. pc' = [pc EXCEPT ![j] = "download"] /\ pc[j] = "next" /\ Paper(j)' = Paper(j)
      BY <2>2 DEF At, Paper, Item
    <3>2. Apart(j) /\ pc'[j] = "download"
      BY <2>2, <3>1 DEF UrlInv, UrlTypeOK, Apart
    <3> QED
      BY <2>2, <3>1, <3>2, StrangeMove
  <2> QED
    BY <1>4, <2>1, <2>2 DEF NextItem
<1>5. ASSUME NEW j \in UrlJobs, Download(j) \/ CheckIndex(j) \/ Release(j) \/ FinishJob(j)
      PROVE  KnownOrStrange'
  <2>1. /\ UNCHANGED <<index, list, existing, strange>>
        /\ \/ /\ pc[j] \in {"download", "check"} /\ UNCHANGED pos
              /\ \E there \in {"check", "write", "stranded"} : pc' = [pc EXCEPT ![j] = there]
           \/ /\ pc[j] \in {"download", "release", "next"}
              /\ \E there \in {"next", "done"} : pc' = [pc EXCEPT ![j] = there]
              /\ pos' \in {pos, [pos EXCEPT ![j] = @ + 1]}
    BY <1>5 DEF Download, CheckIndex, Release, FinishJob, Skip, At
  <2>2. Apart(j)
    BY <2>1 DEF UrlInv, UrlTypeOK, Apart
  <2>3. CASE /\ pc[j] \in {"download", "check"} /\ UNCHANGED pos
             /\ \E there \in {"check", "write", "stranded"} : pc' = [pc EXCEPT ![j] = there]
    <3>1. Paper(j)' = Paper(j) /\ Paper(j) \notin existing[j]
      BY <2>1, <2>3 DEF KnownOrStrange, StrangeOf, Paper, Item
    <3> QED
      BY <2>1, <2>2, <2>3, <3>1, StrangeMove
  <2>4. CASE /\ pc[j] \in {"download", "release", "next"}
             /\ \E there \in {"next", "done"} : pc' = [pc EXCEPT ![j] = there]
    <3>1. pc'[j] \in {"next", "done"}
      BY <2>4 DEF UrlInv, UrlTypeOK
    <3> QED
      BY <2>1, <2>2, <2>4, <3>1, StrangeMove
  <2> QED
    BY <2>1, <2>3, <2>4
<1> QED
  BY <1>1, <1>2, <1>3, <1>4, <1>5, StrangeWrite, StrangeOther DEF UrlNext, UrlWork

\* A job replaces no chunks it knew of, nor any it counted as ingested: what it replaces came
\* after it had read the ids, from another or from an item of its own whose ingest raised, for
\* any lists, jobs and writers.
THEOREM OverwritesAreStrange == UrlSpec => OverwritesOnlyStrange
<1> DEFINE Strange ==
      \A j \in UrlJobs : pc[j] = "write" /\ pc'[j] = "release" =>
        \A p \in Papers : index[p] # NoItem /\ index'[p] # index[p] => p \in strange[j]
<1>1. UrlInv /\ KnownOrStrange /\ [UrlNext]_urlVars => [Strange]_urlVars
  <2> SUFFICES ASSUME UrlInv, KnownOrStrange, UrlNext, NEW j \in UrlJobs,
                      pc[j] = "write", pc'[j] = "release",
                      NEW p \in Papers, index[p] # NoItem, index'[p] # index[p]
               PROVE  p \in strange[j]
    BY DEF urlVars
  <2>1. Write(j)
    <3>1. pc' # pc
      OBVIOUS
    <3>2. ~Other /\ ~Lands
      BY <3>1 DEF Other, Lands, private
    <3>3. PICK k \in UrlJobs : Begin(k) \/ UrlWork(k)
      BY <3>2 DEF UrlNext
    <3>4. \E there : pc' = [pc EXCEPT ![k] = there]
      BY <3>3 DEF Begin, UrlWork, Snapshot, NextItem, Download, CheckIndex, Write, Release,
                  FinishJob, Skip, At
    <3>5. k = j
      BY <3>4 DEF UrlInv, UrlTypeOK
    <3> QED
      BY <3>3, <3>5 DEF Begin, UrlWork, Snapshot, NextItem, Download, CheckIndex, Release,
                        FinishJob, Skip, At
  <2>2. \A q \in Papers \ {Paper(j)} : index'[q] = index[q]
    <3>1. Holds(j)
      BY DEF Holds, Busy
    <3>2. Paper(j) \in Papers
      BY <3>1, Current DEF AtItemOf
    <3> QED
      BY <2>1, <3>2 DEF Write, UrlInv, UrlTypeOK
  <2>3. p \notin existing[j] /\ p \in existing[j] \cup strange[j]
    BY <2>2 DEF KnownOrStrange, StrangeOf
  <2> QED
    BY <2>3
<1>2. UrlSpec => [](UrlInv /\ KnownOrStrange)
  <2>1. UrlInit => UrlInv /\ KnownOrStrange
    BY UrlInitInv, StrangeInit
  <2>2. UrlInv /\ KnownOrStrange /\ [UrlNext]_urlVars => (UrlInv /\ KnownOrStrange)'
    BY UrlNextInv, StrangeStep
  <2> QED
    BY <2>1, <2>2, PTL DEF UrlSpec
<1> QED
  BY <1>1, <1>2, PTL DEF UrlSpec, OverwritesOnlyStrange
=============================================================================
