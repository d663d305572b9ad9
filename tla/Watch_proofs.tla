---------------------------- MODULE Watch_proofs ----------------------------
(***************************************************************************)
(* For any watches, loops, callers and papers, and any lease, cadence and  *)
(* clock: the types, OneScheduledRun, NotFetchedAgain, NewPapersAnnounced. *)
(*                                                                         *)
(* Two loops exclude each other because the row of a watch that a loop     *)
(* runs is not due before that loop's sweep is over (Leased), so whoever   *)
(* claims it read it as due after that (Sweeps, RowsAgree).                *)
(*                                                                         *)
(* And the store under it, persistence.py, for any threads, papers, rows   *)
(* and values: the types, MirrorAgrees, IsTxStore and RestCommitted        *)
(* (second half).  At most one thread is past the lock (Locked), its units *)
(* are apart (Doing), no COMMIT and no savepoint meets a mirror half       *)
(* written (Agreeing), and the connection is what the lock was last given  *)
(* back with and what the thread past it has written since (Published).    *)
(***************************************************************************)
EXTENDS Watch, Persistence, TLAPS

\* The two copies of next_run are one.
RowsAgree == \A w \in Watches : Exists(w) => rows[w].next = rows[w].column

\* A sweep is within its time, and what it found due was due when it began.
Sweeps ==
  \A l \in Loops : loop[l].pc = "sweep" =>
    /\ loop[l].at <= now /\ now <= loop[l].at + SweepTime
    /\ \A d \in loop[l].due : d.next <= loop[l].at

\* A loop runs a watch within a sweep, and its row is not due before the sweep is over.
Leased ==
  \A l \in Loops : Active(l) =>
    /\ loop[l].pc = "sweep"
    /\ Exists(run[l].watch) => rows[run[l].watch].column > loop[l].at + SweepTime

Alone == \A l, k \in Loops : Active(l) /\ Active(k) /\ run[l].watch = run[k].watch => l = k

Claimed == RowsAgree /\ Sweeps /\ (SweepFits => Leased /\ Alone)

\* Nothing is known of a watch before it is created.
Created ==
  /\ \A w \in Watches : Exists(w) => w \in known
  /\ \A r \in Runners : Active(r) => run[r].watch \in known
  /\ \A w \in Watches \ known : seenBy[w] = {}

\* Of a watch whose runs never overlapped: one runs at a time, the row has all that was
\* seen, a run has it once it has read the row, and takes up none of it.
SeenKept ==
  \A w \in Watches \ overlapped :
    /\ \A r, q \in Runners : Active(r) /\ Active(q) /\ run[r].watch = w /\ run[q].watch = w => r = q
    /\ Exists(w) => seenBy[w] \subseteq rows[w].seen
    /\ \A r \in Runners : Active(r) /\ run[r].watch = w =>
         /\ run[r].pc = "read" => run[r].todo = {}
         /\ run[r].pc \in {"fetch", "save"} => seenBy[w] \subseteq run[r].seen
         /\ run[r].todo \cap run[r].seen = {}

\* What a run put into the index will be in its digest, or has been in one, or was cut off.
ToAnnounce ==
  /\ \A r \in Runners : /\ run[r].mine \subseteq run[r].fresh
                        /\ run[r].pc = "read" => run[r].mine = {}
  /\ \A w \in Watches, x \in Papers : x \in added[w] =>
       x \in announced[w] \cup cut \/ \E r \in Runners : Active(r) /\ run[r].watch = w /\ x \in run[r].mine

-----------------------------------------------------------------------------
LEMMA Idle == IdleRun \in Run /\ IdleRun.pc = "idle" /\ IdleRun.watch = NoWatch /\ IdleRun.mine = {}
BY DEF IdleRun, Run

\* The types hold at first and every step keeps them.
LEMMA TypeInit == Init => TypeOK
BY Idle, WatchAssumption DEF Init, TypeOK, Asleep, Loop, Active, Runners

LEMMA Times == {Lease, Cadence, RunTime, SweepTime} \subseteq Nat
BY WatchAssumption

LEMMA RunType ==
  ASSUME TypeOK, NEW r \in Runners
  PROVE  /\ run[r] \in Run
         /\ run[r].pc \in {"idle", "read", "fetch", "save"}
         /\ run[r].watch \in Watches \cup {NoWatch}
         /\ {run[r].seen, run[r].todo, run[r].new, run[r].fresh, run[r].mine} \subseteq SUBSET Papers
         /\ run[r].started \in Nat
         /\ Active(r) => run[r].watch \in Watches
BY DEF TypeOK, Run

LEMMA RowType ==
  ASSUME TypeOK, NEW w \in Watches, Exists(w)
  PROVE  rows[w] \in Row /\ rows[w].column \in Nat /\ rows[w].next \in Nat /\ rows[w].seen \in SUBSET Papers
BY DEF TypeOK, Row, Exists

LEMMA LoopType ==
  ASSUME TypeOK, NEW l \in Loops
  PROVE  loop[l] \in Loop /\ loop[l].at \in Nat /\ loop[l].due \in SUBSET Due
BY DEF TypeOK, Loop

LEMMA BeginType ==
  ASSUME TypeOK, NEW r \in Runners, NEW w \in Watches, Begin(r, w)
  PROVE  /\ run' \in [Runners -> Run] /\ overlapped' \in SUBSET Watches
         /\ run'[r].pc = "read" /\ run'[r].watch = w /\ run'[r].mine = {}
         /\ run'[r].todo = {} /\ run'[r].seen = {} /\ run'[r].fresh = {}
         /\ \A q \in Runners \ {r} : run'[q] = run[q]
         /\ \A q \in Runners : Active(q)' <=> (q = r \/ Active(q))
         /\ \A q \in Runners : Active(q)' => run'[q].watch \in Watches
<1>1. run' = [run EXCEPT ![r] = [IdleRun EXCEPT !.pc = "read", !.watch = w, !.started = now]]
  BY DEF Begin
<1> DEFINE R == [IdleRun EXCEPT !.pc = "read", !.watch = w, !.started = now]
<1>2. /\ R \in Run /\ R.pc = "read" /\ R.watch = w /\ R.mine = {}
      /\ R.todo = {} /\ R.seen = {} /\ R.fresh = {}
  BY DEF IdleRun, Run, TypeOK
<1>3. run'[r] = R /\ run' \in [Runners -> Run] /\ \A q \in Runners \ {r} : run'[q] = run[q]
  BY <1>1, <1>2 DEF TypeOK
<1>4. overlapped' \in SUBSET Watches
  BY DEF Begin, TypeOK
<1>5. \A q \in Runners : Active(q)' <=> (q = r \/ Active(q))
  BY <1>2, <1>3 DEF Active
<1> QED
  BY <1>2, <1>3, <1>4, <1>5, RunType

LEMMA ReadRun ==
  ASSUME TypeOK, NEW r \in Runners, Read(r)
  PROVE  /\ \/ run'[r] = IdleRun
            \/ /\ Exists(run[r].watch)
               /\ \E S \in SUBSET (Papers \ rows[run[r].watch].seen) :
                    run'[r] = [run[r] EXCEPT !.pc = IF S = {} THEN "save" ELSE "fetch",
                                             !.seen = rows[run[r].watch].seen, !.todo = S]
         /\ \A q \in Runners \ {r} : run'[q] = run[q]
         /\ \A q \in Runners : Active(q)' => Active(q) /\ run'[q].watch = run[q].watch
         /\ \A q \in Runners : run'[q].mine \subseteq run[q].mine
         /\ run' \in [Runners -> Run]
<1>1. Active(r) /\ run[r].watch \in Watches
  BY RunType DEF Read, Active
<1>2. CASE run' = [run EXCEPT ![r] = IdleRun]
  <2>1. run'[r] = IdleRun /\ \A q \in Runners \ {r} : run'[q] = run[q]
    BY <1>2 DEF TypeOK
  <2> QED
    BY <1>1, <1>2, <2>1, Idle, RunType DEF Active, TypeOK
<1>3. CASE ~(run' = [run EXCEPT ![r] = IdleRun])
  <2>1. PICK S \in SUBSET (Papers \ rows[run[r].watch].seen) :
          /\ Exists(run[r].watch)
          /\ run' = [run EXCEPT ![r].pc = IF S = {} THEN "save" ELSE "fetch",
                                ![r].seen = rows[run[r].watch].seen, ![r].todo = S]
    BY <1>3 DEF Read
  <2> DEFINE R == [run[r] EXCEPT !.pc = IF S = {} THEN "save" ELSE "fetch",
                                 !.seen = rows[run[r].watch].seen, !.todo = S]
  <2>2. run' = [run EXCEPT ![r] = R]
    BY <2>1 DEF TypeOK
  <2>3. R \in Run /\ R.watch = run[r].watch /\ R.mine = run[r].mine
    BY <1>1, <2>1, RunType, RowType DEF Run
  <2>4. run'[r] = R /\ \A q \in Runners \ {r} : run'[q] = run[q]
    BY <2>2 DEF TypeOK
  <2> HIDE DEF R
  <2>5. \A q \in Runners : Active(q)' => Active(q) /\ run'[q].watch = run[q].watch
    BY <1>1, <2>3, <2>4 DEF Active
  <2>6. run' \in [Runners -> Run]
    BY <2>2, <2>3 DEF TypeOK
  <2>7. \A q \in Runners : run'[q].mine \subseteq run[q].mine
    BY <2>3, <2>4
  <2> QED
    BY <2>1, <2>4, <2>5, <2>6, <2>7 DEF R
<1> QED
  BY <1>2, <1>3

LEMMA FetchedType ==
  ASSUME NEW R \in Run, NEW x \in R.todo, NEW how \in {"indexed", "known", "abstract"}
  PROVE  LET F == Fetched(R, x, how) IN
         /\ F \in Run /\ F.watch = R.watch /\ F.seen = R.seen /\ F.todo = R.todo \ {x}
         /\ F.pc \in {"fetch", "save"}
         /\ how = "indexed" => F.mine = R.mine \cup {x} /\ F.fresh = R.fresh \cup {x}
         /\ how # "indexed" => F.mine = R.mine /\ R.fresh \subseteq F.fresh
<1>1. x \in Papers
  BY DEF Run
<1>2. /\ R.todo \ {x} \in SUBSET Papers
      /\ R.new \cup {x} \in SUBSET Papers
      /\ (IF how # "known" THEN R.fresh \cup {x} ELSE R.fresh) \in SUBSET Papers
      /\ (IF how = "indexed" THEN R.mine \cup {x} ELSE R.mine) \in SUBSET Papers
  BY <1>1 DEF Run
<1> QED
  BY <1>2 DEF Run, Fetched, Listed

LEMMA FetchRun ==
  ASSUME TypeOK, NEW r \in Runners, NEW x \in run[r].todo,
         NEW how \in {"indexed", "known", "abstract"}, run[r].pc = "fetch", FetchOne(r, x, how)
  PROVE  /\ run'[r] = Fetched(run[r], x, how)
         /\ \A q \in Runners \ {r} : run'[q] = run[q]
         /\ \A q \in Runners : (Active(q)' <=> Active(q)) /\ run'[q].watch = run[q].watch
         /\ run' \in [Runners -> Run]
<1>1. run' = [run EXCEPT ![r] = Fetched(run[r], x, how)]
  BY DEF FetchOne
<1>2. /\ Fetched(run[r], x, how) \in Run /\ Fetched(run[r], x, how).watch = run[r].watch
      /\ Fetched(run[r], x, how).pc # "idle"
  BY RunType, FetchedType
<1>3. run'[r] = Fetched(run[r], x, how) /\ \A q \in Runners \ {r} : run'[q] = run[q]
  BY <1>1 DEF TypeOK
<1>4. \A q \in Runners : (Active(q)' <=> Active(q)) /\ run'[q].watch = run[q].watch
  BY <1>2, <1>3 DEF Active
<1>5. run' \in [Runners -> Run]
  BY <1>1, <1>2 DEF TypeOK
<1> QED
  BY <1>3, <1>4, <1>5

LEMMA TypeStep ==
  ASSUME TypeOK, [Next]_vars
  PROVE  TypeOK'
<1>1. ASSUME NEW w \in Watches, Create(w)
      PROVE  TypeOK'
  <2>1. Saved({}) \in Row
    BY WatchAssumption DEF Saved, NextRun, Row, TypeOK
  <2> QED
    BY <1>1, <2>1 DEF Create, TypeOK, Active, budget
<1>2. ASSUME NEW w \in Watches, Remove(w)
      PROVE  TypeOK'
  BY <1>2 DEF Remove, TypeOK, Active, budget, history
<1>3. ASSUME NEW c \in Callers, StartManual(c)
      PROVE  TypeOK'
  <2>1. PICK w \in Watches : Begin(c, w)
    BY <1>3 DEF StartManual
  <2>2. c \in Runners
    BY DEF Runners
  <2> QED
    BY <1>3, <2>1, <2>2, BeginType DEF StartManual, Begin, TypeOK, budget
<1>4. ASSUME NEW l \in Loops, Wake(l)
      PROVE  TypeOK'
  <2>1. DueNow \in SUBSET Due
    BY RowType DEF DueNow, Due
  <2>2. [pc |-> "sweep", due |-> DueNow, at |-> now] \in Loop
    BY <2>1 DEF Loop, TypeOK
  <2> QED
    BY <1>4, <2>2 DEF Wake, TypeOK, Active, budget, history
<1>5. ASSUME NEW l \in Loops, LoopDies(l)
      PROVE  TypeOK'
  BY <1>5 DEF LoopDies, Raise, Asleep, Loop, TypeOK, Active, history
<1>6. ASSUME NEW l \in Loops, Claim(l)
      PROVE  TypeOK'
  <2>1. PICK d \in loop[l].due :
          /\ loop' = [loop EXCEPT ![l].due = @ \ {d}]
          /\ \/ /\ Unclaimed(d)
                /\ rows' = [rows EXCEPT ![d.watch] = Parked(@, loop[l].at + Lease)]
                /\ Begin(l, d.watch)
             \/ UNCHANGED <<rows, run, corpus, history, now>>
    BY <1>6 DEF Claim
  <2>2. d.watch \in Watches /\ l \in Runners
    BY LoopType DEF Due, Runners
  <2>3. loop' \in [Loops -> Loop]
    BY <2>1, LoopType DEF TypeOK, Loop
  <2>4. CASE UNCHANGED <<rows, run, corpus, history, now>>
    BY <1>6, <2>3, <2>4 DEF Claim, TypeOK, Active, history, budget
  <2>5. CASE /\ Unclaimed(d)
             /\ rows' = [rows EXCEPT ![d.watch] = Parked(@, loop[l].at + Lease)]
             /\ Begin(l, d.watch)
    <3>1. Parked(rows[d.watch], loop[l].at + Lease) \in Row
      <4>1. rows[d.watch] \in Row
        BY <2>2, <2>5, RowType DEF Unclaimed
      <4>2. loop[l].at + Lease \in Nat
        BY LoopType, Times
      <4> QED
        BY <4>1, <4>2 DEF Parked, Row
    <3>2. rows' \in [Watches -> Row \cup {NoRow}]
      BY <2>5, <3>1 DEF TypeOK
    <3>3. /\ run' \in [Runners -> Run] /\ overlapped' \in SUBSET Watches
          /\ \A q \in Runners : Active(q)' => run'[q].watch \in Watches
      BY <2>2, <2>5, BeginType
    <3> QED
      BY <1>6, <2>3, <2>5, <3>2, <3>3 DEF Claim, Begin, TypeOK, budget
  <2> QED
    BY <2>1, <2>4, <2>5
<1>7. ASSUME NEW l \in Loops, EndSweep(l)
      PROVE  TypeOK'
  BY <1>7 DEF EndSweep, Asleep, Loop, TypeOK, Active, history, budget
<1>8. ASSUME NEW l \in Loops, Restart(l)
      PROVE  TypeOK'
  <2>1. l \in Runners
    BY DEF Runners
  <2> QED
    BY <1>8, <2>1, Idle, RunType DEF Restart, Asleep, Loop, TypeOK, Active
<1>9. ASSUME NEW r \in Runners, Read(r)
      PROVE  TypeOK'
  BY <1>9, ReadRun, RunType DEF Read, TypeOK, history, budget
<1>10. ASSUME NEW r \in Runners, Fetch(r)
       PROVE  TypeOK'
  <2>1. PICK x \in run[r].todo, how \in {"indexed", "known", "abstract"} : FetchOne(r, x, how)
    BY <1>10 DEF Fetch
  <2>2. run[r].pc = "fetch" /\ run[r].watch \in Watches /\ x \in Papers
    BY <1>10, RunType DEF Fetch, Active
  <2>3. run' \in [Runners -> Run]
    BY <2>1, <2>2, FetchRun
  <2>5. corpus' \in SUBSET Papers /\ added' \in [Watches -> SUBSET Papers]
    BY <2>1, <2>2 DEF TypeOK, FetchOne
  <2>8. \A q \in Runners : Active(q)' => run'[q].watch \in Watches
    BY <2>1, <2>2, FetchRun, RunType
  <2>9. UNCHANGED <<rows, loop, known, seenBy, announced, cut, overlapped, now, budget>>
    BY <1>10 DEF Fetch
  <2> QED
    BY <2>3, <2>5, <2>8, <2>9 DEF TypeOK, budget
<1>11. ASSUME NEW r \in Runners, Fail(r)
       PROVE  TypeOK'
  BY <1>11, Idle, RunType DEF Fail, Raise, TypeOK, Active
<1>12. ASSUME NEW r \in Runners, Save(r)
       PROVE  TypeOK'
  <2>1. run[r].watch \in Watches
    BY <1>12, RunType DEF Save, Active
  <2>2. Saved(SeenAfter(r)) \in Row
    BY WatchAssumption, RunType DEF Saved, SeenAfter, NextRun, Row, TypeOK
  <2>3. rows' \in [Watches -> Row \cup {NoRow}]
    BY <1>12, <2>2 DEF Save, TypeOK
  <2>4. run' \in [Runners -> Run] /\ \A q \in Runners : Active(q)' => run'[q].watch \in Watches
    BY <1>12, Idle, RunType DEF Save, TypeOK, Active
  <2>5. seenBy' \in [Watches -> SUBSET Papers] /\ announced' \in [Watches -> SUBSET Papers]
    BY <1>12, <2>1, RunType DEF Save, TypeOK
  <2> QED
    BY <1>12, <2>3, <2>4, <2>5 DEF Save, TypeOK, budget
<1>13. CASE Tick
  BY <1>13 DEF Tick, TypeOK, Active, history, budget
<1>14. CASE UNCHANGED vars
  BY <1>14 DEF vars, TypeOK, Active, history, budget
<1> QED
  BY <1>1, <1>2, <1>3, <1>4, <1>5, <1>6, <1>7, <1>8, <1>9, <1>10, <1>11, <1>12, <1>13, <1>14
     DEF Next, Schedule, Work

\* The rows of the table, what a sweep found due, and the locals of run_watch keep their types.
THEOREM TypeCorrect == Spec => []TypeOK
<1>1. Init => TypeOK
  BY TypeInit
<1>2. TypeOK /\ [Next]_vars => TypeOK'
  BY TypeStep
<1> QED
  BY <1>1, <1>2, PTL DEF Spec

-----------------------------------------------------------------------------
(***************************************************************************)
(* Exclusion of the loops.                                                 *)
(***************************************************************************)

\* A row written by save_watch is due after every sweep that is under way.
LEMMA SavedLater ==
  ASSUME TypeOK, Sweeps, SweepFits, NEW l \in Loops, loop[l].pc = "sweep", NEW seen
  PROVE  /\ Saved(seen).next = Saved(seen).column
         /\ Saved(seen).column > loop[l].at + SweepTime
<1>1. loop[l].at <= now /\ loop[l].at \in Nat /\ now \in Nat
  BY LoopType DEF Sweeps, TypeOK
<1>2. now + Cadence > loop[l].at + SweepTime
  BY <1>1, Times DEF SweepFits
<1> QED
  BY <1>2 DEF Saved, NextRun

\* A claim is of a row that no other loop runs.
LEMMA ClaimIsFree ==
  ASSUME TypeOK, RowsAgree, Sweeps, Leased, NEW l \in Loops, loop[l].pc = "sweep",
         NEW d \in loop[l].due, Unclaimed(d), NEW k \in Loops, Active(k)
  PROVE  run[k].watch # d.watch
<1>1. SUFFICES ASSUME run[k].watch = d.watch
               PROVE  FALSE
  OBVIOUS
<1>2. d.watch \in Watches /\ d.next \in Nat /\ d.next <= loop[l].at /\ loop[l].at <= now
  BY LoopType DEF Sweeps, Due
<1>3. rows[d.watch].column = d.next
  BY DEF Unclaimed
<1>4. /\ loop[k].pc = "sweep" /\ rows[d.watch].column > loop[k].at + SweepTime
  BY <1>1 DEF Leased, Unclaimed
<1>5. now <= loop[k].at + SweepTime
  BY <1>4 DEF Sweeps
<1>6. now \in Nat /\ loop[l].at \in Nat /\ loop[k].at \in Nat /\ SweepTime \in Nat
  BY LoopType, Times DEF TypeOK
<1> QED
  BY <1>2, <1>3, <1>4, <1>5, <1>6

\* Steps that leave the rows, the loops and the clock alone, and let no run of a loop begin.
LEMMA ClaimedSame ==
  ASSUME TypeOK, Claimed, rows' = rows, loop' = loop, now' = now,
         \A l \in Loops : Active(l)' => Active(l) /\ run'[l].watch = run[l].watch
  PROVE  Claimed'
<1>1. RowsAgree'
  BY DEF Claimed, RowsAgree, Exists
<1>2. Sweeps'
  BY DEF Claimed, Sweeps
<1>3. SweepFits => Leased' /\ Alone'
  BY DEF Claimed, Leased, Alone, Exists
<1> QED
  BY <1>1, <1>2, <1>3 DEF Claimed, SweepFits

LEMMA ClaimedInit == Init => Claimed
BY Idle DEF Init, Claimed, RowsAgree, Sweeps, Leased, Alone, Exists, Active, Asleep, Runners

LEMMA ClaimedStep ==
  ASSUME TypeOK, TypeOK', Claimed, [Next]_vars
  PROVE  Claimed'
<1> USE DEF Claimed
<1>1. ASSUME NEW w \in Watches, Create(w)
      PROVE  Claimed'
  <2>1. rows'[w] = Saved({}) /\ \A v \in Watches \ {w} : rows'[v] = rows[v]
    BY <1>1 DEF Create, TypeOK
  <2>2. RowsAgree' /\ Sweeps'
    BY <1>1, <2>1 DEF Create, RowsAgree, Sweeps, Exists, Saved
  <2>3. ASSUME SweepFits, Leased, Alone
        PROVE  Leased' /\ Alone'
    <3>1. \A l \in Loops : loop[l].pc = "sweep" => Saved({}).column > loop[l].at + SweepTime
      BY <2>3, SavedLater
    <3>2. \A l \in Loops : Active(l) => run[l].watch \in Watches
      BY RunType DEF Runners
    <3> QED
      BY <1>1, <2>1, <2>3, <3>1, <3>2 DEF Create, Leased, Alone, Active, Exists
  <2> QED
    BY <2>2, <2>3 DEF SweepFits
<1>2. ASSUME NEW w \in Watches, Remove(w)
      PROVE  Claimed'
  <2>1. \A v \in Watches : Exists(v)' => Exists(v) /\ rows'[v] = rows[v]
    BY <1>2 DEF Remove, Exists, TypeOK
  <2>2. RowsAgree' /\ Sweeps'
    BY <1>2, <2>1 DEF Remove, RowsAgree, Sweeps
  <2>3. ASSUME Leased, Alone
        PROVE  Leased' /\ Alone'
    BY <1>2, <2>1, <2>3, RunType DEF Remove, Leased, Alone, Active, Runners, history
  <2> QED
    BY <2>2, <2>3 DEF SweepFits
<1>3. ASSUME NEW c \in Callers, StartManual(c)
      PROVE  Claimed'
  <2>1. PICK w \in Watches : Begin(c, w)
    BY <1>3 DEF StartManual
  <2>2. c \in Runners /\ \A l \in Loops : l \in Runners \ {c}
    BY WatchAssumption DEF Runners
  <2> QED
    BY <1>3, <2>1, <2>2, BeginType, ClaimedSame DEF StartManual, Begin
<1>4. ASSUME NEW l \in Loops, Wake(l)
      PROVE  Claimed'
  <2>1. \A d \in DueNow : d.next <= now
    BY RowType DEF DueNow, RowsAgree
  <2>2. ~Active(l) \/ ~SweepFits
    BY <1>4 DEF Wake, Leased
  <2>3. /\ loop'[l].pc = "sweep" /\ loop'[l].at = now /\ loop'[l].due = DueNow
        /\ \A k \in Loops \ {l} : loop'[k] = loop[k]
    BY <1>4 DEF Wake, TypeOK
  <2>4. Sweeps'
    BY <1>4, <2>1, <2>3, Times DEF Wake, Sweeps, TypeOK
  <2> QED
    BY <1>4, <2>2, <2>3, <2>4 DEF Wake, RowsAgree, Leased, Alone, Active, Exists, SweepFits
<1>5. ASSUME NEW l \in Loops, LoopDies(l)
      PROVE  Claimed'
  <2>1. /\ loop'[l].pc = "dead" /\ \A k \in Loops \ {l} : loop'[k] = loop[k]
    BY <1>5 DEF LoopDies, TypeOK, Asleep
  <2> QED
    BY <1>5, <2>1 DEF LoopDies, RowsAgree, Sweeps, Leased, Alone, Active, Exists, SweepFits
<1>6. ASSUME NEW l \in Loops, Claim(l)
      PROVE  Claimed'
  <2>1. PICK d \in loop[l].due :
          /\ loop' = [loop EXCEPT ![l].due = @ \ {d}]
          /\ \/ /\ Unclaimed(d)
                /\ rows' = [rows EXCEPT ![d.watch] = Parked(@, loop[l].at + Lease)]
                /\ Begin(l, d.watch)
             \/ UNCHANGED <<rows, run, corpus, history, now>>
    BY <1>6 DEF Claim
  <2>2. d.watch \in Watches /\ l \in Runners /\ \A k \in Loops : k \in Runners
    BY LoopType DEF Due, Runners
  <2>3. /\ now' = now /\ loop[l].pc = "sweep" /\ ~Active(l)
        /\ \A k \in Loops : loop'[k].pc = loop[k].pc /\ loop'[k].at = loop[k].at
                            /\ loop'[k].due \subseteq loop[k].due
    BY <1>6, <2>1, LoopType DEF Claim, Begin, TypeOK, Loop
  <2>4. Sweeps'
    BY <2>3 DEF Sweeps
  <2>5. CASE UNCHANGED <<rows, run, corpus, history, now>>
    BY <2>3, <2>4, <2>5 DEF RowsAgree, Leased, Alone, Active, Exists, SweepFits
  <2>6. CASE /\ Unclaimed(d)
             /\ rows' = [rows EXCEPT ![d.watch] = Parked(@, loop[l].at + Lease)]
             /\ Begin(l, d.watch)
    <3>1. rows[d.watch] \in Row /\ Exists(d.watch)
      BY <2>2, <2>6, RowType DEF Unclaimed
    <3>2. /\ rows'[d.watch].column = loop[l].at + Lease /\ rows'[d.watch].next = loop[l].at + Lease
          /\ \A w \in Watches \ {d.watch} : rows'[w] = rows[w]
      BY <2>2, <2>6, <3>1 DEF Parked, TypeOK, Row
    <3>3. \A w \in Watches : Exists(w)' => Exists(w)
      BY <3>1, <3>2 DEF Exists
    <3>4. RowsAgree'
      BY <3>2, <3>3 DEF RowsAgree
    <3>5. ASSUME SweepFits, Leased, Alone
          PROVE  Leased' /\ Alone'
      <4>1. \A k \in Loops : Active(k) => run[k].watch # d.watch
        BY <2>3, <2>6, <3>5, ClaimIsFree
      <4>2. /\ run'[l].watch = d.watch
            /\ \A k \in Loops \ {l} : run'[k] = run[k]
            /\ \A k \in Loops : Active(k)' <=> (k = l \/ Active(k))
        BY <2>2, <2>6, BeginType
      <4>3. loop[l].at + Lease > loop[l].at + SweepTime
        BY <3>5, LoopType, Times DEF SweepFits
      <4>4. Alone'
        BY <3>5, <4>1, <4>2 DEF Alone
      <4>5. ASSUME NEW k \in Loops, Active(k)', Exists(run[k].watch)'
            PROVE  rows'[run'[k].watch].column > loop'[k].at + SweepTime
        <5>1. CASE k = l
          BY <2>3, <3>2, <4>2, <4>3, <5>1
        <5>2. CASE k # l
          BY <2>2, <2>3, <3>2, <3>3, <3>5, <4>1, <4>2, <4>5, <5>2, RunType DEF Leased
        <5> QED
          BY <5>1, <5>2
      <4> QED
        BY <2>3, <3>5, <4>2, <4>4, <4>5 DEF Leased
    <3> QED
      BY <2>4, <3>4, <3>5 DEF SweepFits
  <2> QED
    BY <2>1, <2>5, <2>6
<1>7. ASSUME NEW l \in Loops, EndSweep(l)
      PROVE  Claimed'
  <2>1. /\ loop'[l].pc = "asleep" /\ \A k \in Loops \ {l} : loop'[k] = loop[k]
    BY <1>7 DEF EndSweep, TypeOK, Asleep
  <2> QED
    BY <1>7, <2>1 DEF EndSweep, RowsAgree, Sweeps, Leased, Alone, Active, Exists, SweepFits
<1>8. ASSUME NEW l \in Loops, Restart(l)
      PROVE  Claimed'
  <2>1. /\ loop'[l].pc = "asleep" /\ \A k \in Loops \ {l} : loop'[k] = loop[k]
    BY <1>8 DEF Restart, TypeOK, Asleep
  <2>2. /\ ~Active(l)' /\ \A k \in Loops \ {l} : run'[k] = run[k]
    BY <1>8, Idle DEF Restart, TypeOK, Active, Runners
  <2> QED
    BY <1>8, <2>1, <2>2 DEF Restart, RowsAgree, Sweeps, Leased, Alone, Active, Exists, SweepFits
<1>9. ASSUME NEW r \in Runners, Read(r)
      PROVE  Claimed'
  <2>1. \A q \in Runners : Active(q)' => Active(q) /\ run'[q].watch = run[q].watch
    BY <1>9, ReadRun
  <2> QED
    BY <1>9, <2>1, ClaimedSame DEF Read, Runners
<1>10. ASSUME NEW r \in Runners, Fetch(r)
       PROVE  Claimed'
  <2>1. \A q \in Runners : Active(q)' => Active(q) /\ run'[q].watch = run[q].watch
    <3>1. PICK x \in run[r].todo, how \in {"indexed", "known", "abstract"} : FetchOne(r, x, how)
      BY <1>10 DEF Fetch
    <3>2. run[r].pc = "fetch"
      BY <1>10 DEF Fetch
    <3> QED
      BY <3>1, <3>2, FetchRun
  <2>2. UNCHANGED <<rows, loop, now>>
    BY <1>10 DEF Fetch
  <2> QED
    BY <2>1, <2>2, ClaimedSame DEF Runners
<1>11. ASSUME NEW r \in Runners, Fail(r)
       PROVE  Claimed'
  <2>1. \A q \in Runners : Active(q)' => Active(q) /\ run'[q].watch = run[q].watch
    BY <1>11, Idle DEF Fail, Active, TypeOK
  <2> QED
    BY <1>11, <2>1, ClaimedSame DEF Fail, Runners
<1>12. ASSUME NEW r \in Runners, Save(r)
       PROVE  Claimed'
  <2> DEFINE W == run[r].watch
             S == Saved(SeenAfter(r))
  <2>1. W \in Watches /\ loop' = loop /\ now' = now
    BY <1>12, RunType DEF Save, Active
  <2>2. rows'[W] = S /\ \A w \in Watches \ {W} : rows'[w] = rows[w]
    BY <1>12, <2>1 DEF Save, TypeOK
  <2>3. \A q \in Runners : Active(q)' => Active(q) /\ run'[q].watch = run[q].watch
    BY <1>12, Idle DEF Save, Active, TypeOK
  <2>4. RowsAgree'
    BY <2>1, <2>2 DEF RowsAgree, Exists, Saved
  <2>5. Sweeps'
    BY <2>1 DEF Sweeps
  <2>6. ASSUME SweepFits, Leased, Alone
        PROVE  Leased' /\ Alone'
    <3>1. \A l \in Loops : loop[l].pc = "sweep" => S.column > loop[l].at + SweepTime
      BY <2>6, SavedLater
    <3>2. \A l \in Loops : l \in Runners
      BY DEF Runners
    <3>3. Alone'
      BY <2>3, <2>6, <3>2 DEF Alone
    <3>4. ASSUME NEW l \in Loops, Active(l)'
          PROVE  /\ loop'[l].pc = "sweep"
                 /\ Exists(run[l].watch)' => rows'[run'[l].watch].column > loop'[l].at + SweepTime
      <4>1. /\ Active(l) /\ run'[l].watch = run[l].watch /\ loop[l].pc = "sweep"
            /\ run[l].watch \in Watches
        BY <2>3, <2>6, <3>2, <3>4, RunType DEF Leased
      <4> QED
        BY <2>1, <2>2, <2>6, <3>1, <3>4, <4>1 DEF Leased, Exists
    <3> QED
      BY <3>3, <3>4 DEF Leased
  <2> QED
    BY <2>4, <2>5, <2>6 DEF SweepFits
<1>13. CASE Tick
  <2>1. Sweeps'
    <3>1. ASSUME NEW l \in Loops, loop[l].pc = "sweep"
          PROVE  loop[l].at <= now' /\ now' <= loop[l].at + SweepTime
      BY <1>13, <3>1, LoopType, Times DEF Tick, Sweeps, TypeOK
    <3> QED
      BY <1>13, <3>1 DEF Tick, Sweeps
  <2> QED
    BY <1>13, <2>1 DEF Tick, RowsAgree, Leased, Alone, Active, Exists, SweepFits
<1>14. CASE UNCHANGED vars
  BY <1>14 DEF vars, RowsAgree, Sweeps, Leased, Alone, Active, Exists, SweepFits
<1> QED
  BY <1>1, <1>2, <1>3, <1>4, <1>5, <1>6, <1>7, <1>8, <1>9, <1>10, <1>11, <1>12, <1>13, <1>14
     DEF Next, Schedule, Work

\* Whatever is created, deleted, claimed, saved or restarted, and whatever fails: two schedule
\* loops never run one watch at a time, if sweeps end before their leases.
THEOREM ScheduledRunsExclude == Spec => []OneScheduledRun
<1>1. Init => TypeOK /\ Claimed
  BY TypeInit, ClaimedInit
<1>2. TypeOK /\ Claimed /\ [Next]_vars => (TypeOK /\ Claimed)'
  BY TypeStep, ClaimedStep
<1>3. Claimed => OneScheduledRun
  BY DEF Claimed, Alone, OneScheduledRun
<1> QED
  BY <1>1, <1>2, <1>3, PTL DEF Spec

-----------------------------------------------------------------------------
(***************************************************************************)
(* Seen papers.                                                            *)
(***************************************************************************)
Seen == Created /\ SeenKept

\* The part of SeenKept about a run: it has what was seen once it has read the row, and
\* takes up none of it.
Knows(r, w) ==
  /\ run[r].pc = "read" => run[r].todo = {}
  /\ run[r].pc \in {"fetch", "save"} => seenBy[w] \subseteq run[r].seen
  /\ run[r].todo \cap run[r].seen = {}

\* Steps that write no row and let no run begin, and leave what a run knows in order.
LEMMA SeenSame ==
  ASSUME TypeOK, Seen, UNCHANGED <<known, seenBy, overlapped>>,
         \A w \in Watches : Exists(w)' => Exists(w) /\ rows'[w].seen = rows[w].seen,
         \A r \in Runners : Active(r)' => Active(r) /\ run'[r].watch = run[r].watch,
         \A r \in Runners : Active(r)' /\ run[r].watch \notin overlapped => Knows(r, run[r].watch)'
  PROVE  Seen'
<1>1. Created'
  BY DEF Seen, Created
<1>2. ASSUME NEW w \in Watches \ overlapped
      PROVE  /\ \A r, q \in Runners : Active(r)' /\ Active(q)' /\ run'[r].watch = w /\ run'[q].watch = w => r = q
             /\ Exists(w)' => seenBy'[w] \subseteq rows'[w].seen
             /\ \A r \in Runners : Active(r)' /\ run'[r].watch = w => Knows(r, w)'
  BY <1>2 DEF Seen, SeenKept
<1> QED
  BY <1>1, <1>2 DEF Seen, SeenKept, Knows

\* A run begins: of a watch that exists, and beside no other unless the watch is marked.
LEMMA SeenBegin ==
  ASSUME TypeOK, Seen, NEW r \in Runners, ~Active(r), NEW w \in Watches, Exists(w), Begin(r, w),
         \A v \in Watches : Exists(v)' => Exists(v) /\ rows'[v].seen = rows[v].seen
  PROVE  Seen'
<1>1. /\ run'[r].pc = "read" /\ run'[r].watch = w /\ run'[r].todo = {}
      /\ \A q \in Runners \ {r} : run'[q] = run[q]
      /\ \A q \in Runners : Active(q)' <=> (q = r \/ Active(q))
  BY BeginType
<1>2. /\ UNCHANGED <<known, seenBy>> /\ overlapped \subseteq overlapped'
      /\ w \in overlapped' \/ \A q \in Runners \ {r} : ~(Active(q) /\ run[q].watch = w)
  BY DEF Begin
<1>3. Created'
  BY <1>1, <1>2 DEF Seen, Created
<1>4. ASSUME NEW v \in Watches \ overlapped'
      PROVE  /\ \A p, q \in Runners : Active(p)' /\ Active(q)' /\ run'[p].watch = v /\ run'[q].watch = v => p = q
             /\ Exists(v)' => seenBy'[v] \subseteq rows'[v].seen
             /\ \A q \in Runners : Active(q)' /\ run'[q].watch = v => Knows(q, v)'
  <2>1. v \notin overlapped
    BY <1>2
  <2>2. \A p, q \in Runners : Active(p)' /\ Active(q)' /\ run'[p].watch = v /\ run'[q].watch = v => p = q
    BY <1>1, <1>2, <2>1 DEF Seen, SeenKept
  <2>3. Exists(v)' => seenBy'[v] \subseteq rows'[v].seen
    BY <1>2, <2>1 DEF Seen, SeenKept
  <2>4. Knows(r, v)'
    BY <1>1 DEF Knows
  <2>5. ASSUME NEW q \in Runners \ {r}, Active(q)', run'[q].watch = v
        PROVE  Knows(q, v)'
    BY <1>1, <1>2, <2>1, <2>5 DEF Seen, SeenKept, Knows
  <2> QED
    BY <2>2, <2>3, <2>4, <2>5
<1> QED
  BY <1>3, <1>4 DEF Seen, SeenKept, Knows

LEMMA SeenStep ==
  ASSUME TypeOK, TypeOK', Seen, [Next]_vars
  PROVE  Seen'
<1> DEFINE Calm == /\ UNCHANGED <<known, seenBy, overlapped>>
                   /\ \A w \in Watches : Exists(w)' => Exists(w) /\ rows'[w].seen = rows[w].seen
                   /\ \A r \in Runners : Active(r)' => Active(r) /\ run'[r] = run[r]
<1>0. ASSUME Calm
      PROVE  Seen'
  BY <1>0, SeenSame, RunType DEF Seen, SeenKept, Knows
<1> HIDE DEF Calm
<1>1. ASSUME NEW w \in Watches, Create(w)
      PROVE  Seen'
  <2>1. /\ rows'[w] = Saved({}) /\ \A v \in Watches \ {w} : rows'[v] = rows[v]
        /\ w \notin known /\ known' = known \cup {w}
        /\ UNCHANGED <<run, seenBy, overlapped>>
    BY <1>1 DEF Create, TypeOK
  <2>2. seenBy[w] = {}
    BY <2>1 DEF Seen, Created
  <2> QED
    BY <2>1, <2>2 DEF Seen, Created, SeenKept, Exists, Active
<1>2. ASSUME NEW w \in Watches, Remove(w)
      PROVE  Seen'
  BY <1>0, <1>2 DEF Calm, Remove, Exists, TypeOK, history, Active
<1>3. ASSUME NEW c \in Callers, StartManual(c)
      PROVE  Seen'
  BY <1>3, SeenBegin DEF StartManual, Runners, Exists
<1>4. ASSUME NEW l \in Loops, Wake(l) \/ LoopDies(l) \/ EndSweep(l)
      PROVE  Seen'
  BY <1>0, <1>4 DEF Calm, Wake, LoopDies, EndSweep, Exists, Active, history
<1>5. ASSUME NEW l \in Loops, Claim(l)
      PROVE  Seen'
  <2>1. PICK d \in loop[l].due :
          \/ /\ Unclaimed(d)
             /\ rows' = [rows EXCEPT ![d.watch] = Parked(@, loop[l].at + Lease)]
             /\ Begin(l, d.watch)
          \/ UNCHANGED <<rows, run, corpus, history, now>>
    BY <1>5 DEF Claim
  <2>2. d.watch \in Watches /\ l \in Runners /\ ~Active(l)
    BY <1>5, LoopType DEF Due, Runners, Claim
  <2>3. CASE UNCHANGED <<rows, run, corpus, history, now>>
    BY <1>0, <2>3 DEF Calm, Exists, Active, history
  <2>4. CASE /\ Unclaimed(d)
             /\ rows' = [rows EXCEPT ![d.watch] = Parked(@, loop[l].at + Lease)]
             /\ Begin(l, d.watch)
    <3>1. rows[d.watch] \in Row /\ Exists(d.watch)
      BY <2>2, <2>4, RowType DEF Unclaimed
    <3>2. /\ rows'[d.watch].seen = rows[d.watch].seen
          /\ \A w \in Watches \ {d.watch} : rows'[w] = rows[w]
      BY <2>2, <2>4, <3>1 DEF Parked, TypeOK, Row
    <3>3. \A v \in Watches : Exists(v)' => Exists(v) /\ rows'[v].seen = rows[v].seen
      BY <3>1, <3>2 DEF Exists
    <3> QED
      BY <2>2, <2>4, <3>1, <3>3, SeenBegin
  <2> QED
    BY <2>1, <2>3, <2>4
<1>6. ASSUME NEW l \in Loops, Restart(l)
      PROVE  Seen'
  BY <1>0, <1>6, Idle DEF Calm, Restart, Exists, Active, TypeOK, Runners
<1>7. ASSUME NEW r \in Runners, Fail(r)
      PROVE  Seen'
  BY <1>0, <1>7, Idle DEF Calm, Fail, Exists, Active, TypeOK
<1>8. ASSUME NEW r \in Runners, Read(r)
      PROVE  Seen'
  <2>1. UNCHANGED <<rows, known, seenBy, overlapped>>
    BY <1>8 DEF Read, history
  <2>2. /\ \A q \in Runners \ {r} : run'[q] = run[q]
        /\ \A q \in Runners : Active(q)' => Active(q) /\ run'[q].watch = run[q].watch
    BY <1>8, ReadRun
  <2>3. ASSUME Active(r)', run[r].watch \notin overlapped
        PROVE  Knows(r, run[r].watch)'
    <3>1. PICK S \in SUBSET (Papers \ rows[run[r].watch].seen) :
            /\ Exists(run[r].watch)
            /\ run'[r] = [run[r] EXCEPT !.pc = IF S = {} THEN "save" ELSE "fetch",
                                        !.seen = rows[run[r].watch].seen, !.todo = S]
      BY <1>8, <2>3, Idle, ReadRun DEF Active
    <3>2. run[r] \in Run /\ run[r].watch \in Watches
      BY <1>8, RunType DEF Read, Active
    <3>3. /\ run'[r].pc # "read" /\ run'[r].seen = rows[run[r].watch].seen /\ run'[r].todo = S
          /\ run'[r].watch = run[r].watch
      BY <3>1, <3>2 DEF Run
    <3>4. seenBy[run[r].watch] \subseteq rows[run[r].watch].seen
      BY <2>3, <3>1, <3>2 DEF Seen, SeenKept
    <3> QED
      BY <2>1, <3>3, <3>4 DEF Knows
  <2>4. \A q \in Runners : Active(q)' /\ run[q].watch \notin overlapped => Knows(q, run[q].watch)'
    BY <2>1, <2>2, <2>3, RunType DEF Seen, SeenKept, Knows
  <2> QED
    BY <2>1, <2>2, <2>4, SeenSame DEF Exists
<1>9. ASSUME NEW r \in Runners, Fetch(r)
      PROVE  Seen'
  <2>1. UNCHANGED <<rows, known, seenBy, overlapped>>
    BY <1>9 DEF Fetch
  <2>2. PICK x \in run[r].todo, how \in {"indexed", "known", "abstract"} : FetchOne(r, x, how)
    BY <1>9 DEF Fetch
  <2>3. run[r].pc = "fetch" /\ run[r] \in Run
    BY <1>9, RunType DEF Fetch
  <2>4. /\ run'[r].todo = run[r].todo \ {x} /\ run'[r].seen = run[r].seen
        /\ run'[r].pc \in {"fetch", "save"}
        /\ \A q \in Runners \ {r} : run'[q] = run[q]
        /\ \A q \in Runners : Active(q)' => Active(q) /\ run'[q].watch = run[q].watch
    <3>1. /\ run'[r] = Fetched(run[r], x, how)
          /\ \A q \in Runners \ {r} : run'[q] = run[q]
          /\ \A q \in Runners : Active(q)' => Active(q) /\ run'[q].watch = run[q].watch
      BY <2>2, <2>3, FetchRun
    <3>2. /\ run'[r].todo = run[r].todo \ {x} /\ run'[r].seen = run[r].seen
          /\ run'[r].pc \in {"fetch", "save"}
      BY <2>3, <3>1, FetchedType
    <3> QED
      BY <3>1, <3>2
  <2>5. ASSUME NEW q \in Runners, Active(q)', run[q].watch \notin overlapped
        PROVE  Knows(q, run[q].watch)'
    <3>1. Knows(q, run[q].watch)
      BY <2>4, <2>5, RunType DEF Seen, SeenKept, Knows
    <3> QED
      BY <2>1, <2>3, <2>4, <2>5, <3>1 DEF Knows
  <2> QED
    BY <2>1, <2>4, <2>5, SeenSame DEF Exists
<1>10. ASSUME NEW r \in Runners, Save(r)
       PROVE  Seen'
  <2> DEFINE W == run[r].watch
  <2>1. /\ W \in Watches /\ Active(r) /\ run[r].pc = "save" /\ UNCHANGED <<known, overlapped>>
    BY <1>10, RunType DEF Save, Active
  <2>2. /\ rows'[W].seen = run[r].seen \cup run[r].new
        /\ \A w \in Watches \ {W} : rows'[w] = rows[w]
    BY <1>10, <2>1 DEF Save, Saved, SeenAfter, TypeOK
  <2>3. /\ seenBy'[W] = seenBy[W] \cup run[r].seen \cup run[r].new
        /\ \A w \in Watches \ {W} : seenBy'[w] = seenBy[w]
    BY <1>10, <2>1 DEF Save, TypeOK
  <2>4. ~Active(r)' /\ \A q \in Runners \ {r} : run'[q] = run[q] /\ (Active(q)' <=> Active(q))
    BY <1>10, Idle DEF Save, Active, TypeOK
  <2>5. Created'
    BY <2>1, <2>2, <2>3, <2>4 DEF Seen, Created, Exists
  <2>6. ASSUME NEW w \in Watches \ overlapped
        PROVE  /\ \A p, q \in Runners : Active(p)' /\ Active(q)' /\ run'[p].watch = w /\ run'[q].watch = w => p = q
               /\ Exists(w)' => seenBy'[w] \subseteq rows'[w].seen
               /\ \A q \in Runners : Active(q)' /\ run'[q].watch = w => Knows(q, w)'
    <3>1. CASE w = W
      <4>1. seenBy[W] \subseteq run[r].seen
        BY <2>1, <2>6, <3>1 DEF Seen, SeenKept
      <4>2. \A q \in Runners : ~(Active(q)' /\ run'[q].watch = W)
        BY <2>1, <2>4, <2>6, <3>1 DEF Seen, SeenKept
      <4> QED
        BY <2>2, <2>3, <3>1, <4>1, <4>2
    <3>2. CASE w # W
      <4>1. rows'[w] = rows[w] /\ seenBy'[w] = seenBy[w] /\ (Exists(w)' <=> Exists(w))
        BY <2>2, <2>3, <2>6, <3>2 DEF Exists
      <4> QED
        BY <2>4, <2>6, <4>1 DEF Seen, SeenKept, Knows
    <3> QED
      BY <3>1, <3>2
  <2> QED
    BY <2>1, <2>5, <2>6 DEF Seen, SeenKept, Knows
<1>11. CASE Tick \/ UNCHANGED vars
  BY <1>0, <1>11 DEF Calm, Tick, vars, history, Exists, Active
<1> QED
  BY <1>1, <1>2, <1>3, <1>4, <1>5, <1>6, <1>7, <1>8, <1>9, <1>10, <1>11 DEF Next, Schedule, Work

\* run_watch skips what is in seen_ids: nothing a completed run has seen is taken up again by
\* a later run of the watch, if no two of its runs overlapped.
THEOREM SeenNotFetched == Spec => []NotFetchedAgain
<1>1. Init => TypeOK /\ Seen
  <2>1. Init => Seen
    BY Idle DEF Init, Seen, Created, SeenKept, Exists, Active
  <2> QED
    BY <2>1, TypeInit
<1>2. TypeOK /\ Seen /\ [Next]_vars => (TypeOK /\ Seen)'
  BY TypeStep, SeenStep
<1>3. TypeOK /\ Seen => NotFetchedAgain
  BY RunType DEF Seen, SeenKept, NotFetchedAgain, Active
<1> QED
  BY <1>1, <1>2, <1>3, PTL DEF Spec

-----------------------------------------------------------------------------
(***************************************************************************)
(* Announcements.                                                          *)
(***************************************************************************)

\* Steps that put nothing into the index and end no run but by cutting it off.
LEMMA AnnounceSame ==
  ASSUME TypeOK, ToAnnounce, UNCHANGED <<added, announced>>, cut \subseteq cut',
         \A r \in Runners : /\ run'[r].mine \subseteq run'[r].fresh
                            /\ run'[r].pc = "read" => run'[r].mine = {},
         \A r \in Runners : Active(r) =>
           \/ Active(r)' /\ run'[r].watch = run[r].watch /\ run'[r].mine = run[r].mine
           \/ run[r].mine \subseteq cut'
  PROVE  ToAnnounce'
<1>1. ASSUME NEW w \in Watches, NEW x \in Papers, x \in added[w]
      PROVE  \/ x \in announced'[w] \cup cut'
             \/ \E r \in Runners : Active(r)' /\ run'[r].watch = w /\ x \in run'[r].mine
  <2>1. CASE x \in announced[w] \cup cut
    BY <2>1
  <2>2. CASE \E r \in Runners : Active(r) /\ run[r].watch = w /\ x \in run[r].mine
    BY <2>2
  <2> QED
    BY <1>1, <2>1, <2>2 DEF ToAnnounce
<1> QED
  BY <1>1 DEF ToAnnounce

LEMMA AnnounceBegin ==
  ASSUME TypeOK, ToAnnounce, NEW r \in Runners, ~Active(r), NEW w \in Watches, Begin(r, w),
         UNCHANGED <<added, announced, cut>>
  PROVE  ToAnnounce'
<1>1. /\ run'[r].mine = {} /\ \A q \in Runners \ {r} : run'[q] = run[q]
      /\ \A q \in Runners : Active(q)' <=> (q = r \/ Active(q))
  BY BeginType
<1>2. \A q \in Runners : run'[q].mine \subseteq run'[q].fresh /\ (run'[q].pc = "read" => run'[q].mine = {})
  BY <1>1 DEF ToAnnounce
<1> QED
  BY <1>1, <1>2, AnnounceSame

LEMMA AnnounceStep ==
  ASSUME TypeOK, ToAnnounce, [Next]_vars
  PROVE  ToAnnounce'
<1> DEFINE Calm == /\ UNCHANGED <<added, announced>> /\ cut \subseteq cut'
                   /\ \A r \in Runners : run'[r] = run[r] \/ (run'[r] = IdleRun /\ run[r].mine \subseteq cut')
<1>0. ASSUME Calm
      PROVE  ToAnnounce'
  <2>1. \A r \in Runners : run'[r].mine \subseteq run'[r].fresh /\ (run'[r].pc = "read" => run'[r].mine = {})
    BY <1>0, Idle DEF ToAnnounce
  <2> QED
    BY <1>0, <2>1, AnnounceSame DEF Active
<1> HIDE DEF Calm
<1>1. ASSUME NEW w \in Watches, Create(w) \/ Remove(w)
      PROVE  ToAnnounce'
  BY <1>0, <1>1 DEF Calm, Create, Remove, history
<1>2. ASSUME NEW c \in Callers, StartManual(c)
      PROVE  ToAnnounce'
  BY <1>2, AnnounceBegin DEF StartManual, Runners, Begin
<1>3. ASSUME NEW l \in Loops, Wake(l) \/ LoopDies(l) \/ EndSweep(l)
      PROVE  ToAnnounce'
  BY <1>0, <1>3 DEF Calm, Wake, LoopDies, EndSweep, history
<1>4. ASSUME NEW l \in Loops, Claim(l)
      PROVE  ToAnnounce'
  <2>1. PICK d \in loop[l].due : Begin(l, d.watch) \/ UNCHANGED <<rows, run, corpus, history, now>>
    BY <1>4 DEF Claim
  <2>2. d.watch \in Watches /\ l \in Runners /\ ~Active(l)
    BY <1>4, LoopType DEF Due, Runners, Claim
  <2>3. CASE Begin(l, d.watch)
    BY <2>2, <2>3, AnnounceBegin DEF Begin
  <2>4. CASE UNCHANGED <<rows, run, corpus, history, now>>
    BY <1>0, <2>4 DEF Calm, history
  <2> QED
    BY <2>1, <2>3, <2>4
<1>5. ASSUME NEW l \in Loops, Restart(l)
      PROVE  ToAnnounce'
  BY <1>0, <1>5 DEF Calm, Restart, TypeOK, Runners
<1>6. ASSUME NEW r \in Runners, Fail(r)
      PROVE  ToAnnounce'
  BY <1>0, <1>6 DEF Calm, Fail, TypeOK
<1>7. ASSUME NEW r \in Runners, Read(r)
      PROVE  ToAnnounce'
  <2>1. /\ UNCHANGED <<added, announced, cut>> /\ run[r] \in Run /\ run[r].mine = {}
    BY <1>7, RunType DEF Read, history, ToAnnounce
  <2>2. /\ \A q \in Runners \ {r} : run'[q] = run[q]
        /\ \A q \in Runners : run'[q].mine \subseteq run[q].mine
    BY <1>7, ReadRun
  <2>3. \A q \in Runners : run'[q].mine \subseteq run'[q].fresh /\ (run'[q].pc = "read" => run'[q].mine = {})
    BY <2>1, <2>2 DEF ToAnnounce
  <2>4. \A q \in Runners : \/ Active(q)' /\ run'[q].watch = run[q].watch /\ run'[q].mine = run[q].mine
                           \/ ~Active(q)
                           \/ run[q].mine \subseteq cut'
    BY <2>1, <2>2 DEF Active
  <2> QED
    BY <2>1, <2>3, <2>4, AnnounceSame
<1>8. ASSUME NEW r \in Runners, Fetch(r)
      PROVE  ToAnnounce'
  <2> DEFINE W == run[r].watch
  <2>1. PICK y \in run[r].todo, how \in {"indexed", "known", "abstract"} : FetchOne(r, y, how)
    BY <1>8 DEF Fetch
  <2>2. run[r].pc = "fetch" /\ run[r] \in Run /\ W \in Watches /\ UNCHANGED <<announced, cut>>
    BY <1>8, RunType DEF Fetch, Active
  <2>3. /\ run'[r] = Fetched(run[r], y, how)
        /\ \A q \in Runners \ {r} : run'[q] = run[q]
        /\ \A q \in Runners : (Active(q)' <=> Active(q)) /\ run'[q].watch = run[q].watch
    BY <2>1, <2>2, FetchRun
  <2>4. /\ how = "indexed" => run'[r].mine = run[r].mine \cup {y} /\ run'[r].fresh = run[r].fresh \cup {y}
        /\ how # "indexed" => run'[r].mine = run[r].mine /\ run[r].fresh \subseteq run'[r].fresh
        /\ run'[r].pc # "read"
    BY <2>2, <2>3, FetchedType
  <2>5. \A q \in Runners : run'[q].mine \subseteq run'[q].fresh /\ (run'[q].pc = "read" => run'[q].mine = {})
    BY <2>3, <2>4 DEF ToAnnounce
  <2>6. \A w \in Watches : added'[w] = IF how = "indexed" /\ w = W THEN added[w] \cup {y} ELSE added[w]
    BY <2>1, <2>2 DEF FetchOne, TypeOK
  <2>7. ASSUME NEW w \in Watches, NEW x \in Papers, x \in added'[w]
        PROVE  \/ x \in announced'[w] \cup cut'
               \/ \E q \in Runners : Active(q)' /\ run'[q].watch = w /\ x \in run'[q].mine
    <3>1. CASE x \in added[w]
      <4>1. CASE x \in announced[w] \cup cut
        BY <2>2, <4>1
      <4>2. CASE \E q \in Runners : Active(q) /\ run[q].watch = w /\ x \in run[q].mine
        BY <2>3, <2>4, <4>2
      <4> QED
        BY <3>1, <4>1, <4>2 DEF ToAnnounce
    <3>2. CASE x \notin added[w]
      <4>1. how = "indexed" /\ w = W /\ x = y
        BY <2>6, <2>7, <3>2
      <4>2. Active(r)
        BY <2>2 DEF Active
      <4> QED
        BY <2>3, <2>4, <4>1, <4>2
    <3> QED
      BY <3>1, <3>2
  <2> QED
    BY <2>5, <2>7 DEF ToAnnounce
<1>9. ASSUME NEW r \in Runners, Save(r)
      PROVE  ToAnnounce'
  <2> DEFINE W == run[r].watch
  <2>1. W \in Watches /\ UNCHANGED <<added, cut>>
    BY <1>9, RunType DEF Save, Active
  <2>2. /\ announced'[W] = announced[W] \cup run[r].fresh
        /\ \A w \in Watches \ {W} : announced'[w] = announced[w]
    BY <1>9, <2>1 DEF Save, TypeOK
  <2>3. run'[r] = IdleRun /\ \A q \in Runners \ {r} : run'[q] = run[q]
    BY <1>9 DEF Save, TypeOK
  <2>4. \A q \in Runners : run'[q].mine \subseteq run'[q].fresh /\ (run'[q].pc = "read" => run'[q].mine = {})
    BY <2>3, Idle DEF ToAnnounce
  <2>5. ASSUME NEW w \in Watches, NEW x \in Papers, x \in added[w]
        PROVE  \/ x \in announced'[w] \cup cut
               \/ \E q \in Runners : Active(q)' /\ run'[q].watch = w /\ x \in run'[q].mine
    <3>1. CASE x \in announced[w] \cup cut
      BY <2>2, <3>1
    <3>2. CASE \E q \in Runners : Active(q) /\ run[q].watch = w /\ x \in run[q].mine
      <4>1. PICK q \in Runners : Active(q) /\ run[q].watch = w /\ x \in run[q].mine
        BY <3>2
      <4>2. CASE q = r
        BY <2>2, <4>1, <4>2 DEF ToAnnounce
      <4>3. CASE q # r
        BY <2>3, <4>1, <4>3 DEF Active
      <4> QED
        BY <4>2, <4>3
    <3> QED
      BY <2>5, <3>1, <3>2 DEF ToAnnounce
  <2> QED
    BY <2>1, <2>4, <2>5 DEF ToAnnounce
<1>10. CASE Tick \/ UNCHANGED vars
  BY <1>0, <1>10 DEF Calm, Tick, vars, history
<1> QED
  BY <1>1, <1>2, <1>3, <1>4, <1>5, <1>6, <1>7, <1>8, <1>9, <1>10 DEF Next, Schedule, Work

\* run_watch lists in its digest what it indexed: when no run of a watch is under way, each
\* paper the watch put into the index has been announced, or its run was cut off.
THEOREM IndexedAnnounced == Spec => []NewPapersAnnounced
<1>1. Init => TypeOK /\ ToAnnounce
  <2>1. Init => ToAnnounce
    BY Idle DEF Init, ToAnnounce
  <2> QED
    BY <2>1, TypeInit
<1>2. TypeOK /\ ToAnnounce /\ [Next]_vars => (TypeOK /\ ToAnnounce)'
  BY TypeStep, AnnounceStep
<1>3. TypeOK /\ ToAnnounce => NewPapersAnnounced
  BY DEF ToAnnounce, NewPapersAnnounced, TypeOK
<1> QED
  BY <1>1, <1>2, <1>3, PTL DEF Spec
-----------------------------------------------------------------------------
\* The threads, _db_lock and the transaction of persistence.py.

\* Rows that hold both of a paper's two or neither.
Whole(U) == \A e \in Events : <<"log", e>> \in U <=> <<"mirror", e>> \in U

\* paper_index as ingest_log has it.
Agree(s) == \A e \in Events : s[<<"log", e>>] = s[<<"mirror", e>>]

\* A thread past the lock.
Holds(t) == pc[t] \in {"batch", "unit"}

\* _db_lock and the batch depth are what the place of each thread says, and one thread at
\* most is past the lock.
Locked ==
  /\ \A t \in Writers :
       /\ pc[t] = "idle" <=> req[t] = NoRequest
       /\ pc[t] = "batch" => req[t].kind \in BatchKinds
       /\ Holds(t) => depth = IF req[t].kind \in BatchKinds THEN 1 ELSE 0
       /\ held[t] = IF ~Holds(t) THEN 0
                    ELSE IF pc[t] = "unit" /\ req[t].kind \in BatchKinds THEN 2 ELSE 1
  /\ \A t, u \in Writers : Holds(t) /\ Holds(u) => t = u
  /\ (\A t \in Writers : ~Holds(t)) => depth = 0 /\ unlogged = {}

\* What the thread past the lock has not begun, has failed to record and is at, are
\* different units of its request.
Doing ==
  \A t \in Writers : Holds(t) =>
    /\ left \subseteq req[t].units
    /\ unlogged \subseteq req[t].units \ left
    /\ req[t].kind # "ingest" => unlogged = {}
    /\ pc[t] = "unit" =>
         /\ unit \in req[t].units \ (left \cup unlogged)
         /\ rest \subseteq unit
         /\ rest # unit => wlock
         /\ req[t].kind \notin BatchKinds => left = {}

\* The mirror agrees with the log wherever a COMMIT or a savepoint may find it.
Agreeing ==
  /\ Agree(file)
  /\ (\A t \in Writers : pc[t] # "unit") => Agree(conn)
  /\ \A t \in Writers : pc[t] = "unit" =>
       /\ Whole(unit)
       /\ rest = unit => Agree(conn)
       /\ rest # unit => Agree(mark) /\ Agree(Put(req[t].value, rest, conn))

\* The units of its request that the thread past the lock has written.
Finished(t) == req[t].units \ (left \cup unlogged \cup IF pc[t] = "unit" THEN {unit} ELSE {})

\* The connection is what the last holder of the lock left and what the present one has
\* written since.
Published ==
  /\ ~wlock => conn = file /\ settled = file
  /\ (\A t \in Writers : ~Holds(t)) => conn = settled
  /\ \A t \in Writers : Holds(t) =>
       /\ ~wlock => UNION Finished(t) = {}
       /\ pc[t] = "batch" => conn = Put(req[t].value, UNION Finished(t), settled)
       /\ pc[t] = "unit" =>
            /\ conn = Put(req[t].value, (UNION Finished(t)) \cup (unit \ rest), settled)
            /\ rest # unit => mark = Put(req[t].value, UNION Finished(t), settled)

\* Writing keeps the type of a store.
LEMMA PutType ==
  ASSUME NEW v \in Versions \cup {NoValue}, NEW U, NEW s \in Store
  PROVE  Put(v, U, s) \in Store
BY DEF Put, Store

\* The tables are apart.
LEMMA RowShape ==
  /\ \A e \in Events : <<"log", e>> \in LogRows /\ <<"mirror", e>> \in MirrorRows
  /\ LogRows \cap MirrorRows = {} /\ LogRows \cap OtherRows = {} /\ MirrorRows \cap OtherRows = {}
  /\ Rows = LogRows \cup MirrorRows \cup OtherRows
BY DEF LogRows, MirrorRows, OtherRows, Rows

\* The two rows of some papers are whole.
LEMMA BothWhole ==
  ASSUME NEW e \in Events
  PROVE  Both(e) \subseteq Rows /\ Whole(Both(e))
<1>1. Both(e) \subseteq Rows
  BY RowShape DEF Both
<1>2. ASSUME NEW f \in Events
      PROVE  <<"log", f>> \in Both(e) <=> <<"mirror", f>> \in Both(e)
  <2>1. <<"log", f>> \in Both(e) <=> f = e
    BY DEF Both
  <2>2. <<"mirror", f>> \in Both(e) <=> f = e
    BY DEF Both
  <2>. QED
    BY <2>1, <2>2
<1>. QED
  BY <1>1, <1>2 DEF Whole

\* The units of a request: whole rows, and one unit unless it is a batch.
LEMMA RequestType ==
  ASSUME NEW r \in Requests
  PROVE  /\ r.kind \in {"plain", "record", "ingest", "backfill"}
         /\ r.value \in Versions \cup {NoValue}
         /\ r.units \subseteq SUBSET Rows
         /\ \A U \in r.units : Whole(U)
         /\ r.kind \notin BatchKinds => \E X : r.units = {X}
         /\ r # NoRequest
<1>0. r # NoRequest
  BY NoRequestAssumption
<1>1. CASE r \in PlainWrites
  <2>1. PICK v \in Versions \cup {NoValue}, X \in SUBSET OtherRows \ {{}} : r = Request("plain", v, {X})
    BY <1>1 DEF PlainWrites, Request
  <2>2. X \subseteq Rows /\ Whole(X)
    <3>1. ASSUME NEW e \in Events
          PROVE  <<"log", e>> \notin X /\ <<"mirror", e>> \notin X
      BY RowShape
    <3>. QED
      BY <3>1, RowShape DEF Whole
  <2>. QED
    BY <1>0, <2>1, <2>2 DEF Request, BatchKinds
<1>2. CASE r \in Drops
  <2>1. PICK X \in {Both(e) : e \in Events} \cup {LogRows \cup MirrorRows} : r = Request("plain", NoValue, {X})
    BY <1>2 DEF Drops
  <2>2. X \subseteq Rows /\ Whole(X)
    <3>1. CASE X = LogRows \cup MirrorRows
      BY <3>1, RowShape DEF Whole
    <3>2. CASE X \in {Both(e) : e \in Events}
      BY <3>2, BothWhole
    <3>. QED
      BY <3>1, <3>2
  <2>. QED
    BY <1>0, <2>1, <2>2 DEF Request, BatchKinds
<1>3. ASSUME NEW S \in SUBSET Events
      PROVE  Units(S) \subseteq SUBSET Rows /\ \A U \in Units(S) : Whole(U)
  BY BothWhole DEF Units
<1>4. CASE r \in Records
  <2>1. PICK v \in Versions, e \in Events : r = Request("record", v, Units({e}))
    BY <1>4 DEF Records, Request, Units
  <2>2. Units({e}) = {Both(e)}
    BY DEF Units
  <2>. QED
    BY <1>0, <1>3, <2>1, <2>2 DEF Request, BatchKinds
<1>5. CASE r \in Batches
  <2>1. PICK k \in BatchKinds, v \in Versions, S \in SUBSET Events : r = Request(k, v, Units(S))
    BY <1>5 DEF Batches
  <2>. QED
    BY <1>0, <1>3, <2>1 DEF Request, BatchKinds
<1>. QED
  BY <1>1, <1>2, <1>4, <1>5 DEF Requests

\* A statement writes some of the rows asked for.
LEMMA StatementRows ==
  ASSUME NEW R \in SUBSET Rows, NEW P \in Statements(R)
  PROVE  P # {} /\ P \subseteq R
BY DEF Statements

\* The type invariant with the discipline of the lock.
DbLock == DbTypeOK /\ Locked

\* The types and the lock at first.
LEMMA LockInit == DbInit => DbLock
<1>. SUFFICES ASSUME DbInit PROVE DbLock
  OBVIOUS
<1>1. Blank \in Store
  BY DEF Blank, Store
<1>2. NoAnswer \in [said : {"nothing", "error", "done"}, missing : SUBSET SUBSET Rows]
  BY DEF NoAnswer
<1>3. wlock \in BOOLEAN
  BY Zenon DEF DbInit
<1>4. Locked
  BY DEF DbInit, Locked, Holds
<1>5. DbTypeOK
  BY <1>1, <1>2, <1>3 DEF DbInit, DbTypeOK
<1>. QED
  BY <1>4, <1>5 DEF DbLock

\* Only the thread past the lock takes a step behind it.
LEMMA TakenAlone ==
  ASSUME DbLock, NEW t \in Writers, Takes(t)
  PROVE  \A u \in Writers : Holds(u) => u = t
BY DEF DbLock, Locked, Takes

\* Giving the lock back keeps the discipline.
LEMMA ReturnLocks ==
  ASSUME DbLock, NEW t \in Writers, Holds(t), conn' \in Store, depth' = 0,
         NEW a \in [said : {"nothing", "error", "done"}, missing : SUBSET SUBSET Rows],
         Return(t, a)
  PROVE  /\ {mark, settled}' \subseteq Store
         /\ (held \in [Writers -> {0, 1, 2}])'
         /\ (req \in [Writers -> Requests \cup {NoRequest}])'
         /\ (pc \in [Writers -> {"idle", "called", "batch", "unit"}])'
         /\ ({left, unlogged} \subseteq SUBSET SUBSET Rows)'
         /\ ({unit, rest} \subseteq SUBSET Rows)'
         /\ (answer \in [Writers -> [said : {"nothing", "error", "done"}, missing : SUBSET SUBSET Rows]])'
         /\ Locked'
<1>1. Blank \in Store
  BY DEF Blank, Store
<1>2. \A u \in Writers : Holds(u) => u = t
  BY DEF DbLock, Locked
<1>3. \A u \in Writers : ~Holds(u)'
  BY <1>2 DEF Return, Holds, DbLock, DbTypeOK
<1>4. ASSUME NEW u \in Writers
      PROVE  (pc[u] = "idle" <=> req[u] = NoRequest)' /\ held'[u] = 0
  BY <1>2, <1>3 DEF Return, Holds, DbLock, DbTypeOK, Locked
<1>5. Locked'
  BY <1>3, <1>4 DEF Locked, Return, Holds
<1>. QED
  BY <1>1, <1>5 DEF Return, DbLock, DbTypeOK

\* So does going on to the next paper.
LEMMA EndUnitLocks ==
  ASSUME DbLock, NEW t \in Writers, pc[t] = "unit", req[t].kind \in BatchKinds,
         EndUnit(t)
  PROVE  /\ (mark \in Store)'
         /\ (held \in [Writers -> {0, 1, 2}])'
         /\ (pc \in [Writers -> {"idle", "called", "batch", "unit"}])'
         /\ ({unit, rest} \subseteq SUBSET Rows)'
         /\ Locked'
<1>1. Blank \in Store
  BY DEF Blank, Store
<1>2. \A u \in Writers : Holds(u) => u = t
  BY DEF DbLock, Locked, Holds
<1>3. held[t] = 2 /\ depth = 1 /\ req[t] # NoRequest
  BY DEF DbLock, Locked, Holds
<1>4. held' = [held EXCEPT ![t] = 1] /\ pc' = [pc EXCEPT ![t] = "batch"]
  BY <1>3 DEF EndUnit
<1>5. Holds(t)' /\ \A u \in Writers : Holds(u)' => u = t
  BY <1>2, <1>4 DEF Holds, DbLock, DbTypeOK
<1>6. ASSUME NEW u \in Writers
      PROVE  (/\ pc[u] = "idle" <=> req[u] = NoRequest
              /\ pc[u] = "batch" => req[u].kind \in BatchKinds
              /\ Holds(u) => depth = IF req[u].kind \in BatchKinds THEN 1 ELSE 0
              /\ held[u] = IF ~Holds(u) THEN 0
                           ELSE IF pc[u] = "unit" /\ req[u].kind \in BatchKinds THEN 2 ELSE 1)'
  BY <1>2, <1>3, <1>4, <1>5 DEF Holds, DbLock, DbTypeOK, Locked, EndUnit
<1>7. Locked'
  BY <1>5, <1>6 DEF Locked
<1>. QED
  BY <1>1, <1>4, <1>7 DEF EndUnit, DbLock, DbTypeOK

\* Every step keeps the types and the discipline of the lock.
LEMMA LockStep == DbLock /\ [DbNext]_dbVars => DbLock'
<1>. SUFFICES ASSUME DbLock, [DbNext]_dbVars PROVE DbLock'
  OBVIOUS
<1>. USE DEF bounds, local, threads
<1>0. Blank \in Store /\ {NoAnswer, Failure} \subseteq [said : {"nothing", "error", "done"}, missing : SUBSET SUBSET Rows]
  BY DEF Blank, Store, NoAnswer, Failure
<1>1. CASE UNCHANGED dbVars
  BY <1>1 DEF dbVars, DbLock, DbTypeOK, Locked, Holds
<1>2. ASSUME NEW t \in Writers, Call(t) PROVE DbLock'
  <2>1. PICK r \in Requests : req' = [req EXCEPT ![t] = r]
    BY <1>2 DEF Call
  <2>2. r # NoRequest
    BY NoRequestAssumption
  <2>3. \A u \in Writers : Holds(u)' <=> Holds(u)
    BY <1>2 DEF Call, Holds, DbLock, DbTypeOK
  <2>4. DbTypeOK'
    BY <1>0, <1>2, <2>1 DEF Call, DbLock, DbTypeOK
  <2>5. \A u \in Writers : (pc[u] = "idle" <=> req[u] = NoRequest)'
    BY <1>2, <2>1, <2>2 DEF Call, DbLock, DbTypeOK, Locked
  <2>6. \A u \in Writers : Holds(u) => pc'[u] = pc[u] /\ req'[u] = req[u]
    BY <1>2, <2>1 DEF Call, DbLock, DbTypeOK, Holds
  <2>7. UNCHANGED <<depth, held, unlogged>>
    BY <1>2 DEF Call
  <2>8. \A u \in Writers : pc'[u] \in {"batch", "unit"} => Holds(u)
    BY <2>3 DEF Holds
  <2>. QED
    BY <2>3, <2>4, <2>5, <2>6, <2>7, <2>8 DEF Locked, DbLock, Holds
<1>3. ASSUME NEW t \in Writers, EnterBatch(t) PROVE DbLock'
  <2>1. \A u \in Writers : ~Holds(u)
    BY <1>3, TakenAlone DEF EnterBatch, Holds
  <2>2. held[t] = 0 /\ depth = 0 /\ req[t] # NoRequest /\ unlogged = {}
    BY <1>3, <2>1 DEF EnterBatch, DbLock, Locked
  <2>3. req[t] \in Requests /\ req[t].units \subseteq SUBSET Rows
    BY <2>2, RequestType DEF DbLock, DbTypeOK
  <2>4. depth' = 1 /\ held' = [held EXCEPT ![t] = 1] /\ pc' = [pc EXCEPT ![t] = "batch"] /\ left' = req[t].units
    BY <1>3, <2>2 DEF EnterBatch, Takes
  <2>5. UNCHANGED <<file, conn, wlock, req, unit, rest, mark, unlogged, answer, settled, calls, mishaps>>
    BY <1>3 DEF EnterBatch
  <2>6. DbTypeOK'
    BY <2>3, <2>4, <2>5 DEF DbLock, DbTypeOK
  <2>7. Holds(t)' /\ \A u \in Writers : Holds(u)' => u = t
    BY <2>1, <2>4 DEF Holds, DbLock, DbTypeOK
  <2>8. ASSUME NEW u \in Writers
        PROVE  (/\ pc[u] = "idle" <=> req[u] = NoRequest
                /\ pc[u] = "batch" => req[u].kind \in BatchKinds
                /\ Holds(u) => depth = IF req[u].kind \in BatchKinds THEN 1 ELSE 0
                /\ held[u] = IF ~Holds(u) THEN 0
                             ELSE IF pc[u] = "unit" /\ req[u].kind \in BatchKinds THEN 2 ELSE 1)'
    BY <1>3, <2>1, <2>2, <2>4, <2>5, <2>7 DEF EnterBatch, Holds, DbLock, DbTypeOK, Locked
  <2>. QED
    BY <2>6, <2>7, <2>8 DEF Locked, DbLock
<1>4. ASSUME NEW t \in Writers, BeginUnit(t) PROVE DbLock'
  <2>1. \A u \in Writers : Holds(u) => u = t
    BY <1>4, TakenAlone DEF BeginUnit
  <2>2. req[t] # NoRequest /\ req[t] \in Requests
    BY <1>4 DEF BeginUnit, DbLock, DbTypeOK, Locked
  <2>3. req[t].units \subseteq SUBSET Rows
    BY <2>2, RequestType
  <2>4. held[t] = (IF pc[t] = "batch" THEN 1 ELSE 0) /\ depth = IF req[t].kind \in BatchKinds THEN 1 ELSE 0
    <3>1. CASE pc[t] = "batch"
      BY <3>1 DEF DbLock, Locked, Holds
    <3>2. CASE pc[t] = "called" /\ req[t].kind \notin BatchKinds
      <4>1. \A u \in Writers : ~Holds(u)
        BY <2>1, <3>2 DEF Holds
      <4>. QED
        BY <3>2, <4>1 DEF DbLock, Locked
    <3>. QED
      BY <1>4, <3>1, <3>2 DEF BeginUnit
  <2>5. held' = [held EXCEPT ![t] = IF pc[t] = "batch" THEN 2 ELSE 1] /\ pc' = [pc EXCEPT ![t] = "unit"]
    BY <1>4, <2>4 DEF BeginUnit, Takes
  <2>6. UNCHANGED <<file, conn, wlock, depth, req, mark, unlogged, answer, settled, calls, mishaps>>
    BY <1>4 DEF BeginUnit
  <2>7. {unit', rest'} \subseteq SUBSET Rows /\ left' \subseteq SUBSET Rows
    BY <1>4, <2>3 DEF BeginUnit, DbLock, DbTypeOK
  <2>8. DbTypeOK'
    BY <2>5, <2>6, <2>7 DEF DbLock, DbTypeOK
  <2>9. Holds(t)' /\ \A u \in Writers : Holds(u)' => u = t
    BY <2>1, <2>5 DEF Holds, DbLock, DbTypeOK
  <2>10. pc[t] = "batch" <=> req[t].kind \in BatchKinds
    BY <1>4 DEF BeginUnit, DbLock, Locked
  <2>11. ASSUME NEW u \in Writers
        PROVE  (/\ pc[u] = "idle" <=> req[u] = NoRequest
                /\ pc[u] = "batch" => req[u].kind \in BatchKinds
                /\ Holds(u) => depth = IF req[u].kind \in BatchKinds THEN 1 ELSE 0
                /\ held[u] = IF ~Holds(u) THEN 0
                             ELSE IF pc[u] = "unit" /\ req[u].kind \in BatchKinds THEN 2 ELSE 1)'
    <3>1. CASE u = t
      BY <2>2, <2>4, <2>5, <2>6, <2>9, <2>10, <3>1 DEF Holds, DbLock, DbTypeOK
    <3>2. CASE u # t
      <4>1. pc'[u] = pc[u] /\ held'[u] = held[u] /\ req'[u] = req[u] /\ ~Holds(u) /\ ~Holds(u)'
        BY <2>1, <2>5, <2>6, <2>9, <3>2 DEF Holds, DbLock, DbTypeOK
      <4>. QED
        BY <4>1 DEF DbLock, Locked, Holds
    <3>. QED
      BY <3>1, <3>2
  <2>. QED
    BY <2>8, <2>9, <2>11 DEF Locked, DbLock
<1>5. ASSUME NEW t \in Writers, Statement(t) PROVE DbLock'
  <2>1. req[t] \in Requests
    BY <1>5 DEF Statement, DbLock, DbTypeOK, Locked
  <2>2. PICK P \in Statements(rest) : conn' = Put(req[t].value, P, conn) /\ rest' = rest \ P
    BY <1>5 DEF Statement
  <2>3. conn' \in Store /\ mark' \in Store /\ rest' \subseteq Rows
    BY <1>5, <2>1, <2>2, PutType, RequestType DEF Statement, DbLock, DbTypeOK
  <2>4. DbTypeOK'
    BY <1>5, <2>3 DEF Statement, DbLock, DbTypeOK
  <2>5. Locked'
    BY <1>5 DEF Statement, DbLock, Locked, Holds
  <2>. QED
    BY <2>4, <2>5 DEF DbLock
<1>6. ASSUME NEW t \in Writers, Raises(t)
      PROVE  conn' \in Store /\ wlock' \in BOOLEAN /\ mishaps' \in Nat /\ UNCHANGED <<file, calls>> /\ pc[t] = "unit"
  <2>1. wlock' \in BOOLEAN
    BY <1>6, Zenon DEF Raises, Undone, Rollback, DbLock, DbTypeOK
  <2>2. mishaps' \in Nat
    BY <1>6 DEF Raises, Undone, DbLock, DbTypeOK
  <2>3. conn' \in Store
    BY <1>6 DEF Raises, Undone, Rollback, DbLock, DbTypeOK
  <2>. QED
    BY <1>6, <2>1, <2>2, <2>3 DEF Raises, Undone
<1>7. ASSUME NEW t \in Writers, WriteFails(t) PROVE DbLock'
  <2>1. Holds(t) /\ depth = 0 /\ depth' = 0
    BY <1>6, <1>7 DEF WriteFails, Holds, DbLock, Locked, BatchKinds
  <2>. QED
    BY <1>0, <1>6, <1>7, <2>1, ReturnLocks DEF WriteFails, DbLock, DbTypeOK
<1>8. ASSUME NEW t \in Writers, PaperFails(t) PROVE DbLock'
  <2>1. EndUnit(t) /\ pc[t] = "unit" /\ req[t].kind \in BatchKinds
    BY <1>6, <1>8 DEF PaperFails, BatchKinds
  <2>2. conn' \in Store /\ wlock' \in BOOLEAN /\ mishaps' \in Nat /\ UNCHANGED <<file, calls>>
    BY <1>6, <1>8 DEF PaperFails
  <2>3. unlogged' \subseteq SUBSET Rows
    BY <1>8 DEF PaperFails, DbLock, DbTypeOK
  <2>4. UNCHANGED <<depth, req, left, answer, settled>>
    BY <2>1 DEF EndUnit
  <2>. QED
    BY <2>1, <2>2, <2>3, <2>4, EndUnitLocks DEF DbLock, DbTypeOK
<1>9. ASSUME NEW t \in Writers, BatchFails(t) PROVE DbLock'
  <2>1. Holds(t) /\ depth' = 0 /\ conn' \in Store /\ mishaps' \in Nat
    BY <1>9 DEF BatchFails, Rollback, Holds, DbLock, DbTypeOK
  <2>2. wlock' \in BOOLEAN
    BY <1>9, Zenon DEF BatchFails, Rollback
  <2>3. Return(t, Failure) /\ UNCHANGED <<file, calls>>
    BY <1>9 DEF BatchFails
  <2>. QED
    BY <1>0, <2>1, <2>2, <2>3, ReturnLocks DEF DbLock, DbTypeOK
<1>10. ASSUME NEW t \in Writers, Holds(t), depth' = 0, NEW m \in SUBSET SUBSET Rows, Commit(t, Done(m))
       PROVE  DbLock'
  <2>1. Done(m) \in [said : {"nothing", "error", "done"}, missing : SUBSET SUBSET Rows]
    BY DEF Done
  <2>2. PICK a \in {Done(m), Failure} : Return(t, a)
    BY <1>10 DEF Commit
  <2>3. {file', conn'} \subseteq Store /\ {calls', mishaps'} \subseteq Nat
    BY <1>10 DEF Commit, Rollback, DbLock, DbTypeOK
  <2>4. wlock' \in BOOLEAN
    BY <1>10, Zenon DEF Commit, Rollback, DbLock, DbTypeOK
  <2>. QED
    BY <1>0, <1>10, <2>1, <2>2, <2>3, <2>4, ReturnLocks DEF DbLock, DbTypeOK
<1>11. ASSUME NEW t \in Writers, EndWrite(t) PROVE DbLock'
  <2>1. CASE depth = 0
    BY <1>10, <1>11, <2>1 DEF EndWrite, PutOff, Holds
  <2>2. CASE depth > 0
    <3>1. EndUnit(t) /\ req[t].kind \in BatchKinds /\ pc[t] = "unit"
      BY <1>11, <2>2 DEF EndWrite, PutOff, DbLock, DbTypeOK, Locked, Holds
    <3>2. UNCHANGED <<depth, req, left, answer, settled, file, conn, wlock, unlogged, calls, mishaps>>
      BY <1>11, <2>2 DEF EndWrite, PutOff, EndUnit
    <3>. QED
      BY <3>1, <3>2, EndUnitLocks DEF DbLock, DbTypeOK
  <2>. QED
    BY <1>11, <2>1, <2>2 DEF EndWrite, PutOff
<1>12. ASSUME NEW t \in Writers, EndBatch(t) PROVE DbLock'
  BY <1>10, <1>12 DEF EndBatch, Holds, DbLock, DbTypeOK
<1>13. CASE Crash
  <2>1. \A t \in Writers : ~Holds(t)'
    BY <1>13 DEF Crash, Holds
  <2>3. wlock' \in BOOLEAN
    BY <1>13, Zenon DEF Crash, Rollback
  <2>2. DbTypeOK'
    BY <1>0, <1>13, <2>3 DEF Crash, Rollback, DbLock, DbTypeOK
  <2>. QED
    BY <1>13, <2>1, <2>2 DEF Crash, DbLock, Locked
<1>14. CASE Foreign
  <2>0. PICK r \in Requests : \E S \in SUBSET r.units : file' = Put(r.value, UNION S, file)
    BY <1>14 DEF Foreign
  <2>1. PICK S \in SUBSET r.units : file' = Put(r.value, UNION S, file)
    BY <2>0
  <2>2. file' \in Store
    BY <2>1, RequestType, PutType DEF DbLock, DbTypeOK
  <2>3. DbTypeOK'
    BY <1>14, <2>2 DEF Foreign, DbLock, DbTypeOK
  <2>. QED
    BY <1>14, <2>3 DEF Foreign, DbLock, Locked, Holds
<1>. QED
  BY <1>1, <1>2, <1>3, <1>4, <1>5, <1>7, <1>8, <1>9, <1>11, <1>12, <1>13, <1>14
  DEF DbNext, WriterStep

-----------------------------------------------------------------------------
\* Nobody is past the lock at first.
LEMMA DoingInit == DbInit => Doing
BY DEF DbInit, Doing, Holds

\* With the lock given back nobody is past it.
LEMMA Freed ==
  ASSUME DbLock, NEW t \in Writers, Holds(t), NEW a, Return(t, a)
  PROVE  \A u \in Writers : ~Holds(u)'
<1>1. \A u \in Writers : Holds(u) => u = t
  BY DEF DbLock, Locked
<1>. QED
  BY <1>1 DEF Return, Holds, DbLock, DbTypeOK

\* The batch stays past the lock between two papers.
LEMMA StillHeld ==
  ASSUME DbLock, NEW t \in Writers, pc[t] = "unit", EndUnit(t)
  PROVE  pc'[t] = "batch" /\ \A u \in Writers : Holds(u)' => u = t
<1>1. \A u \in Writers : Holds(u) => u = t
  BY DEF DbLock, Locked, Holds
<1>. QED
  BY <1>1 DEF EndUnit, Holds, DbLock, DbTypeOK

\* Whoever answers was past the lock, and leaves it free.
LEMMA Answering ==
  ASSUME DbLock, NEW t \in Writers,
         WriteFails(t) \/ BatchFails(t) \/ EndBatch(t) \/ (EndWrite(t) /\ depth = 0)
  PROVE  Holds(t) /\ \A u \in Writers : ~Holds(u)'
<1>1. Holds(t)
  BY DEF WriteFails, Raises, Undone, BatchFails, EndBatch, EndWrite, PutOff, Holds
<1>2. CASE WriteFails(t) \/ BatchFails(t)
  <2>1. Return(t, Failure)
    BY <1>2 DEF WriteFails, BatchFails
  <2>. QED
    BY <1>1, <2>1, Freed
<1>3. ASSUME NEW a, Commit(t, a) PROVE \A u \in Writers : ~Holds(u)'
  <2>1. Return(t, a) \/ Return(t, Failure)
    BY <1>3 DEF Commit
  <2>. QED
    BY <1>1, <2>1, Freed
<1>4. CASE EndBatch(t) \/ (EndWrite(t) /\ depth = 0)
  <2>1. Commit(t, Done(unlogged)) \/ Commit(t, Done({}))
    BY <1>4 DEF EndBatch, EndWrite, PutOff
  <2>. QED
    BY <1>1, <1>3, <2>1
<1>. QED
  BY <1>1, <1>2, <1>4

\* Every step keeps the units of the request apart.
LEMMA DoingStep == DbLock /\ Doing /\ [DbNext]_dbVars => Doing'
<1>. SUFFICES ASSUME DbLock, Doing, [DbNext]_dbVars PROVE Doing'
  OBVIOUS
<1>. USE DEF bounds, local, threads
<1>1. CASE UNCHANGED dbVars
  BY <1>1 DEF dbVars, Doing, Holds
<1>2. ASSUME NEW t \in Writers, Call(t) PROVE Doing'
  <2>1. \A u \in Writers : Holds(u)' => Holds(u) /\ u # t
    BY <1>2 DEF Call, Holds, DbLock, DbTypeOK
  <2>2. \A u \in Writers : u # t => req'[u] = req[u] /\ pc'[u] = pc[u]
    BY <1>2 DEF Call, DbLock, DbTypeOK
  <2>. QED
    BY <1>2, <2>1, <2>2 DEF Call, Doing
<1>3. ASSUME NEW t \in Writers, EnterBatch(t) PROVE Doing'
  <2>1. \A u \in Writers : ~Holds(u)
    BY <1>3, TakenAlone DEF EnterBatch, Holds
  <2>2. unlogged' = {} /\ left' = req'[t].units /\ pc'[t] = "batch"
    BY <1>3, <2>1 DEF EnterBatch, DbLock, DbTypeOK, Locked
  <2>3. \A u \in Writers : Holds(u)' => u = t
    BY <1>3, <2>1 DEF EnterBatch, Holds, DbLock, DbTypeOK
  <2>. QED
    BY <2>2, <2>3 DEF Doing
<1>4. ASSUME NEW t \in Writers, BeginUnit(t) PROVE Doing'
  <2>1. \A u \in Writers : Holds(u) => u = t
    BY <1>4, TakenAlone DEF BeginUnit
  <2>2. pc'[t] = "unit" /\ \A u \in Writers : Holds(u)' => u = t
    BY <1>4, <2>1 DEF BeginUnit, Holds, DbLock, DbTypeOK
  <2>3. UNCHANGED <<req, unlogged, wlock>>
    BY <1>4 DEF BeginUnit
  <2>4. CASE pc[t] = "batch"
    <3>1. unit' \in left /\ rest' = unit' /\ left' = left \ {unit'} /\ req[t].kind \in BatchKinds
      BY <1>4, <2>4 DEF BeginUnit, DbLock, Locked
    <3>2. left \subseteq req[t].units /\ unlogged \subseteq req[t].units \ left
          /\ (req[t].kind # "ingest" => unlogged = {})
      BY <2>4 DEF Doing, Holds
    <3>. QED
      BY <2>2, <2>3, <3>1, <3>2 DEF Doing
  <2>5. CASE pc[t] = "called" /\ req[t].kind \notin BatchKinds
    <3>1. unlogged = {}
      BY <2>1, <2>5 DEF DbLock, Locked, Holds
    <3>2. unit' \in req[t].units /\ rest' = unit' /\ left' = {}
      BY <1>4, <2>5 DEF BeginUnit
    <3>. QED
      BY <2>2, <2>3, <3>1, <3>2 DEF Doing
  <2>. QED
    BY <1>4, <2>4, <2>5 DEF BeginUnit
<1>5. ASSUME NEW t \in Writers, Statement(t) PROVE Doing'
  <2>1. rest' \subseteq rest /\ wlock' = TRUE
    BY <1>5 DEF Statement
  <2>. QED
    BY <1>5, <2>1 DEF Statement, Doing, Holds
<1>6. ASSUME NEW t \in Writers, WriteFails(t) \/ BatchFails(t) \/ EndBatch(t) \/ (EndWrite(t) /\ depth = 0)
      PROVE  Doing'
  BY <1>6, Answering DEF Doing
<1>7. ASSUME NEW t \in Writers, PaperFails(t) PROVE Doing'
  <2>1. EndUnit(t) /\ pc[t] = "unit" /\ req[t].kind = "ingest" /\ unlogged' = unlogged \cup {unit}
    BY <1>7 DEF PaperFails, Raises, Undone
  <2>2. pc'[t] = "batch" /\ \A u \in Writers : Holds(u)' => u = t
    BY <2>1, StillHeld
  <2>. QED
    BY <2>1, <2>2 DEF Doing, Holds, EndUnit
<1>8. ASSUME NEW t \in Writers, EndWrite(t), depth # 0 PROVE Doing'
  <2>1. EndUnit(t) /\ pc[t] = "unit" /\ unlogged' = unlogged
    BY <1>8 DEF EndWrite, PutOff
  <2>2. pc'[t] = "batch" /\ \A u \in Writers : Holds(u)' => u = t
    BY <2>1, StillHeld
  <2>. QED
    BY <2>1, <2>2 DEF Doing, Holds, EndUnit
<1>9. CASE Crash
  BY <1>9 DEF Crash, Doing, Holds
<1>10. CASE Foreign
  BY <1>10 DEF Foreign, Doing, Holds
<1>. QED
  BY <1>1, <1>2, <1>3, <1>4, <1>5, <1>6, <1>7, <1>8, <1>9, <1>10 DEF DbNext, WriterStep

-----------------------------------------------------------------------------
\* Writing whole rows keeps the mirror.
LEMMA AgreePut ==
  ASSUME NEW v, NEW U, Whole(U), NEW s, Agree(s)
  PROVE  Agree(Put(v, U, s))
BY RowShape DEF Agree, Put, Whole

\* Writing no row changes none.
LEMMA PutNone ==
  ASSUME NEW v, NEW s \in Store
  PROVE  Put(v, {}, s) = s
BY DEF Put, Store

\* What is still to be written turns what is written into the same.
LEMMA PutRest ==
  ASSUME NEW v, NEW s, NEW R, NEW P \in SUBSET R
  PROVE  Put(v, R \ P, Put(v, P, s)) = Put(v, R, s)
BY DEF Put

\* The empty mirror agrees with the empty log.
LEMMA AgreeingInit == DbInit => Agreeing
BY RowShape DEF DbInit, Agreeing, Agree, Blank

\* Every step keeps the mirror, unless a plain write tears.
LEMMA AgreeingStep ==
  ASSUME ~MayTear, DbLock, Doing, Agreeing, [DbNext]_dbVars
  PROVE  Agreeing'
<1>. USE DEF bounds, local, threads
<1>1. CASE UNCHANGED dbVars
  BY <1>1 DEF dbVars, Agreeing, Agree, Whole
<1>2. ASSUME NEW t \in Writers, Call(t) PROVE Agreeing'
  <2>1. \A u \in Writers : pc'[u] = "unit" <=> pc[u] = "unit"
    BY <1>2 DEF Call, DbLock, DbTypeOK
  <2>2. \A u \in Writers : u # t => req'[u] = req[u]
    BY <1>2 DEF Call, DbLock, DbTypeOK
  <2>. QED
    BY <1>2, <2>1, <2>2 DEF Call, Agreeing, Agree, Whole
<1>3. ASSUME NEW t \in Writers, EnterBatch(t) PROVE Agreeing'
  <2>1. \A u \in Writers : pc[u] # "unit" /\ pc'[u] # "unit"
    BY <1>3, TakenAlone DEF EnterBatch, Holds, DbLock, DbTypeOK
  <2>. QED
    BY <1>3, <2>1 DEF EnterBatch, Agreeing, Agree
<1>4. ASSUME NEW t \in Writers, BeginUnit(t) PROVE Agreeing'
  <2>1. \A u \in Writers : pc[u] # "unit"
    BY <1>4, TakenAlone DEF BeginUnit, Holds
  <2>2. req[t] \in Requests
    BY <1>4 DEF BeginUnit, DbLock, DbTypeOK, Locked
  <2>3. pc[t] = "batch" => left \subseteq req[t].units
    BY DEF Doing, Holds
  <2>4. Whole(unit') /\ rest' = unit' /\ pc'[t] = "unit"
    BY <1>4, <2>2, <2>3, RequestType DEF BeginUnit, DbLock, DbTypeOK, Whole
  <2>5. \A u \in Writers : pc'[u] = "unit" => u = t
    BY <1>4, <2>1 DEF BeginUnit, DbLock, DbTypeOK
  <2>6. Agree(conn) /\ Agree(file) /\ UNCHANGED <<conn, file>>
    BY <1>4, <2>1 DEF BeginUnit, Agreeing
  <2>7. Agree(conn') /\ Agree(file')
    BY <2>6
  <2>. QED
    BY <2>4, <2>5, <2>7 DEF Agreeing, Whole, Agree
<1>5. ASSUME NEW t \in Writers, Statement(t) PROVE Agreeing'
  <2>1. req[t] \in Requests /\ pc[t] = "unit"
    BY <1>5 DEF Statement, DbLock, DbTypeOK, Locked
  <2>2. PICK P \in Statements(rest) : conn' = Put(req[t].value, P, conn) /\ rest' = rest \ P
    BY <1>5 DEF Statement
  <2>3. P # {} /\ P \subseteq rest /\ rest \subseteq unit
    BY <2>1, <2>2, StatementRows DEF Doing, Holds, DbLock, DbTypeOK
  <2>4. Whole(unit) /\ Agree(Put(req[t].value, rest, conn))
    BY <2>1, AgreePut DEF Agreeing
  <2>5. rest' # unit
    BY <2>2, <2>3
  <2>6. Put(req[t].value, rest', conn') = Put(req[t].value, rest, conn)
    BY <2>2, <2>3, PutRest
  <2>7. Agree(mark')
    BY <1>5, <2>1 DEF Statement, Agreeing
  <2>8. \A u \in Writers : pc[u] = "unit" => u = t
    BY <2>1 DEF DbLock, Locked, Holds
  <2>9. Agree(Put(req[t].value, rest', conn'))
    BY <2>4, <2>6
  <2>10. UNCHANGED <<file, req, pc, unit>> /\ Agree(file)
    BY <1>5 DEF Statement, Agreeing
  <2>. QED
    BY <2>1, <2>4, <2>5, <2>7, <2>8, <2>9, <2>10 DEF Agreeing, Whole, Agree, Put
<1>6. ASSUME NEW t \in Writers, Raises(t) PROVE Agree(conn') /\ Agree(file')
  <2>1. pc[t] = "unit"
    BY <1>6 DEF Raises, Undone
  <2>4. conn' = file \/ (rest # unit /\ conn' = mark) \/ (rest = unit /\ conn' = conn)
    BY <1>6 DEF Raises, Undone, Rollback
  <2>5. UNCHANGED file
    BY <1>6 DEF Raises, Undone
  <2>. QED
    BY <2>1, <2>4, <2>5 DEF Agreeing, Agree
<1>7. ASSUME NEW t \in Writers, pc[t] = "unit", rest = {} PROVE Agree(conn)
  <2>1. req[t] \in Requests /\ conn \in Store
    BY <1>7 DEF DbLock, DbTypeOK, Locked
  <2>2. CASE rest = unit
    BY <1>7, <2>2 DEF Agreeing
  <2>3. CASE rest # unit
    <3>1. Agree(Put(req[t].value, {}, conn))
      BY <1>7, <2>3 DEF Agreeing
    <3>. QED
      BY <2>1, <3>1, PutNone
  <2>. QED
    BY <2>2, <2>3
<1>8. ASSUME NEW t \in Writers, WriteFails(t) \/ BatchFails(t) \/ EndBatch(t) \/ (EndWrite(t) /\ depth = 0)
      PROVE  Agreeing'
  <2>1. \A u \in Writers : pc'[u] # "unit"
    BY <1>8, Answering DEF Holds
  <2>2. Agree(file)
    BY DEF Agreeing
  <2>3. Agree(conn') /\ Agree(file')
    <3>1. CASE WriteFails(t)
      BY <1>6, <3>1 DEF WriteFails
    <3>2. CASE BatchFails(t)
      BY <2>2, <3>2 DEF BatchFails, Rollback, Agree
    <3>3. ASSUME Agree(conn), NEW a, Commit(t, a) PROVE Agree(conn') /\ Agree(file')
      BY <2>2, <3>3 DEF Commit, Rollback, Agree
    <3>4. CASE EndWrite(t) /\ depth = 0
      BY <1>7, <3>3, <3>4 DEF EndWrite, PutOff
    <3>5. CASE EndBatch(t)
      <4>1. \A u \in Writers : pc[u] # "unit"
        BY <3>5 DEF EndBatch, DbLock, Locked, Holds
      <4>. QED
        BY <3>3, <3>5, <4>1 DEF EndBatch, Agreeing
    <3>. QED
      BY <1>8, <3>1, <3>2, <3>4, <3>5
  <2>. QED
    BY <2>1, <2>3 DEF Agreeing, Agree
<1>9. ASSUME NEW t \in Writers, PaperFails(t) \/ (EndWrite(t) /\ depth # 0) PROVE Agreeing'
  <2>1. pc[t] = "unit" /\ EndUnit(t)
    BY <1>9 DEF PaperFails, Raises, Undone, EndWrite, PutOff
  <2>2. \A u \in Writers : pc'[u] # "unit"
    BY <2>1, StillHeld DEF Holds
  <2>3. Agree(conn') /\ Agree(file')
    <3>1. CASE PaperFails(t)
      BY <1>6, <3>1 DEF PaperFails
    <3>2. CASE EndWrite(t) /\ depth # 0
      BY <1>7, <3>2 DEF EndWrite, PutOff, Agreeing, Agree
    <3>. QED
      BY <1>9, <3>1, <3>2
  <2>. QED
    BY <2>2, <2>3 DEF Agreeing, Agree
<1>10. CASE Crash
  BY <1>10 DEF Crash, Rollback, Agreeing, Agree
<1>11. CASE Foreign
  <2>1. PICK r \in Requests : \E S \in SUBSET r.units : file' = Put(r.value, UNION S, file)
    BY <1>11 DEF Foreign
  <2>2. PICK S \in SUBSET r.units : file' = Put(r.value, UNION S, file)
    BY <2>1
  <2>3. Whole(UNION S)
    BY <2>2, RequestType DEF Whole
  <2>4. Agree(file')
    BY <2>2, <2>3, AgreePut DEF Agreeing
  <2>5. \A u \in Writers : pc[u] = "unit" => rest = unit
    BY <1>11 DEF Foreign, Doing, Holds
  <2>6. UNCHANGED <<pc, rest, unit>> /\ conn' = file'
    BY <1>11 DEF Foreign
  <2>. QED
    BY <2>4, <2>5, <2>6 DEF Agreeing, Whole, Agree
<1>. QED
  BY <1>1, <1>2, <1>3, <1>4, <1>5, <1>8, <1>9, <1>10, <1>11 DEF DbNext, WriterStep

-----------------------------------------------------------------------------
\* Writing twice is writing both.
LEMMA PutTwice ==
  ASSUME NEW v, NEW A, NEW B, NEW s
  PROVE  Put(v, A, Put(v, B, s)) = Put(v, B \cup A, s)
BY DEF Put

\* Nothing is unpublished at first.
LEMMA PublishedInit == DbInit => Published
BY DEF DbInit, Published, Holds

\* Whoever answers leaves the connection settled.
LEMMA AnsweredPublished ==
  ASSUME DbLock, NEW t \in Writers, settled' = conn', \A u \in Writers : ~Holds(u)',
         ~wlock' => conn' = file'
  PROVE  Published'
BY DEF Published

\* After a failure the connection has the finished units and no other.
LEMMA RaisedConn ==
  ASSUME ~MayTear, ~GivesUp, DbLock, Doing, Published, NEW t \in Writers, Raises(t)
  PROVE  /\ conn' = Put(req[t].value, UNION Finished(t), settled)
         /\ ~wlock' => ~wlock /\ conn' = conn
         /\ pc[t] = "unit" /\ UNCHANGED file
<1>1. pc[t] = "unit" /\ Holds(t) /\ UNCHANGED file
  BY DEF Raises, Undone, Holds
<1>2. conn = Put(req[t].value, (UNION Finished(t)) \cup (unit \ rest), settled)
      /\ (rest # unit => mark = Put(req[t].value, UNION Finished(t), settled))
  BY <1>1 DEF Published
<1>3. /\ conn' = IF req[t].kind # "plain" /\ rest # unit THEN mark ELSE conn
      /\ wlock' \in {wlock, TRUE}
      /\ req[t].kind = "plain" /\ rest # unit => MayTear
  BY DEF Raises, Undone
<1>4. ~wlock' => ~wlock
  BY <1>3, Zenon
<1>5. ~wlock => rest = unit
  BY <1>1 DEF Doing
<1>6. CASE rest = unit
  <2>1. (UNION Finished(t)) \cup (unit \ rest) = UNION Finished(t)
    BY <1>6
  <2>2. conn = Put(req[t].value, UNION Finished(t), settled)
    BY <1>2, <2>1
  <2>. QED
    BY <1>1, <1>3, <1>4, <1>6, <2>2
<1>7. CASE rest # unit /\ req[t].kind # "plain"
  BY <1>1, <1>2, <1>3, <1>4, <1>5, <1>7
<1>. QED
  BY <1>3, <1>6, <1>7

\* At the end of a unit the connection has it.
LEMMA UnitWritten ==
  ASSUME DbLock, Doing, Published, NEW t \in Writers, pc[t] = "unit", rest = {}
  PROVE  /\ conn = Put(req[t].value, UNION (req[t].units \ (left \cup unlogged)), settled)
         /\ ~wlock => UNION (req[t].units \ (left \cup unlogged)) = {}
<1>1. unit \in req[t].units \ (left \cup unlogged) /\ (rest # unit => wlock)
  BY DEF Doing, Holds
<1>2. (UNION Finished(t)) \cup unit = UNION (req[t].units \ (left \cup unlogged))
  <2>1. req[t].units \ (left \cup unlogged) = Finished(t) \cup {unit}
    BY <1>1 DEF Finished
  <2>. QED
    BY <2>1
<1>3. conn = Put(req[t].value, (UNION Finished(t)) \cup (unit \ rest), settled)
      /\ (~wlock => UNION Finished(t) = {})
  BY DEF Published, Holds
<1>4. unit \ rest = unit
  OBVIOUS
<1>5. ~wlock => unit = {}
  BY <1>1
<1>. QED
  BY <1>2, <1>3, <1>4, <1>5

\* Every step keeps what the connection is.
LEMMA PublishedStep ==
  ASSUME ~MayTear, ~GivesUp, DbLock, Doing, Published, [DbNext]_dbVars
  PROVE  Published'
<1>. USE DEF bounds, local, threads
<1>0. {file, conn, settled} \subseteq Store
  BY DEF DbLock, DbTypeOK
<1>1. CASE UNCHANGED dbVars
  BY <1>1 DEF dbVars, Published, Holds, Finished
<1>2. ASSUME NEW t \in Writers, Call(t) PROVE Published'
  <2>1. \A u \in Writers : Holds(u)' <=> Holds(u)
    BY <1>2 DEF Call, Holds, DbLock, DbTypeOK
  <2>2. \A u \in Writers : Holds(u) => u # t
    BY <1>2 DEF Call, Holds
  <2>3. UNCHANGED <<file, conn, wlock, left, unit, rest, mark, unlogged, settled>>
    BY <1>2 DEF Call
  <2>4. \A u \in Writers : u # t => req'[u] = req[u] /\ pc'[u] = pc[u] /\ Finished(u)' = Finished(u)
    BY <1>2 DEF Call, DbLock, DbTypeOK, Finished
  <2>. QED
    BY <2>1, <2>2, <2>3, <2>4 DEF Published
<1>3. ASSUME NEW t \in Writers, EnterBatch(t) PROVE Published'
  <2>1. \A u \in Writers : ~Holds(u)
    BY <1>3, TakenAlone DEF EnterBatch, Holds
  <2>2. unlogged' = {} /\ left' = req'[t].units /\ pc'[t] = "batch"
    BY <1>3, <2>1 DEF EnterBatch, DbLock, DbTypeOK, Locked
  <2>3. \A u \in Writers : Holds(u)' => u = t
    BY <1>3, <2>1 DEF EnterBatch, Holds, DbLock, DbTypeOK
  <2>4. UNION Finished(t)' = {}
    BY <2>2 DEF Finished
  <2>5. conn = settled /\ UNCHANGED <<file, conn, wlock, settled>>
    BY <1>3, <2>1 DEF EnterBatch, Published
  <2>6. conn' = Put(req'[t].value, UNION Finished(t)', settled')
    BY <1>0, <2>4, <2>5, PutNone
  <2>7. Holds(t)'
    BY <2>2 DEF Holds
  <2>. QED
    BY <2>2, <2>3, <2>4, <2>5, <2>6, <2>7 DEF Published
<1>4. ASSUME NEW t \in Writers, BeginUnit(t) PROVE Published'
  <2>1. \A u \in Writers : Holds(u) => u = t
    BY <1>4, TakenAlone DEF BeginUnit
  <2>2. pc'[t] = "unit" /\ Holds(t)' /\ \A u \in Writers : Holds(u)' => u = t
    BY <1>4, <2>1 DEF BeginUnit, Holds, DbLock, DbTypeOK
  <2>3. UNCHANGED <<file, conn, wlock, req, unlogged, settled>> /\ rest' = unit'
    BY <1>4 DEF BeginUnit
  <2>4. /\ conn = Put(req[t].value, UNION Finished(t)', settled)
        /\ ~wlock => UNION Finished(t)' = {}
    <3>1. CASE pc[t] = "batch"
      <4>1. Finished(t)' = Finished(t)
        BY <1>4, <2>2, <2>3, <3>1 DEF BeginUnit, Finished, Doing, Holds
      <4>. QED
        BY <3>1, <4>1 DEF Published, Holds
    <3>2. CASE pc[t] = "called" /\ req[t].kind \notin BatchKinds
      <4>1. req[t] \in Requests
        BY <3>2 DEF DbLock, DbTypeOK, Locked
      <4>2. PICK X : req[t].units = {X}
        BY <3>2, <4>1, RequestType
      <4>3. Finished(t)' = {}
        BY <1>4, <2>2, <2>3, <3>2, <4>2 DEF BeginUnit, Finished
      <4>4. UNION Finished(t)' = {}
        BY <4>3
      <4>5. conn = settled
        BY <2>1, <3>2 DEF Published, Holds
      <4>. QED
        BY <1>0, <4>4, <4>5, PutNone
    <3>. QED
      BY <1>4, <3>1, <3>2 DEF BeginUnit
  <2>5. (UNION Finished(t)') \cup (unit' \ rest') = UNION Finished(t)'
    BY <2>3
  <2>6. conn' = Put(req'[t].value, (UNION Finished(t)') \cup (unit' \ rest'), settled')
    BY <2>3, <2>4, <2>5
  <2>7. ~wlock' => conn' = file' /\ settled' = file'
    BY <2>3 DEF Published
  <2>. QED
    BY <2>2, <2>3, <2>4, <2>6, <2>7 DEF Published
<1>5. ASSUME NEW t \in Writers, Statement(t) PROVE Published'
  <2>1. pc[t] = "unit" /\ Holds(t) /\ wlock' = TRUE
    BY <1>5 DEF Statement, Holds
  <2>2. PICK P \in Statements(rest) : conn' = Put(req[t].value, P, conn) /\ rest' = rest \ P
    BY <1>5 DEF Statement
  <2>3. P \subseteq rest /\ rest \subseteq unit
    BY <2>1, <2>2, StatementRows DEF Doing, DbLock, DbTypeOK
  <2>4. UNCHANGED <<req, pc, left, unit, unlogged, settled>>
    BY <1>5 DEF Statement
  <2>13. mark' = IF rest = unit THEN conn ELSE mark
    BY <1>5 DEF Statement
  <2>5. \A u \in Writers : (Holds(u) <=> Holds(u)') /\ (Holds(u) => u = t)
    BY <2>1, <2>4 DEF Holds, DbLock, Locked
  <2>6. Finished(t)' = Finished(t)
    BY <2>4 DEF Finished
  <2>7. conn = Put(req[t].value, (UNION Finished(t)) \cup (unit \ rest), settled)
        /\ (rest # unit => mark = Put(req[t].value, UNION Finished(t), settled))
    BY <2>1 DEF Published
  <2>8. ((UNION Finished(t)) \cup (unit \ rest)) \cup P = (UNION Finished(t)) \cup (unit \ rest')
    BY <2>2, <2>3
  <2>9. conn' = Put(req[t].value, (UNION Finished(t)) \cup (unit \ rest'), settled)
    BY <2>2, <2>7, <2>8, PutTwice
  <2>10. rest = unit => (UNION Finished(t)) \cup (unit \ rest) = UNION Finished(t)
    OBVIOUS
  <2>11. mark' = Put(req[t].value, UNION Finished(t), settled)
    BY <2>7, <2>10, <2>13
  <2>12. pc'[t] = "unit"
    BY <2>1, <2>4
  <2>. QED
    BY <2>1, <2>4, <2>5, <2>6, <2>9, <2>11, <2>12 DEF Published
<1>6. ASSUME NEW t \in Writers, WriteFails(t) \/ BatchFails(t) \/ EndBatch(t) \/ (EndWrite(t) /\ depth = 0)
      PROVE  Published'
  <2>1. \A u \in Writers : ~Holds(u)'
    BY <1>6, Answering
  <2>2. settled' = conn'
    BY <1>6 DEF WriteFails, BatchFails, EndBatch, EndWrite, PutOff, Commit, Return
  <2>3. ~wlock' => conn' = file'
    <3>1. CASE WriteFails(t)
      BY <3>1, RaisedConn DEF WriteFails, Published
    <3>2. CASE BatchFails(t)
      BY <3>2 DEF BatchFails, Rollback
    <3>3. ASSUME NEW a, Commit(t, a) PROVE ~wlock' => conn' = file'
      BY <3>3 DEF Commit, Rollback, Published
    <3>4. CASE EndBatch(t) \/ (EndWrite(t) /\ depth = 0)
      <4>1. Commit(t, Done(unlogged)) \/ Commit(t, Done({}))
        BY <3>4 DEF EndBatch, EndWrite, PutOff
      <4>. QED
        BY <3>3, <4>1
    <3>. QED
      BY <1>6, <3>1, <3>2, <3>4
  <2>. QED
    BY <1>6, <2>1, <2>2, <2>3, AnsweredPublished
<1>7. ASSUME NEW t \in Writers, PaperFails(t) PROVE Published'
  <2>1. EndUnit(t) /\ Raises(t) /\ unlogged' = unlogged \cup {unit}
    BY <1>7 DEF PaperFails
  <2>2. /\ conn' = Put(req[t].value, UNION Finished(t), settled)
        /\ ~wlock' => ~wlock /\ conn' = conn
        /\ pc[t] = "unit" /\ UNCHANGED file
    BY <2>1, RaisedConn
  <2>3. pc'[t] = "batch" /\ Holds(t)' /\ \A u \in Writers : Holds(u)' => u = t
    BY <2>1, <2>2, StillHeld DEF Holds
  <2>4. UNCHANGED <<req, left, settled>>
    BY <2>1 DEF EndUnit
  <2>5. Finished(t)' = Finished(t)
    BY <2>1, <2>2, <2>3, <2>4 DEF Finished
  <2>6. /\ ~wlock => conn = file /\ settled = file
        /\ ~wlock => UNION Finished(t) = {}
    BY <2>2 DEF Published, Holds
  <2>. QED
    BY <2>2, <2>3, <2>4, <2>5, <2>6 DEF Published
<1>8. ASSUME NEW t \in Writers, EndWrite(t), depth # 0 PROVE Published'
  <2>1. EndUnit(t) /\ pc[t] = "unit" /\ rest = {} /\ UNCHANGED <<file, conn, wlock, unlogged>>
    BY <1>8 DEF EndWrite, PutOff
  <2>2. pc'[t] = "batch" /\ Holds(t)' /\ \A u \in Writers : Holds(u)' => u = t
    BY <2>1, StillHeld DEF Holds
  <2>3. UNCHANGED <<req, left, settled>>
    BY <2>1 DEF EndUnit
  <2>4. Finished(t)' = req[t].units \ (left \cup unlogged)
    BY <2>1, <2>2, <2>3 DEF Finished
  <2>5. /\ conn = Put(req[t].value, UNION Finished(t)', settled)
        /\ ~wlock => UNION Finished(t)' = {}
    BY <2>1, <2>4, UnitWritten
  <2>. QED
    BY <2>1, <2>2, <2>3, <2>5 DEF Published
<1>9. CASE Crash
  <2>1. \A t \in Writers : ~Holds(t)'
    BY <1>9 DEF Crash, Holds
  <2>. QED
    BY <1>9, <2>1 DEF Crash, Rollback, Published
<1>10. CASE Foreign
  <2>1. ~wlock /\ conn' = file' /\ settled' = file' /\ UNCHANGED <<wlock, req, pc, left, unit, rest, mark, unlogged>>
    BY <1>10 DEF Foreign
  <2>2. settled' \in Store
    <3>0. PICK r \in Requests : \E S \in SUBSET r.units : file' = Put(r.value, UNION S, file)
      BY <1>10 DEF Foreign
    <3>1. PICK S \in SUBSET r.units : file' = Put(r.value, UNION S, file)
      BY <3>0
    <3>. QED
      BY <1>0, <2>1, <3>1, RequestType, PutType
  <2>3. ASSUME NEW u \in Writers, Holds(u)'
        PROVE  (/\ ~wlock => UNION Finished(u) = {}
                /\ pc[u] = "batch" => conn = Put(req[u].value, UNION Finished(u), settled)
                /\ pc[u] = "unit" =>
                     /\ conn = Put(req[u].value, (UNION Finished(u)) \cup (unit \ rest), settled)
                     /\ rest # unit => mark = Put(req[u].value, UNION Finished(u), settled))'
    <3>1. Holds(u) /\ Finished(u)' = Finished(u)
      BY <2>1, <2>3 DEF Holds, Finished
    <3>2. UNION Finished(u) = {}
      BY <2>1, <3>1 DEF Published
    <3>3. pc[u] = "unit" => rest = unit
      BY <2>1, <3>1 DEF Doing
    <3>4. UNION Finished(u)' = {}
      BY <3>1, <3>2
    <3>5. pc[u] = "unit" => (UNION Finished(u)') \cup (unit' \ rest') = {}
      BY <2>1, <3>3, <3>4
    <3>6. conn' = Put(req'[u].value, {}, settled')
      BY <2>1, <2>2, PutNone
    <3>. QED
      BY <2>1, <3>3, <3>4, <3>5, <3>6
  <2>. QED
    BY <2>1, <2>3 DEF Published
<1>. QED
  BY <1>1, <1>2, <1>3, <1>4, <1>5, <1>6, <1>7, <1>8, <1>9, <1>10 DEF DbNext, WriterStep

-----------------------------------------------------------------------------
\* The initial states are those of the abstract store.
LEMMA TxInitMaps == DbInit => Tx!TxInit
BY DEF DbInit, Tx!TxInit, Blank, NoAnswer, Tx!NoAnswer

\* Both modules write rows alike.
LEMMA SamePut == \A v, U, s : Tx!Put(v, U, s) = Put(v, U, s)
BY DEF Put, Tx!Put

\* A COMMIT performs the request it ends, or fails it.
LEMMA CommitMaps ==
  ASSUME NEW t \in Writers, req[t] # NoRequest, NEW S \in SUBSET req[t].units,
         req[t].kind # "ingest" => S = req[t].units,
         conn = Put(req[t].value, UNION S, settled),
         Commit(t, Done(req[t].units \ S))
  PROVE  Tx!Performed(t) \/ Tx!Failed(t)
<1>1. S \in Tx!Parts(req[t])
  BY DEF Tx!Parts
<1>2. CASE file' = conn /\ UNCHANGED conn /\ Return(t, Done(req[t].units \ S))
  <2>1. Tx!Answered(t, Tx!Done(req[t].units \ S))
    BY <1>2 DEF Return, Tx!Answered, Done, Tx!Done
  <2>2. file' = Tx!Put(req[t].value, UNION S, settled) /\ settled' = file'
    BY <1>2, SamePut DEF Return
  <2>. QED
    BY <1>1, <2>1, <2>2 DEF Tx!Performed
<1>3. CASE conn' \in {file, conn} /\ UNCHANGED file /\ Return(t, Failure)
  <2>1. Tx!Answered(t, Tx!Failure)
    BY <1>3 DEF Return, Tx!Answered, Failure, Tx!Failure
  <2>2. settled' \in {file, Tx!Put(req[t].value, UNION S, settled)}
    BY <1>3, SamePut DEF Return
  <2>. QED
    BY <1>1, <1>3, <2>1, <2>2 DEF Tx!Failed
<1>. QED
  BY <1>2, <1>3 DEF Commit, Rollback

\* Every step is one of the abstract store or none.
LEMMA TxStepMaps ==
  ASSUME ~MayTear, ~GivesUp, DbLock, Doing, Published, [DbNext]_dbVars
  PROVE  [Tx!TxNext]_(Tx!txVars)
<1>. USE DEF bounds, local, threads
<1>1. CASE UNCHANGED dbVars
  BY <1>1 DEF dbVars, Tx!txVars
<1>2. ASSUME NEW t \in Writers, Call(t) PROVE Tx!TxNext
  <2>1. PICK r \in Requests : req' = [req EXCEPT ![t] = r]
    BY <1>2 DEF Call
  <2>2. Tx!Ask(t, r)
    BY <1>2, <2>1 DEF Call, Tx!Ask, NoAnswer, Tx!NoAnswer, DbLock, Locked
  <2>. QED
    BY <2>2 DEF Tx!TxNext
<1>3. ASSUME NEW t \in Writers, EnterBatch(t) \/ BeginUnit(t) \/ Statement(t) PROVE UNCHANGED Tx!txVars
  BY <1>3 DEF EnterBatch, BeginUnit, Statement, Tx!txVars
<1>4. ASSUME NEW t \in Writers, PaperFails(t) \/ (EndWrite(t) /\ depth # 0) PROVE UNCHANGED Tx!txVars
  BY <1>4 DEF PaperFails, Raises, Undone, EndWrite, PutOff, EndUnit, Tx!txVars
<1>5. ASSUME NEW t \in Writers, Holds(t)
      PROVE  req[t] \in Requests /\ req[t] # NoRequest
  BY <1>5 DEF DbLock, DbTypeOK, Locked, Holds
<1>6. ASSUME NEW t \in Writers, WriteFails(t) PROVE Tx!TxNext
  <2>1. /\ Raises(t) /\ Return(t, Failure) /\ req[t].kind \notin BatchKinds /\ req[t].kind # "ingest"
    BY <1>6 DEF WriteFails, BatchKinds
  <2>2. /\ conn' = Put(req[t].value, UNION Finished(t), settled)
        /\ pc[t] = "unit" /\ Holds(t) /\ UNCHANGED file
    BY <2>1, RaisedConn DEF Holds
  <2>3. PICK X : req[t].units = {X}
    BY <1>5, <2>1, <2>2, RequestType
  <2>4. UNION Finished(t) = {}
    BY <2>2, <2>3 DEF Finished, Doing
  <2>5. settled' = settled
    BY <2>1, <2>2, <2>4, PutNone DEF Return, DbLock, DbTypeOK
  <2>6. Tx!Answered(t, Tx!Failure)
    BY <2>1 DEF Return, Tx!Answered, Failure, Tx!Failure
  <2>7. Tx!Failed(t)
    BY <1>5, <2>2, <2>5, <2>6 DEF Tx!Failed
  <2>. QED
    BY <2>7 DEF Tx!TxNext
<1>7. ASSUME NEW t \in Writers, BatchFails(t) PROVE Tx!TxNext
  <2>1. conn' = file /\ Return(t, Failure) /\ Holds(t) /\ UNCHANGED file
    BY <1>7 DEF BatchFails, Rollback, Holds
  <2>2. Tx!Answered(t, Tx!Failure) /\ settled' = file
    BY <2>1 DEF Return, Tx!Answered, Failure, Tx!Failure
  <2>3. Tx!Failed(t)
    BY <1>5, <2>1, <2>2 DEF Tx!Failed
  <2>. QED
    BY <2>3 DEF Tx!TxNext
<1>8. ASSUME NEW t \in Writers, EndWrite(t), depth = 0 PROVE Tx!TxNext
  <2>1. pc[t] = "unit" /\ Holds(t) /\ rest = {} /\ Commit(t, Done({}))
    BY <1>8 DEF EndWrite, PutOff, Holds
  <2>2. req[t].kind \notin BatchKinds
    BY <1>8, <2>1 DEF DbLock, Locked
  <2>3. left = {} /\ unlogged = {}
    BY <2>1, <2>2 DEF Doing, BatchKinds
  <2>4. req[t].units \ (left \cup unlogged) = req[t].units
    BY <2>3
  <2>5. conn = Put(req[t].value, UNION req[t].units, settled)
    BY <2>1, <2>4, UnitWritten
  <2>6. req[t].units \ req[t].units = {}
    OBVIOUS
  <2>7. Commit(t, Done(req[t].units \ req[t].units))
    BY <2>1, <2>6
  <2>8. Tx!Performed(t) \/ Tx!Failed(t)
    BY <1>5, <2>1, <2>5, <2>7, CommitMaps
  <2>. QED
    BY <2>8 DEF Tx!TxNext
<1>9. ASSUME NEW t \in Writers, EndBatch(t) PROVE Tx!TxNext
  <2>1. pc[t] = "batch" /\ Holds(t) /\ left = {} /\ Commit(t, Done(unlogged))
    BY <1>9 DEF EndBatch, Holds
  <2>2. unlogged \subseteq req[t].units /\ (req[t].kind # "ingest" => unlogged = {})
    BY <2>1 DEF Doing
  <2>3. Finished(t) = req[t].units \ unlogged
    BY <2>1 DEF Finished
  <2>4. conn = Put(req[t].value, UNION (req[t].units \ unlogged), settled)
    BY <2>1, <2>3 DEF Published
  <2>5. req[t].units \ (req[t].units \ unlogged) = unlogged
    BY <2>2
  <2>6. Commit(t, Done(req[t].units \ (req[t].units \ unlogged)))
    BY <2>1, <2>5
  <2>7. req[t].kind # "ingest" => req[t].units \ unlogged = req[t].units
    BY <2>2
  <2>8. Tx!Performed(t) \/ Tx!Failed(t)
    BY <1>5, <2>1, <2>4, <2>6, <2>7, CommitMaps
  <2>. QED
    BY <2>8 DEF Tx!TxNext
<1>10. CASE Crash
  <2>1. Tx!Lost
    BY <1>10 DEF Crash, Tx!Lost, NoAnswer, Tx!NoAnswer
  <2>. QED
    BY <2>1 DEF Tx!TxNext
<1>11. CASE Foreign
  <2>1. settled = file /\ settled' = file' /\ UNCHANGED <<req, answer>>
    BY <1>11 DEF Foreign, Published
  <2>2. \E r \in Requests : \E S \in Tx!Parts(r) : file' = Tx!Put(r.value, UNION S, file)
    BY <1>11, SamePut DEF Foreign, Tx!Parts
  <2>3. Tx!Foreign
    BY <2>1, <2>2 DEF Tx!Foreign
  <2>. QED
    BY <2>3 DEF Tx!TxNext
<1>. QED
  BY <1>1, <1>2, <1>3, <1>4, <1>6, <1>7, <1>8, <1>9, <1>10, <1>11 DEF DbNext, WriterStep

-----------------------------------------------------------------------------
\* The types, the lock counts and the batch depth, for any threads and papers.
THEOREM DbTypeCorrect == DbSpec => []DbTypeOK
<1>1. DbInit => DbLock
  BY LockInit
<1>2. DbLock /\ [DbNext]_dbVars => DbLock'
  BY LockStep
<1>3. DbLock => DbTypeOK
  BY DEF DbLock
<1>. QED
  BY <1>1, <1>2, <1>3, PTL DEF DbSpec

\* paper_index agrees with ingest_log in every committed state, whatever fails, disks that
\* fill up and transactions SQLite ends included, unless the second DELETE of
\* delete_ingest_events or of clear_ingest_log fails alone.
THEOREM MirrorTrusted ==
  ASSUME ~MayTear
  PROVE  DbSpec => []MirrorAgrees
<1>1. DbInit => DbLock /\ Doing /\ Agreeing
  BY LockInit, DoingInit, AgreeingInit
<1>2. DbLock /\ Doing /\ Agreeing /\ [DbNext]_dbVars => (DbLock /\ Doing /\ Agreeing)'
  BY LockStep, DoingStep, AgreeingStep
<1>3. Agreeing => MirrorAgrees
  BY DEF Agreeing, Agree, MirrorAgrees
<1>. QED
  BY <1>1, <1>2, <1>3, PTL DEF DbSpec

\* The whole of the inductive invariant.
LEMMA PublishedAlways ==
  ASSUME ~MayTear, ~GivesUp
  PROVE  DbSpec => [](DbLock /\ Doing /\ Published)
<1>1. DbInit => DbLock /\ Doing /\ Published
  BY LockInit, DoingInit, PublishedInit
<1>2. DbLock /\ Doing /\ Published /\ [DbNext]_dbVars => (DbLock /\ Doing /\ Published)'
  BY LockStep, DoingStep, PublishedStep
<1>. QED
  BY <1>1, <1>2, PTL DEF DbSpec

\* The threads, their lock and their batches implement requests that happen at once or
\* fail as a whole (TxStore), for any threads, requests, crashes and other processes, as
\* long as a failed statement undoes itself only.
THEOREM TransactionsAtomic ==
  ASSUME ~MayTear, ~GivesUp
  PROVE  DbSpec => IsTxStore
<1>1. DbInit => Tx!TxInit
  BY TxInitMaps
<1>2. DbLock /\ Doing /\ Published /\ [DbNext]_dbVars => [Tx!TxNext]_(Tx!txVars)
  BY TxStepMaps
<1>. QED
  BY <1>1, <1>2, PublishedAlways, PTL DEF DbSpec, IsTxStore, Tx!TxSpec

\* Of a request answered as done, what the answer does not name is stored.
Stored(t) ==
  req[t] # NoRequest /\ req'[t] = NoRequest /\ answer'[t].said = "done" =>
    \A U \in req[t].units \ answer'[t].missing : \A x \in U : file'[x] = req[t].value

\* Every answer keeps its word.
LEMMA TxStores ==
  ASSUME DbTypeOK, [Tx!TxNext]_(Tx!txVars), NEW t \in Writers
  PROVE  Stored(t)
<1>. SUFFICES ASSUME req[t] # NoRequest, req'[t] = NoRequest, answer'[t].said = "done",
                     NEW U \in req[t].units \ answer'[t].missing, NEW x \in U
              PROVE  file'[x] = req[t].value
  BY DEF Stored
<1>0. req[t] \in Requests /\ x \in Rows
  BY RequestType DEF DbTypeOK
<1>1. CASE UNCHANGED Tx!txVars \/ Tx!Foreign
  BY <1>1 DEF Tx!txVars, Tx!Foreign
<1>2. CASE Tx!Lost
  BY <1>2 DEF Tx!Lost, Tx!NoAnswer
<1>3. ASSUME NEW u \in Writers, NEW r \in Requests, Tx!Ask(u, r) PROVE FALSE
  BY <1>3, NoRequestAssumption DEF Tx!Ask, DbTypeOK
<1>4. ASSUME NEW u \in Writers, Tx!Failed(u) PROVE FALSE
  BY <1>4 DEF Tx!Failed, Tx!Answered, Tx!Failure, DbTypeOK
<1>5. ASSUME NEW u \in Writers, Tx!Performed(u) PROVE file'[x] = req[t].value
  <2>1. u = t
    BY <1>5 DEF Tx!Performed, Tx!Answered, DbTypeOK
  <2>2. PICK S \in Tx!Parts(req[t]) : /\ Tx!Answered(t, Tx!Done(req[t].units \ S))
                                     /\ file' = Tx!Put(req[t].value, UNION S, settled)
    BY <1>5, <2>1 DEF Tx!Performed
  <2>3. answer'[t].missing = req[t].units \ S
    BY <2>2 DEF Tx!Answered, Tx!Done, DbTypeOK
  <2>4. U \in S
    BY <2>3
  <2>5. x \in UNION S
    BY <2>4
  <2>. QED
    BY <1>0, <2>2, <2>5 DEF Tx!Put
<1>. QED
  BY <1>1, <1>2, <1>3, <1>4, <1>5 DEF Tx!TxNext

\* What an answer does not name is committed: the rest of a batch survives the row that
\* failed, as long as that failure undoes itself only.
THEOREM RestIsCommitted ==
  ASSUME ~MayTear, ~GivesUp
  PROVE  DbSpec => RestCommitted
<1>1. DbLock /\ Doing /\ Published /\ [DbNext]_dbVars => \A t \in Writers : Stored(t)
  BY TxStepMaps, TxStores DEF DbLock
<1>2. DbSpec => [][\A t \in Writers : Stored(t)]_dbVars
  BY <1>1, PublishedAlways, PTL DEF DbSpec
<1>. QED
  BY <1>2, PTL DEF RestCommitted, Stored
=============================================================================
