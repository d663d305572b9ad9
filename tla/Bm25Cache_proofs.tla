-------------------------- MODULE Bm25Cache_proofs --------------------------
(***************************************************************************)
(* Proofs about module Bm25Cache: for any ids, texts and threads, with     *)
(* any number of operations, faults and restarts, and whether or not two   *)
(* operations on the corpus may overlap.                                   *)
(*                                                                         *)
(* An operation that has begun to write makes the ids it touches doubtful, *)
(* and a failed ingest leaves its ids so (ghosts).  On every other id the  *)
(* index in the dict, what a loader compares with the file and what a      *)
(* builder fetched agree with the collection (Same).  An operation ends    *)
(* with the dict emptied while nobody holds _lock, that is, with no        *)
(* builder on the way either: then its ids are beyond doubt again.         *)
(***************************************************************************)
EXTENDS Bm25Cache, SequenceTheorems, TLAPS

Kinds == {"none", "ingest", "delete", "replace"}
Op == [pc : Places, kind : Kinds, ids : SUBSET Ids, new : Content, idx : Nat, copy : Content]
Building == {"liveIds", "load", "allDocs", "publish"}

\* The ids an operation may have written, and the ids nobody has any business with.
Touched(o) == IF o.kind = "none" \/ o.pc = "delete" THEN {} ELSE o.ids \cup IdsIn(o.new)
Settled(i) == i \notin ghosts /\ \A t \in Threads : i \notin Touched(thread[t])

Typed ==
  /\ coll \in Content /\ heap \in Seq(Content)
  /\ mem \in Nat /\ mem <= Len(heap)
  /\ \A n \in fromFile : n \in Nat /\ 1 <= n /\ n <= Len(heap)
  /\ disk \in Content \cup {NoFile}
  /\ lock \in Threads \cup {NoThread}
  /\ ghosts \subseteq Ids
  /\ thread \in [Threads -> Op]

\* What a thread is doing and for what.
Fit(o) ==
  /\ o.idx <= Len(heap)
  /\ o.pc \in {"removeDo", "saveCopy"} => o.idx > 0
  /\ o.pc \in Building \cup {"idle", "unlink"} => o.kind = "none"
  /\ o.pc \in {"saveFind", "saveCopy", "saveReplace"} => o.kind \in {"none", "delete", "replace"}
  /\ o.pc \in {"delete", "removeFind", "removeDo", "deleted"} => o.kind \in {"delete", "replace"}
  /\ o.pc \in {"upsert", "rollback"} => o.kind \in {"ingest", "replace"}
  /\ o.kind \in {"ingest", "replace"} => o.ids \subseteq IdsIn(o.new)
AllFit == \A t \in Threads : Fit(thread[t])

\* Whoever builds holds the lock.
Locked == \A t \in Threads : thread[t].pc \in Building => lock = t

Agrees(i) ==
  /\ mem # 0 => (heap[mem][i] = NoText <=> coll[i] = NoText)
  /\ mem # 0 /\ mem \notin fromFile => heap[mem][i] = coll[i]
  /\ \A t \in Threads :
       /\ thread[t].pc = "load" => (i \in thread[t].ids <=> coll[i] # NoText)
       /\ thread[t].pc = "publish" => thread[t].copy[i] = coll[i]
Same == \A i \in Ids : Settled(i) => Agrees(i)

IInv == Typed /\ AllFit /\ Locked /\ Same

-----------------------------------------------------------------------------
LEMMA IdleFits ==
  /\ Empty \in Content /\ IdsIn(Empty) = {}
  /\ Idle \in Op /\ Touched(Idle) = {}
  /\ \A p \in Places : [Idle EXCEPT !.pc = p] \in Op /\ Touched([Idle EXCEPT !.pc = p]) = {}
<1>1. Empty \in Content /\ IdsIn(Empty) = {}
  BY DEF Empty, Content, IdsIn
<1>2. Idle \in Op /\ Idle.kind = "none"
  BY <1>1 DEF Idle, Op, Places, Kinds
<1>3. ASSUME NEW p \in Places PROVE [Idle EXCEPT !.pc = p] \in Op /\ [Idle EXCEPT !.pc = p].kind = "none"
  BY <1>2 DEF Op, Idle, Kinds
<1> QED BY <1>1, <1>2, <1>3 DEF Touched

LEMMA PutDrop ==
  ASSUME NEW c \in Content, NEW d \in Content, NEW S \in SUBSET Ids
  PROVE  /\ Put(c, d) \in Content /\ Drop(c, S) \in Content
         /\ \A i \in Ids : i \notin IdsIn(d) => Put(c, d)[i] = c[i]
         /\ \A i \in Ids : i \notin S => Drop(c, S)[i] = c[i]
         /\ IdsIn(c) \subseteq Ids
BY DEF Put, Drop, Content, IdsIn

\* A thread that goes on to o, its heap no shorter and its duties those of o.
LEMMA GotoFits ==
  ASSUME Typed, AllFit, NEW t \in Threads, NEW o \in Op, Goto(t, o),
         Len(heap') \in Nat, Len(heap') >= Len(heap), Fit(o)'
  PROVE  /\ thread' \in [Threads -> Op] /\ AllFit'
         /\ thread'[t] = o /\ \A u \in Threads : u # t => thread'[u] = thread[u]
<1>1. /\ thread' \in [Threads -> Op]
      /\ thread'[t] = o /\ \A u \in Threads : u # t => thread'[u] = thread[u]
  BY DEF Goto, Typed
<1>2. ASSUME NEW u \in Threads, u # t PROVE Fit(thread[u])'
  <2>1. thread'[u] = thread[u] /\ Fit(thread[u]) /\ thread[u] \in Op
    BY <1>1, <1>2 DEF AllFit, Typed
  <2>2. Len(heap) \in Nat /\ thread[u].idx \in Nat
    BY <2>1 DEF Typed, Op
  <2> QED BY <2>1, <2>2 DEF Fit
<1>3. Fit(thread[t])'
  BY <1>1 DEF Fit
<1> QED BY <1>1, <1>2, <1>3 DEF AllFit

\* What was settled is what is settled, when a thread touches no less than before.
LEMMA GotoSettles ==
  ASSUME Typed, NEW t \in Threads, NEW o \in Op, Goto(t, o),
         ghosts \subseteq ghosts', Touched(thread[t]) \subseteq Touched(o) \cup ghosts',
         NEW i \in Ids, Settled(i)'
  PROVE  Settled(i) /\ i \notin Touched(thread[t])
<1>1. /\ thread'[t] = o /\ \A u \in Threads : u # t => thread'[u] = thread[u]
  BY DEF Goto, Typed
<1>2. i \notin ghosts' /\ \A u \in Threads : i \notin Touched(thread'[u])
  BY DEF Settled, Touched
<1> QED BY <1>1, <1>2 DEF Settled

\* The rest agrees where nothing but doubtful ids changed.
LEMMA SameKept ==
  ASSUME Typed, Same, NEW t \in Threads, NEW o \in Op, Goto(t, o),
         mem' = mem, fromFile' = fromFile, o.pc \notin {"load", "publish"},
         \A i \in Ids : Settled(i)' =>
           /\ Settled(i) /\ coll'[i] = coll[i]
           /\ mem # 0 => heap'[mem][i] = heap[mem][i]
  PROVE  Same'
<1>1. /\ thread'[t] = o /\ \A u \in Threads : u # t => thread'[u] = thread[u]
  BY DEF Goto, Typed
<1>2. ASSUME NEW i \in Ids, Settled(i)' PROVE Agrees(i)'
  <2>1. Agrees(i) /\ coll'[i] = coll[i] /\ (mem # 0 => heap'[mem][i] = heap[mem][i])
    BY <1>2 DEF Same
  <2>2. ASSUME NEW u \in Threads
        PROVE  /\ thread'[u].pc = "load" => (i \in thread'[u].ids <=> coll'[i] # NoText)
               /\ thread'[u].pc = "publish" => thread'[u].copy[i] = coll'[i]
    BY <1>1, <2>1 DEF Agrees
  <2> QED BY <2>1, <2>2 DEF Agrees
<1> QED BY <1>2 DEF Same

LEMMA LockedKept ==
  ASSUME Typed, Locked, NEW t \in Threads, NEW o \in Op, Goto(t, o),
         o.pc \notin Building, lock' = lock
  PROVE  Locked'
BY DEF Typed, Locked, Goto

LEMMA InitIInv == Init => IInv
<1> SUFFICES ASSUME Init PROVE IInv
  OBVIOUS
<1>1. \A t \in Threads : thread[t] = Idle
  BY DEF Init
<1>2. Typed
  <2>1. thread \in [Threads -> Op] /\ coll \in Content
    BY IdleFits DEF Init
  <2>2. heap \in Seq(Content) /\ Len(heap) = 0 /\ Len(heap) \in Nat
    BY DEF Init
  <2> QED BY <2>1, <2>2 DEF Init, Typed
<1>3. AllFit
  <2>1. Len(heap) = 0
    BY DEF Init
  <2>2. Fit(Idle)
    BY <2>1 DEF Fit, Idle, Building
  <2> QED BY <1>1, <2>2 DEF AllFit
<1>4. Locked
  BY <1>1 DEF Locked, Idle, Building
<1>5. Same
  BY <1>1 DEF Init, Same, Agrees, Idle
<1> QED BY <1>2, <1>3, <1>4, <1>5 DEF IInv

-----------------------------------------------------------------------------
(* The steps. *)

\* What a thread does with itself: nothing else changes.
LEMMA QuietStep ==
  ASSUME IInv, NEW t \in Threads, NEW o \in Op, Goto(t, o), Untouched,
         o.pc \notin Building, Fit(o), Touched(thread[t]) \subseteq Touched(o)
  PROVE  IInv'
<1> USE DEF IInv, Untouched
<1>1. Len(heap') \in Nat /\ Len(heap') >= Len(heap) /\ Fit(o)'
  <2>1. heap' = heap /\ Len(heap) \in Nat
    BY DEF Typed
  <2> QED BY <2>1 DEF Fit
<1>2. thread' \in [Threads -> Op] /\ AllFit'
  BY <1>1, GotoFits
<1>3. Typed'
  BY <1>2 DEF Typed
<1>4. Locked'
  BY LockedKept
<1>5. Same'
  <2>1. o.pc \notin {"load", "publish"} /\ ghosts \subseteq ghosts'
    BY DEF Building
  <2>2. \A i \in Ids : Settled(i)' => Settled(i)
    BY <2>1, GotoSettles
  <2> QED BY <2>1, <2>2, SameKept
<1> QED BY <1>2, <1>3, <1>4, <1>5

\* The same where the collection, the file and the doubts may change.
LEMMA WriteStep ==
  ASSUME IInv, NEW t \in Threads, NEW o \in Op, Goto(t, o),
         UNCHANGED <<heap, mem, fromFile, lock>>,
         coll' \in Content, disk' \in Content \cup {NoFile}, ghosts' \subseteq Ids,
         ghosts \subseteq ghosts', Touched(thread[t]) \subseteq Touched(o) \cup ghosts',
         o.pc \notin Building, Fit(o),
         \A i \in Ids : i \notin Touched(o) \cup ghosts' => coll'[i] = coll[i]
  PROVE  IInv'
<1> USE DEF IInv
<1>1. Len(heap') \in Nat /\ Len(heap') >= Len(heap) /\ Fit(o)'
  <2>1. heap' = heap /\ Len(heap) \in Nat
    BY DEF Typed
  <2> QED BY <2>1 DEF Fit
<1>2. thread' \in [Threads -> Op] /\ AllFit' /\ thread'[t] = o
  BY <1>1, GotoFits
<1>3. Typed'
  BY <1>2 DEF Typed
<1>4. Locked'
  BY LockedKept
<1>5. Same'
  <2>1. o.pc \notin {"load", "publish"}
    BY DEF Building
  <2>2. ASSUME NEW i \in Ids, Settled(i)' PROVE Settled(i) /\ coll'[i] = coll[i]
    <3>1. Settled(i)
      BY <2>2, GotoSettles
    <3>2. i \notin ghosts' /\ i \notin Touched(thread'[t])
      BY <2>2 DEF Settled, Touched
    <3> QED BY <1>2, <3>1, <3>2
  <2> QED BY <2>1, <2>2, SameKept
<1> QED BY <1>2, <1>3, <1>4, <1>5

\* The saves of an index: a builder's, or those of a delete on its way.
LEMMA SaveStep ==
  ASSUME IInv, NEW t \in Threads, SaveFind(t) \/ SaveCopy(t) \/ SaveReplace(t)
  PROVE  IInv'
<1>t. /\ thread[t] \in Op /\ Fit(thread[t]) /\ Len(heap) \in Nat /\ heap \in Seq(Content)
      /\ thread[t].kind \in {"none", "delete", "replace"}
  BY DEF IInv, Typed, AllFit, Fit, SaveFind, SaveCopy, SaveReplace, At
<1>a. /\ AfterSave(t) \in Op /\ Fit(AfterSave(t)) /\ AfterSave(t).pc \notin Building
      /\ Touched(thread[t]) \subseteq Touched(AfterSave(t))
  <2>1. CASE thread[t].kind = "none"
    <3>1. AfterSave(t) = Idle /\ Idle.pc = "idle" /\ Idle.kind = "none" /\ Idle.idx = 0
      BY <2>1 DEF AfterSave, Idle
    <3>2. Fit(Idle)
      BY <3>1, <1>t DEF Fit
    <3>3. Touched(thread[t]) = {}
      BY <2>1 DEF Touched
    <3> QED BY <3>1, <3>2, <3>3, IdleFits DEF Building
  <2>2. CASE thread[t].kind # "none"
    <3> DEFINE o == [thread[t] EXCEPT !.pc = "deleted", !.idx = 0, !.copy = Empty]
    <3>1. /\ o \in Op /\ o.pc = "deleted" /\ o.idx = 0
          /\ o.kind = thread[t].kind /\ o.ids = thread[t].ids /\ o.new = thread[t].new
      <4>1. "deleted" \in Places /\ 0 \in Nat /\ Empty \in Content
        BY IdleFits DEF Places
      <4> QED BY <4>1, <1>t DEF Op
    <3>2. AfterSave(t) = o
      BY <2>2 DEF AfterSave
    <3> HIDE DEF o
    <3>3. Fit(o)
      BY <3>1, <1>t, <2>2 DEF Fit, Building
    <3>4. Touched(thread[t]) \subseteq Touched(o)
      BY <3>1 DEF Touched
    <3> QED BY <3>1, <3>2, <3>3, <3>4 DEF Building
  <2> QED BY <2>1, <2>2
<1>1. CASE SaveFind(t)
  <2>1. CASE mem = 0
    BY <1>1, <2>1, <1>a, QuietStep DEF SaveFind
  <2>2. CASE mem # 0
    <3> DEFINE o == [thread[t] EXCEPT !.pc = "saveCopy", !.idx = mem]
    <3>0. mem \in Nat /\ mem <= Len(heap) /\ mem > 0
      BY <2>2 DEF IInv, Typed
    <3>1. /\ o \in Op /\ o.pc = "saveCopy" /\ o.idx = mem
          /\ o.kind = thread[t].kind /\ o.ids = thread[t].ids /\ o.new = thread[t].new
      BY <1>t, <3>0 DEF Op, Places
    <3>2. Goto(t, o) /\ Untouched
      BY <1>1, <2>2 DEF SaveFind
    <3>p. thread[t].pc = "saveFind"
      BY <1>1 DEF SaveFind, At
    <3> HIDE DEF o
    <3>3. Fit(o) /\ o.pc \notin Building
      BY <3>0, <3>1, <1>t DEF Fit, Building
    <3>4. Touched(thread[t]) \subseteq Touched(o)
      BY <3>1 DEF Touched
    <3> QED BY <3>1, <3>2, <3>3, <3>4, QuietStep
  <2> QED BY <2>1, <2>2
<1>2. CASE SaveCopy(t)
  <2> DEFINE o == [thread[t] EXCEPT !.pc = "saveReplace", !.copy = heap[thread[t].idx]]
  <2>p. thread[t].pc = "saveCopy" /\ thread[t].idx \in Nat
    BY <1>2, <1>t DEF SaveCopy, At, Op
  <2>0. heap[thread[t].idx] \in Content
    <3>1. thread[t].idx \in 1..Len(heap)
      BY <2>p, <1>t DEF Fit
    <3> QED BY <3>1, <1>t, ElementOfSeq
  <2>1. /\ o \in Op /\ o.pc = "saveReplace" /\ o.idx = thread[t].idx
        /\ o.kind = thread[t].kind /\ o.ids = thread[t].ids /\ o.new = thread[t].new
    BY <1>t, <2>0 DEF Op, Places
  <2>2. Goto(t, o) /\ Untouched
    BY <1>2 DEF SaveCopy
  <2> HIDE DEF o
  <2>3. Fit(o) /\ o.pc \notin Building
    BY <2>1, <1>t DEF Fit, Building
  <2>4. Touched(thread[t]) \subseteq Touched(o)
    BY <2>1, <2>p DEF Touched
  <2> QED BY <2>1, <2>2, <2>3, <2>4, QuietStep
<1>3. CASE SaveReplace(t)
  <2>1. /\ Goto(t, AfterSave(t)) /\ disk' \in {thread[t].copy, disk, NoFile}
        /\ UNCHANGED <<coll, heap, mem, fromFile, lock, ghosts>>
    BY <1>3 DEF SaveReplace
  <2>2. /\ disk' \in Content \cup {NoFile} /\ coll' \in Content /\ ghosts' \subseteq Ids
        /\ ghosts \subseteq ghosts'
    <3>1. thread[t].copy \in Content /\ disk \in Content \cup {NoFile} /\ coll \in Content /\ ghosts \subseteq Ids
      BY <1>t DEF IInv, Typed, Op
    <3> QED BY <2>1, <3>1
  <2>3. Touched(thread[t]) \subseteq Touched(AfterSave(t)) \cup ghosts'
    BY <1>a
  <2> QED BY <1>a, <2>1, <2>2, <2>3, WriteStep
<1> QED BY <1>1, <1>2, <1>3

\* An operation begins: a new thread of it has written nothing yet.
LEMMA BeginStep ==
  ASSUME IInv, NEW t \in Threads, StartIngest(t) \/ StartDelete(t) \/ StartReplace(t)
  PROVE  IInv'
<1> DEFINE Fresh(p, k, S, n) == [Idle EXCEPT !.pc = p, !.kind = k, !.ids = S, !.new = n]
           Says(S, x) == [i \in Ids |-> IF i \in S THEN x ELSE NoText]
<1>1. ASSUME NEW p \in Places, NEW k \in Kinds, NEW S \in SUBSET Ids, NEW n \in Content
      PROVE  /\ Fresh(p, k, S, n) \in Op
             /\ Fresh(p, k, S, n).pc = p /\ Fresh(p, k, S, n).kind = k /\ Fresh(p, k, S, n).ids = S
             /\ Fresh(p, k, S, n).new = n /\ Fresh(p, k, S, n).idx = 0
  BY IdleFits DEF Op, Idle
<1>2. ASSUME NEW S \in SUBSET Ids, NEW x \in Texts
      PROVE  Says(S, x) \in Content /\ S \subseteq IdsIn(Says(S, x))
  <2>1. x # NoText
    BY Bm25CacheAssumption
  <2> QED BY <2>1 DEF Content, IdsIn
<1>c. IdsIn(coll) \subseteq Ids /\ Empty \in Content
  BY IdleFits DEF IdsIn
<1>3. \/ \E S \in SUBSET Ids, x \in Texts : Begin(t, Fresh("upsert", "ingest", S, Says(S, x)))
      \/ \E S \in SUBSET Ids, x \in Texts : Begin(t, Fresh("delete", "replace", S, Says(S, x)))
      \/ \E S \in SUBSET Ids : Begin(t, Fresh("delete", "delete", S, Empty))
  <2>1. CASE StartIngest(t)
    BY <2>1, <1>c, Zenon DEF StartIngest
  <2>2. CASE StartDelete(t)
    <3>1. PICK S \in (SUBSET IdsIn(coll)) \ {{}} :
            Begin(t, [Idle EXCEPT !.pc = "delete", !.kind = "delete", !.ids = S])
      BY <2>2 DEF StartDelete
    <3>2. [Idle EXCEPT !.pc = "delete", !.kind = "delete", !.ids = S] = Fresh("delete", "delete", S, Empty)
      <4> DEFINE a == [Idle EXCEPT !.pc = "delete", !.kind = "delete", !.ids = S]
                 b == Fresh("delete", "delete", S, Empty)
      <4>1. S \in SUBSET Ids /\ "delete" \in Places /\ "delete" \in Kinds
        BY <1>c DEF Places, Kinds
      <4>2. a \in Op /\ a.pc = "delete" /\ a.kind = "delete" /\ a.ids = S /\ a.new = Empty
            /\ a.idx = 0 /\ a.copy = Empty
        BY <4>1, IdleFits DEF Op, Idle
      <4>3. b \in Op /\ b.pc = "delete" /\ b.kind = "delete" /\ b.ids = S /\ b.new = Empty
            /\ b.idx = 0 /\ b.copy = Empty
        BY <4>1, IdleFits DEF Op, Idle
      <4> HIDE DEF a, b
      <4>4. a = [pc |-> a.pc, kind |-> a.kind, ids |-> a.ids, new |-> a.new, idx |-> a.idx, copy |-> a.copy]
        BY <4>2 DEF Op
      <4>5. b = [pc |-> b.pc, kind |-> b.kind, ids |-> b.ids, new |-> b.new, idx |-> b.idx, copy |-> b.copy]
        BY <4>3 DEF Op
      <4>6. a = b
        BY <4>2, <4>3, <4>4, <4>5
      <4> QED BY <4>6 DEF a, b
    <3> QED BY <1>c, <3>1, <3>2
  <2>3. CASE StartReplace(t)
    BY <2>3, <1>c, Zenon DEF StartReplace
  <2> QED BY <2>1, <2>2, <2>3
<1> HIDE DEF Fresh, Says
<1>4. ASSUME NEW p \in {"upsert", "delete"}, NEW k \in {"ingest", "delete", "replace"},
             NEW S \in SUBSET Ids, NEW n \in Content,
             p = "upsert" => k = "ingest", p = "delete" => k # "ingest",
             k # "delete" => S \subseteq IdsIn(n), Begin(t, Fresh(p, k, S, n))
      PROVE  IInv'
  <2> DEFINE o == Fresh(p, k, S, n)
  <2>0. p \in Places /\ k \in Kinds /\ p \notin Building
    BY <1>4 DEF Places, Kinds, Building
  <2>1. o \in Op /\ o.pc = p /\ o.kind = k /\ o.ids = S /\ o.new = n /\ o.idx = 0
    BY <2>0, <1>1
  <2>2. Goto(t, o) /\ Untouched /\ thread[t].pc = "idle"
    BY <1>4 DEF Begin, At
  <2> HIDE DEF o
  <2>3. Fit(o) /\ o.pc \notin Building
    <3>1. Len(heap) \in Nat
      BY DEF IInv, Typed
    <3> QED BY <1>4, <2>0, <2>1, <3>1 DEF Fit
  <2>4. Touched(thread[t]) \subseteq Touched(o)
    BY <2>2 DEF IInv, AllFit, Fit, Touched
  <2> QED BY <2>1, <2>2, <2>3, <2>4, QuietStep
<1>5. ASSUME NEW S \in SUBSET Ids, NEW x \in Texts, Begin(t, Fresh("upsert", "ingest", S, Says(S, x)))
      PROVE  IInv'
  BY <1>2, <1>4, <1>5
<1>6. ASSUME NEW S \in SUBSET Ids, NEW x \in Texts, Begin(t, Fresh("delete", "replace", S, Says(S, x)))
      PROVE  IInv'
  BY <1>2, <1>4, <1>6
<1>7. ASSUME NEW S \in SUBSET Ids, Begin(t, Fresh("delete", "delete", S, Empty))
      PROVE  IInv'
  BY <1>c, <1>4, <1>7
<1> QED BY <1>3, <1>5, <1>6, <1>7

\* A thread on its way with an operation: only its place changes.
LEMMA Onward ==
  ASSUME IInv, NEW t \in Threads, NEW p \in Places, thread[t].kind # "none"
  PROVE  LET o == [thread[t] EXCEPT !.pc = p] IN
         /\ o \in Op /\ o.pc = p /\ o.idx = thread[t].idx
         /\ o.kind = thread[t].kind /\ o.ids = thread[t].ids /\ o.new = thread[t].new
         /\ p # "delete" => Touched(thread[t]) \subseteq Touched(o)
<1> DEFINE o == [thread[t] EXCEPT !.pc = p]
<1>1. thread[t] \in Op
  BY DEF IInv, Typed
<1>2. /\ o \in Op /\ o.pc = p /\ o.idx = thread[t].idx
      /\ o.kind = thread[t].kind /\ o.ids = thread[t].ids /\ o.new = thread[t].new
  BY <1>1 DEF Op
<1> HIDE DEF o
<1>3. p # "delete" => Touched(thread[t]) \subseteq Touched(o)
  BY <1>2 DEF Touched
<1> QED BY <1>2, <1>3 DEF o

\* What an ingest writes and takes back, and the rows a delete drops, are ids it touches.
LEMMA RowsStep ==
  ASSUME IInv, NEW t \in Threads, Upsert(t) \/ Rollback(t) \/ DeleteRows(t)
  PROVE  IInv'
<1>t. /\ thread[t] \in Op /\ Fit(thread[t]) /\ Len(heap) \in Nat
      /\ coll \in Content /\ disk \in Content \cup {NoFile} /\ ghosts \subseteq Ids
      /\ thread[t].new \in Content /\ thread[t].ids \subseteq Ids
      /\ thread[t].idx <= Len(heap)
      /\ thread[t].kind # "none"
  <2>1. thread[t] \in Op /\ Fit(thread[t]) /\ thread[t].pc \in {"upsert", "rollback", "delete"}
    BY DEF IInv, Typed, AllFit, Upsert, Rollback, DeleteRows, At
  <2> QED BY <2>1 DEF IInv, Typed, Op, Fit
<1>d. /\ Put(coll, thread[t].new) \in Content /\ Drop(coll, thread[t].ids) \in Content
      /\ \A i \in Ids : i \notin IdsIn(thread[t].new) => Put(coll, thread[t].new)[i] = coll[i]
      /\ \A i \in Ids : i \notin thread[t].ids => Drop(coll, thread[t].ids)[i] = coll[i]
      /\ IdsIn(thread[t].new) \subseteq Ids
  <2> DEFINE n == thread[t].new
             S == thread[t].ids
  <2>1. n \in Content /\ S \in SUBSET Ids /\ coll \in Content
    BY <1>t
  <2> HIDE DEF n, S
  <2>2. /\ Put(coll, n) \in Content /\ Drop(coll, S) \in Content
        /\ \A i \in Ids : i \notin IdsIn(n) => Put(coll, n)[i] = coll[i]
        /\ \A i \in Ids : i \notin S => Drop(coll, S)[i] = coll[i]
    BY <2>1, PutDrop
  <2>3. IdsIn(n) \subseteq Ids
    BY <2>1, PutDrop
  <2> QED BY <2>2, <2>3 DEF n, S
<1>i. /\ Idle \in Op /\ Touched(Idle) = {} /\ Fit(Idle) /\ Idle.pc \notin Building
  <2>1. Idle.pc = "idle" /\ Idle.kind = "none" /\ Idle.idx = 0
    BY DEF Idle
  <2> QED BY <1>t, <2>1, IdleFits DEF Fit, Building
<1>1. CASE Upsert(t)
  <2>p. /\ thread[t].pc = "upsert" /\ thread[t].kind \in {"ingest", "replace"}
        /\ UNCHANGED <<heap, mem, fromFile, disk, lock, ghosts>>
        /\ coll' = Put(coll, thread[t].new)
    BY <1>1, <1>t DEF Upsert, At, Fit
  <2>g. disk' \in Content \cup {NoFile} /\ coll' \in Content /\ ghosts' \subseteq Ids /\ ghosts \subseteq ghosts'
    BY <2>p, <1>t, <1>d
  <2>1. CASE Goto(t, [thread[t] EXCEPT !.pc = "invalidate"])
    <3> DEFINE o == [thread[t] EXCEPT !.pc = "invalidate"]
    <3>0. "invalidate" \in Places /\ "invalidate" \notin Building
      BY DEF Places, Building
    <3>1. /\ o \in Op /\ o.pc = "invalidate" /\ o.idx = thread[t].idx
          /\ o.kind = thread[t].kind /\ o.ids = thread[t].ids /\ o.new = thread[t].new
          /\ Touched(thread[t]) \subseteq Touched(o)
      BY <3>0, <1>t, Onward
    <3>2. Goto(t, o)
      BY <2>1
    <3> HIDE DEF o
    <3>3. Fit(o)
      BY <3>1, <3>0, <1>t DEF Fit
    <3>4. \A i \in Ids : i \notin Touched(o) \cup ghosts' => coll'[i] = coll[i]
      BY <3>1, <1>t, <1>d, <2>p DEF Touched
    <3> QED BY <2>p, <2>g, <3>0, <3>1, <3>2, <3>3, <3>4, WriteStep
  <2>2. CASE Goto(t, [thread[t] EXCEPT !.pc = "rollback", !.ids = @ \ IdsIn(coll)])
    <3> DEFINE o == [thread[t] EXCEPT !.pc = "rollback", !.ids = @ \ IdsIn(coll)]
    <3>0. "rollback" \in Places /\ "rollback" \notin Building /\ thread[t].ids \ IdsIn(coll) \in SUBSET Ids
      BY <1>t DEF Places, Building
    <3>1. /\ o \in Op /\ o.pc = "rollback" /\ o.idx = thread[t].idx
          /\ o.kind = thread[t].kind /\ o.ids = thread[t].ids \ IdsIn(coll) /\ o.new = thread[t].new
      BY <3>0, <1>t DEF Op
    <3>2. Goto(t, o)
      BY <2>2
    <3> HIDE DEF o
    <3>s. thread[t].ids \subseteq IdsIn(thread[t].new)
      BY <1>t, <2>p DEF Fit
    <3>3. Fit(o)
      BY <3>1, <3>0, <3>s, <1>t, <2>p DEF Fit
    <3>5. Touched(thread[t]) \subseteq Touched(o)
      BY <3>1, <3>s DEF Touched
    <3>4. \A i \in Ids : i \notin Touched(o) \cup ghosts' => coll'[i] = coll[i]
      BY <3>1, <1>t, <1>d, <2>p DEF Touched
    <3> QED BY <2>p, <2>g, <3>0, <3>1, <3>2, <3>3, <3>4, <3>5, WriteStep
  <2> QED BY <1>1, <2>1, <2>2 DEF Upsert
<1>2. CASE Rollback(t)
  <2>p. /\ thread[t].pc = "rollback" /\ thread[t].kind \in {"ingest", "replace"}
        /\ UNCHANGED <<heap, mem, fromFile, disk, lock>> /\ Goto(t, Idle)
        /\ coll' = Drop(coll, thread[t].ids) /\ ghosts' = ghosts \cup IdsIn(thread[t].new)
    BY <1>2, <1>t DEF Rollback, At, Fit
  <2>s. thread[t].ids \subseteq IdsIn(thread[t].new)
    BY <1>t, <2>p DEF Fit
  <2>g. disk' \in Content \cup {NoFile} /\ coll' \in Content /\ ghosts' \subseteq Ids /\ ghosts \subseteq ghosts'
    BY <2>p, <1>t, <1>d
  <2>5. Touched(thread[t]) \subseteq Touched(Idle) \cup ghosts'
    BY <2>p, <2>s DEF Touched
  <2>4. \A i \in Ids : i \notin Touched(Idle) \cup ghosts' => coll'[i] = coll[i]
    BY <2>p, <2>s, <1>d
  <2> QED BY <1>i, <2>p, <2>g, <2>4, <2>5, WriteStep
<1>3. CASE DeleteRows(t)
  <2>p. /\ thread[t].pc = "delete" /\ Touched(thread[t]) = {}
        /\ UNCHANGED <<heap, mem, fromFile, disk, lock, ghosts>>
    BY <1>3 DEF DeleteRows, At, Touched
  <2>k. thread[t].kind \in {"delete", "replace"}
    BY <2>p, <1>t DEF Fit
  <2>1. ASSUME NEW p \in {"removeFind", "upsert"}, p = "upsert" => thread[t].kind = "replace",
               coll' = coll \/ coll' = Drop(coll, thread[t].ids),
               Goto(t, [thread[t] EXCEPT !.pc = p])
        PROVE  IInv'
    <3> DEFINE o == [thread[t] EXCEPT !.pc = p]
    <3>0. p \in Places /\ p \notin Building
      BY DEF Places, Building
    <3>1. /\ o \in Op /\ o.pc = p /\ o.idx = thread[t].idx
          /\ o.kind = thread[t].kind /\ o.ids = thread[t].ids /\ o.new = thread[t].new
      BY <3>0, <1>t, Onward
    <3>2. Goto(t, o)
      BY <2>1
    <3> HIDE DEF o
    <3>3. Fit(o)
      BY <3>1, <3>0, <1>t, <2>k, <2>1 DEF Fit
    <3>4. \A i \in Ids : i \notin Touched(o) \cup ghosts' => coll'[i] = coll[i]
      BY <3>1, <1>t, <1>d, <2>1 DEF Touched
    <3>g. disk' \in Content \cup {NoFile} /\ coll' \in Content /\ ghosts' \subseteq Ids /\ ghosts \subseteq ghosts'
      BY <2>p, <1>t, <1>d, <2>1
    <3> QED BY <2>p, <3>0, <3>g, <3>1, <3>2, <3>3, <3>4, WriteStep
  <2>2. CASE coll' = coll /\ Goto(t, Idle)
    <3>g. disk' \in Content \cup {NoFile} /\ coll' \in Content /\ ghosts' \subseteq Ids /\ ghosts \subseteq ghosts'
      BY <2>p, <1>t, <2>2
    <3>4. \A i \in Ids : i \notin Touched(Idle) \cup ghosts' => coll'[i] = coll[i]
      BY <2>2
    <3> QED BY <1>i, <2>p, <2>2, <3>g, <3>4, WriteStep
  <2> QED BY <1>3, <2>1, <2>2 DEF DeleteRows
<1> QED BY <1>1, <1>2, <1>3

\* What tells the index of a delete and what empties the dict: with the lock free nobody
\* builds, and afterwards there is no index that could differ from the collection.
LEMMA IndexStep ==
  ASSUME IInv, NEW t \in Threads,
         RemoveFind(t) \/ RemoveDo(t) \/ Deleted(t) \/ Invalidate(t) \/ Unlink(t)
  PROVE  IInv'
<1>t. /\ thread[t] \in Op /\ Fit(thread[t]) /\ Len(heap) \in Nat /\ heap \in Seq(Content)
      /\ coll \in Content /\ disk \in Content \cup {NoFile} /\ ghosts \subseteq Ids
      /\ thread[t].idx \in Nat /\ thread[t].idx <= Len(heap)
      /\ mem \in Nat /\ mem <= Len(heap)
  BY DEF IInv, Typed, AllFit, Op, Fit
<1>i. /\ Idle \in Op /\ Touched(Idle) = {} /\ Fit(Idle) /\ Idle.pc \notin Building
  <2>1. Idle.pc = "idle" /\ Idle.kind = "none" /\ Idle.idx = 0
    BY DEF Idle
  <2> QED BY <1>t, <2>1, IdleFits DEF Fit, Building
<1>1. CASE RemoveFind(t)
  <2> DEFINE p == IF mem = 0 THEN "deleted" ELSE "removeDo"
             o == [thread[t] EXCEPT !.pc = p, !.idx = mem]
  <2>0. p \in Places /\ p \notin Building /\ p \in {"deleted", "removeDo"} /\ (p = "removeDo" => mem > 0)
    BY <1>t DEF Places, Building
  <2>k. thread[t].pc = "removeFind" /\ thread[t].kind \in {"delete", "replace"}
    BY <1>1, <1>t DEF RemoveFind, At, Fit
  <2>2. Goto(t, o) /\ Untouched
    BY <1>1 DEF RemoveFind
  <2> HIDE DEF p
  <2>1. /\ o \in Op /\ o.pc = p /\ o.idx = mem
        /\ o.kind = thread[t].kind /\ o.ids = thread[t].ids /\ o.new = thread[t].new
    BY <2>0, <1>t DEF Op
  <2> HIDE DEF o
  <2>3. Fit(o) /\ o.pc \notin Building
    BY <2>0, <2>1, <2>k, <1>t DEF Fit
  <2>4. Touched(thread[t]) \subseteq Touched(o)
    BY <2>0, <2>1 DEF Touched
  <2> QED BY <2>1, <2>2, <2>3, <2>4, QuietStep
<1>2. CASE RemoveDo(t)
  <2> DEFINE p == IF Persist THEN "saveFind" ELSE "deleted"
             n == thread[t].idx
  <2>0. p \in Places /\ p \notin Building /\ p \in {"deleted", "saveFind"}
    BY DEF Places, Building
  <2>k. thread[t].pc = "removeDo" /\ thread[t].kind \in {"delete", "replace"} /\ n \in 1..Len(heap)
    BY <1>2, <1>t DEF RemoveDo, At, Fit
  <2>e. /\ Goto(t, [thread[t] EXCEPT !.pc = p, !.idx = 0])
        /\ heap' = [heap EXCEPT ![n] = Drop(@, thread[t].ids)]
        /\ UNCHANGED <<coll, mem, fromFile, disk, lock, ghosts>>
    BY <1>2 DEF RemoveDo
  <2> HIDE DEF p
  <2>o. PICK o \in Op : o = [thread[t] EXCEPT !.pc = p, !.idx = 0]
    BY <2>0, <1>t DEF Op
  <2>2. Goto(t, o)
    BY <2>e, <2>o
  <2>1. /\ o \in Op /\ o.pc = p /\ o.idx = 0 /\ o.pc # "delete"
        /\ o.kind = thread[t].kind /\ o.ids = thread[t].ids /\ o.new = thread[t].new
    BY <2>0, <2>o, <1>t DEF Op
  <2>h. /\ heap' \in Seq(Content) /\ Len(heap') = Len(heap)
        /\ heap'[n] = Drop(heap[n], thread[t].ids)
        /\ \A m \in 1..Len(heap) : m # n => heap'[m] = heap[m]
        /\ heap[n] \in Content
    <3>1. heap[n] \in Content
      BY <2>k, <1>t, ElementOfSeq
    <3>2. Drop(heap[n], thread[t].ids) \in Content
      BY <3>1, <1>t DEF Drop, Content, Op
    <3> HIDE DEF n
    <3> QED BY <3>1, <3>2, <2>e, <2>k, <1>t
  <2>3. Fit(o)' /\ Len(heap') \in Nat /\ Len(heap') >= Len(heap)
    BY <2>0, <2>1, <2>k, <2>h, <1>t DEF Fit
  <2>4. thread' \in [Threads -> Op] /\ AllFit' /\ thread'[t] = o
    BY <2>1, <2>2, <2>3, GotoFits DEF IInv
  <2>5. Typed'
    BY <2>e, <2>4, <2>h DEF IInv, Typed
  <2>6. Locked'
    BY <2>0, <2>1, <2>2, <2>e, LockedKept DEF IInv
  <2>7. Same'
    <3>1. Touched(thread[t]) = thread[t].ids \cup IdsIn(thread[t].new) /\ Touched(o) = Touched(thread[t])
      BY <2>1, <2>k DEF Touched
    <3>2. ASSUME NEW i \in Ids, Settled(i)'
          PROVE  Settled(i) /\ coll'[i] = coll[i] /\ (mem # 0 => heap'[mem][i] = heap[mem][i])
      <4>1. Settled(i) /\ i \notin Touched(thread[t])
        BY <3>1, <3>2, <2>1, <2>2, <2>e, GotoSettles DEF IInv
      <4>2. Drop(heap[n], thread[t].ids)[i] = heap[n][i]
        BY <4>1, <3>1 DEF Drop
      <4>3. mem # 0 => heap'[mem][i] = heap[mem][i]
        BY <4>2, <2>h, <1>t
      <4> QED BY <4>1, <4>3, <2>e
    <3>3. o.pc \notin {"load", "publish"}
      BY <2>0, <2>1
    <3> QED BY <2>1, <2>2, <2>e, <3>2, <3>3, SameKept DEF IInv
  <2> QED BY <2>4, <2>5, <2>6, <2>7 DEF IInv
<1>3. CASE Deleted(t)
  <2> DEFINE p == IF thread[t].kind = "replace" THEN "upsert" ELSE "invalidate"
             o == [thread[t] EXCEPT !.pc = p]
  <2>0. p \in Places /\ p \notin Building /\ p \in {"upsert", "invalidate"} /\ (p = "upsert" => thread[t].kind = "replace")
    BY DEF Places, Building
  <2>k. thread[t].pc = "deleted" /\ thread[t].kind \in {"delete", "replace"}
    BY <1>3, <1>t DEF Deleted, At, Fit
  <2>2. Goto(t, o) /\ Untouched
    BY <1>3 DEF Deleted
  <2> HIDE DEF p
  <2>1. /\ o \in Op /\ o.pc = p /\ o.idx = thread[t].idx
        /\ o.kind = thread[t].kind /\ o.ids = thread[t].ids /\ o.new = thread[t].new
        /\ Touched(thread[t]) \subseteq Touched(o)
    BY <2>0, <2>k, Onward
  <2> HIDE DEF o
  <2>3. Fit(o) /\ o.pc \notin Building
    BY <2>0, <2>1, <2>k, <1>t DEF Fit
  <2> QED BY <2>1, <2>2, <2>3, QuietStep
<1>4. CASE Invalidate(t)
  <2>o. PICK o \in Op : o = IF mem = 0 THEN Idle ELSE [Idle EXCEPT !.pc = "unlink"]
    <3>1. "unlink" \in Places
      BY DEF Places
    <3> QED BY <3>1, IdleFits
  <2>1. /\ o \in Op /\ o.pc \in {"idle", "unlink"} /\ o.kind = "none" /\ o.idx = 0
    BY <2>o DEF Idle
  <2>2. /\ Goto(t, o) /\ mem' = 0 /\ ghosts' = {} /\ Unlocked
        /\ UNCHANGED <<coll, heap, fromFile, disk, lock>>
    BY <1>4, <2>o DEF Invalidate, Clear
  <2>3. Fit(o)' /\ Len(heap') \in Nat /\ Len(heap') >= Len(heap)
    BY <2>1, <2>2, <1>t DEF Fit
  <2>4. thread' \in [Threads -> Op] /\ AllFit' /\ thread'[t] = o
        /\ \A u \in Threads : u # t => thread'[u] = thread[u]
    BY <2>1, <2>2, <2>3, GotoFits DEF IInv
  <2>5. Typed'
    BY <2>2, <2>4 DEF IInv, Typed
  <2>6. Locked'
    BY <2>1, <2>2, LockedKept DEF IInv, Building
  <2>7. Same'
    <3>1. \A u \in Threads : thread'[u].pc \notin Building
      <4>1. \A u \in Threads : thread[u].pc \notin Building
        BY <2>2, Bm25CacheAssumption DEF IInv, Locked, Unlocked
      <4> QED BY <4>1, <2>1, <2>4 DEF Building
    <3> QED BY <3>1, <2>2 DEF Same, Agrees, Building
  <2> QED BY <2>4, <2>5, <2>6, <2>7 DEF IInv
<1>5. CASE Unlink(t)
  <2>1. /\ Goto(t, Idle) /\ disk' = NoFile /\ thread[t].pc = "unlink"
        /\ UNCHANGED <<coll, heap, mem, fromFile, lock, ghosts>>
    BY <1>5 DEF Unlink, At
  <2>2. Touched(thread[t]) \subseteq Touched(Idle) \cup ghosts'
    BY <2>1, <1>t DEF Fit, Touched
  <2>3. /\ disk' \in Content \cup {NoFile} /\ coll' \in Content /\ ghosts' \subseteq Ids
        /\ ghosts \subseteq ghosts'
    BY <2>1, <1>t
  <2> QED BY <1>i, <2>1, <2>2, <2>3, WriteStep
<1> QED BY <1>1, <1>2, <1>3, <1>4, <1>5

\* A builder on its way: what it reads is what the collection says now.
LEMMA ReadingStep ==
  ASSUME IInv, NEW t \in Threads, NEW o \in Op, Goto(t, o),
         UNCHANGED <<coll, heap, mem, fromFile, disk, ghosts>>,
         lock' = t, lock \in {t, NoThread}, o.pc \in Building, o.kind = "none", o.idx <= Len(heap),
         thread[t].kind = "none",
         o.pc = "load" => o.ids = IdsIn(coll),
         o.pc = "publish" => o.copy = coll
  PROVE  IInv'
<1>t. Len(heap) \in Nat
  BY DEF IInv, Typed
<1>1. Fit(o)' /\ Len(heap') \in Nat /\ Len(heap') >= Len(heap)
  BY <1>t DEF Fit, Building
<1>2. thread' \in [Threads -> Op] /\ AllFit' /\ thread'[t] = o
      /\ \A u \in Threads : u # t => thread'[u] = thread[u]
  BY <1>1, GotoFits DEF IInv
<1>3. Typed'
  BY <1>2 DEF IInv, Typed
<1>4. Locked'
  BY <1>2, Bm25CacheAssumption DEF IInv, Locked
<1>5. Same'
  <2>1. ASSUME NEW i \in Ids, Settled(i)' PROVE Agrees(i)'
    <3>1. Agrees(i)
      <4>1. Touched(thread[t]) \subseteq Touched(o) \cup ghosts' /\ ghosts \subseteq ghosts'
        BY DEF Touched
      <4>2. Settled(i)
        BY <2>1, <4>1, GotoSettles DEF IInv
      <4> QED BY <4>2 DEF IInv, Same
    <3>2. o.pc = "load" => (i \in o.ids <=> coll'[i] # NoText)
      BY DEF IdsIn
    <3>3. o.pc = "publish" => o.copy[i] = coll'[i]
      OBVIOUS
    <3>4. ASSUME NEW u \in Threads
          PROVE  /\ thread'[u].pc = "load" => (i \in thread'[u].ids <=> coll'[i] # NoText)
                 /\ thread'[u].pc = "publish" => thread'[u].copy[i] = coll'[i]
      BY <1>2, <3>1, <3>2, <3>3 DEF Agrees
    <3> QED BY <3>1, <3>4 DEF Agrees
  <2> QED BY <2>1 DEF Same
<1> QED BY <1>2, <1>3, <1>4, <1>5 DEF IInv

\* The object a builder or a loader makes becomes the index of the dict.
LEMMA PublishStep ==
  ASSUME IInv, NEW t \in Threads, NEW c \in Content, NEW o \in Op, Goto(t, o),
         Publish(t, c), UNCHANGED <<coll, disk, ghosts>>,
         lock = t, thread[t].kind = "none",
         o.kind = "none", o.idx = 0, o.pc \in {"idle", "saveFind"},
         \/ fromFile' = fromFile
         \/ fromFile' = fromFile \cup {Len(heap) + 1},
         \A i \in Ids : Settled(i) => (c[i] = NoText <=> coll[i] = NoText),
         fromFile' = fromFile => \A i \in Ids : Settled(i) => c[i] = coll[i]
  PROVE  IInv'
<1>t. Len(heap) \in Nat /\ heap \in Seq(Content) /\ mem \in Nat
  BY DEF IInv, Typed
<1>h. /\ heap' \in Seq(Content) /\ Len(heap') = Len(heap) + 1 /\ heap'[Len(heap) + 1] = c
      /\ mem' = Len(heap) + 1 /\ lock' = NoThread
  BY <1>t DEF Publish
<1>1. Fit(o)' /\ Len(heap') \in Nat /\ Len(heap') >= Len(heap)
  BY <1>t, <1>h DEF Fit, Building
<1>2. thread' \in [Threads -> Op] /\ AllFit' /\ thread'[t] = o
      /\ \A u \in Threads : u # t => thread'[u] = thread[u]
  BY <1>1, GotoFits DEF IInv
<1>3. Typed'
  <2>1. \A n \in fromFile' : n \in Nat /\ 1 <= n /\ n <= Len(heap')
    BY <1>t, <1>h DEF IInv, Typed
  <2>2. mem' \in Nat /\ mem' <= Len(heap')
    BY <1>t, <1>h
  <2> QED BY <1>2, <1>h, <2>1, <2>2 DEF IInv, Typed
<1>n. \A u \in Threads : thread'[u].pc \notin Building
  BY <1>2 DEF IInv, Locked, Building
<1>4. Locked'
  BY <1>n DEF Locked
<1>5. Same'
  <2>1. ASSUME NEW i \in Ids, Settled(i)' PROVE Agrees(i)'
    <3>1. Settled(i)
      <4>1. Touched(thread[t]) \subseteq Touched(o) \cup ghosts' /\ ghosts \subseteq ghosts'
        BY DEF Touched
      <4> QED BY <2>1, <4>1, GotoSettles DEF IInv
    <3>2. heap'[mem'][i] = NoText <=> coll'[i] = NoText
      BY <3>1, <1>h
    <3>3. mem' \notin fromFile' => heap'[mem'][i] = coll'[i]
      <4>1. fromFile' # fromFile => mem' \in fromFile'
        BY <1>h
      <4> QED BY <4>1, <3>1, <1>h
    <3> QED BY <3>2, <3>3, <1>n DEF Agrees, Building
  <2> QED BY <2>1 DEF Same
<1> QED BY <1>2, <1>3, <1>4, <1>5 DEF IInv

LEMMA BuildStep ==
  ASSUME IInv, NEW t \in Threads,
         StartBuild(t) \/ LiveIds(t) \/ Load(t) \/ AllDocs(t) \/ PublishBuilt(t)
  PROVE  IInv'
<1>t. /\ thread[t] \in Op /\ thread[t].kind = "none" /\ coll \in Content /\ IdsIn(coll) \in SUBSET Ids
      /\ disk \in Content \cup {NoFile} /\ thread[t].copy \in Content
      /\ thread[t].idx <= Len(heap) /\ 0 <= Len(heap)
  <2>1. thread[t].pc \in Building \cup {"idle"} /\ thread[t] \in Op /\ Fit(thread[t]) /\ coll \in Content
    BY DEF IInv, Typed, AllFit, StartBuild, LiveIds, Load, AllDocs, PublishBuilt, At, Building
  <2> QED BY <2>1 DEF Op, Fit, IdsIn, IInv, Typed
<1>l. thread[t].pc \in Building => lock = t
  BY DEF IInv, Locked
<1>1. CASE StartBuild(t)
  <2> DEFINE p == IF Persist THEN "liveIds" ELSE "allDocs"
             o == [Idle EXCEPT !.pc = p]
  <2>0. p \in Places /\ p \in Building /\ p \notin {"load", "publish"}
    BY DEF Places, Building
  <2>2. Goto(t, o) /\ lock' = t /\ lock = NoThread /\ UNCHANGED <<coll, heap, mem, fromFile, disk, ghosts>>
    BY <1>1 DEF StartBuild, Unlocked
  <2> HIDE DEF p
  <2>1. o \in Op /\ o.pc = p /\ o.kind = "none" /\ o.idx = 0
    BY <2>0, IdleFits DEF Idle
  <2> HIDE DEF o
  <2> QED BY <2>0, <2>1, <2>2, <1>t, ReadingStep
<1>2. CASE LiveIds(t)
  <2> DEFINE o == [thread[t] EXCEPT !.pc = "load", !.ids = IdsIn(coll)]
  <2>0. "load" \in Places /\ "load" \in Building
    BY DEF Places, Building
  <2>2. /\ Goto(t, o) /\ lock' = lock /\ lock = t /\ UNCHANGED <<coll, heap, mem, fromFile, disk, ghosts>>
        /\ thread[t].pc = "liveIds"
    BY <1>2, <1>l DEF LiveIds, Untouched, At, Building
  <2>1. /\ o \in Op /\ o.pc = "load" /\ o.kind = "none" /\ o.idx = thread[t].idx /\ o.ids = IdsIn(coll)
    BY <2>0, <1>t DEF Op
  <2> HIDE DEF o
  <2> QED BY <2>0, <2>1, <2>2, <1>t, ReadingStep
<1>3. CASE AllDocs(t)
  <2> DEFINE o == [thread[t] EXCEPT !.pc = "publish", !.copy = coll]
  <2>0. "publish" \in Places /\ "publish" \in Building
    BY DEF Places, Building
  <2>2. /\ Goto(t, o) /\ lock' = lock /\ lock = t /\ UNCHANGED <<coll, heap, mem, fromFile, disk, ghosts>>
        /\ thread[t].pc = "allDocs"
    BY <1>3, <1>l DEF AllDocs, Untouched, At, Building
  <2>1. /\ o \in Op /\ o.pc = "publish" /\ o.kind = "none" /\ o.idx = thread[t].idx /\ o.copy = coll
    BY <2>0, <1>t DEF Op
  <2> HIDE DEF o
  <2> QED BY <2>0, <2>1, <2>2, <1>t, ReadingStep
<1>4. CASE Load(t)
  <2>p. thread[t].pc = "load" /\ lock = t
    BY <1>4, <1>l DEF Load, At, Building
  <2>1. CASE Goto(t, [thread[t] EXCEPT !.pc = "allDocs"]) /\ Untouched
    <3> DEFINE o == [thread[t] EXCEPT !.pc = "allDocs"]
    <3>0. "allDocs" \in Places /\ "allDocs" \in Building
      BY DEF Places, Building
    <3>1. /\ o \in Op /\ o.pc = "allDocs" /\ o.kind = "none" /\ o.idx = thread[t].idx
      BY <3>0, <1>t DEF Op
    <3>2. /\ Goto(t, o) /\ lock' = lock /\ UNCHANGED <<coll, heap, mem, fromFile, disk, ghosts>>
      BY <2>1 DEF Untouched
    <3> HIDE DEF o
    <3> QED BY <3>0, <3>1, <3>2, <2>p, <1>t, ReadingStep
  <2>2. CASE /\ disk # NoFile /\ Fits(disk, thread[t].ids) /\ Publish(t, disk)
             /\ fromFile' = fromFile \cup {Len(heap) + 1} /\ Goto(t, Idle)
             /\ UNCHANGED <<coll, disk, ghosts>>
    <3>1. Idle \in Op /\ Idle.pc = "idle" /\ Idle.kind = "none" /\ Idle.idx = 0 /\ disk \in Content
      BY <1>t, <2>2, IdleFits DEF Idle
    <3>2. \A i \in Ids : Settled(i) => (disk[i] = NoText <=> coll[i] = NoText)
      <4>1. \A i \in Ids : disk[i] # NoText <=> i \in thread[t].ids
        BY <2>2 DEF Fits, IdsIn
      <4>2. \A i \in Ids : Settled(i) => (i \in thread[t].ids <=> coll[i] # NoText)
        BY <2>p DEF IInv, Same, Agrees
      <4> QED BY <4>1, <4>2
    <3>3. fromFile' # fromFile
      BY <2>2 DEF IInv, Typed
    <3> QED BY <2>p, <2>2, <3>1, <3>2, <3>3, <1>t, PublishStep
  <2> QED BY <1>4, <2>1, <2>2 DEF Load
<1>5. CASE PublishBuilt(t)
  <2>p. /\ thread[t].pc = "publish" /\ lock = t /\ Publish(t, thread[t].copy)
        /\ UNCHANGED <<coll, fromFile, disk, ghosts>>
    BY <1>5, <1>l DEF PublishBuilt, At, Building
  <2>1. \A i \in Ids : Settled(i) => thread[t].copy[i] = coll[i]
    BY <2>p DEF IInv, Same, Agrees
  <2> DEFINE o == IF Persist THEN [Idle EXCEPT !.pc = "saveFind"] ELSE Idle
  <2>2. o \in Op /\ o.pc \in {"idle", "saveFind"} /\ o.kind = "none" /\ o.idx = 0
    <3>1. "saveFind" \in Places
      BY DEF Places
    <3> QED BY <3>1, IdleFits DEF Idle
  <2>3. Goto(t, o)
    BY <1>5 DEF PublishBuilt
  <2> HIDE DEF o
  <2> QED BY <2>p, <2>1, <2>2, <2>3, <1>t, PublishStep
<1> QED BY <1>1, <1>2, <1>3, <1>4, <1>5

LEMMA RestartStep == IInv /\ Restart => IInv'
<1> SUFFICES ASSUME IInv, Restart PROVE IInv'
  OBVIOUS
<1>1. /\ mem' = 0 /\ lock' = NoThread /\ ghosts' = {} /\ UNCHANGED <<coll, heap, fromFile, disk>>
      /\ thread' = [t \in Threads |-> Idle]
  BY DEF Restart
<1>2. \A t \in Threads : thread'[t] = Idle
  BY <1>1
<1>3. Idle.pc = "idle" /\ Idle.kind = "none" /\ Idle.idx = 0 /\ Idle \in Op
  BY IdleFits DEF Idle
<1>4. Typed'
  <2>1. thread' \in [Threads -> Op] /\ Len(heap) \in Nat
    BY <1>1, <1>3 DEF IInv, Typed
  <2> QED BY <1>1, <2>1 DEF IInv, Typed
<1>5. AllFit'
  <2>1. Len(heap') \in Nat
    BY <1>4 DEF Typed
  <2> QED BY <2>1, <1>2, <1>3 DEF AllFit, Fit, Building
<1>6. Locked' /\ Same'
  BY <1>1, <1>2, <1>3 DEF Locked, Same, Agrees, Building
<1> QED BY <1>4, <1>5, <1>6 DEF IInv

LEMMA NextIInv == IInv /\ [Next]_vars => IInv'
<1> SUFFICES ASSUME IInv, [Next]_vars PROVE IInv'
  OBVIOUS
<1>1. ASSUME NEW t \in Threads, Step(t) PROVE IInv'
  BY <1>1, SaveStep, BeginStep, RowsStep, IndexStep, BuildStep DEF Step
<1>2. CASE Restart
  BY <1>2, RestartStep
<1>3. CASE UNCHANGED vars
  BY <1>3 DEF vars, bounds, IInv, Typed, AllFit, Fit, Locked, Same, Agrees, Settled, Touched
<1> QED BY <1>1, <1>2, <1>3 DEF Next

-----------------------------------------------------------------------------
(* What it comes to. *)

\* The invariant the three theorems rest on.
THEOREM AgreesAlways == Spec => []IInv
<1> QED BY InitIInv, NextIInv, PTL DEF Spec

\* The collection, the objects, the file and the threads have their types.
THEOREM TypeCorrect == Spec => []TypeOK
<1>1. ASSUME IInv PROVE TypeOK
  <2>1. Len(heap) \in Nat
    BY <1>1 DEF IInv, Typed
  <2>2. mem \in 0..Len(heap) /\ fromFile \subseteq 1..Len(heap)
    BY <1>1, <2>1 DEF IInv, Typed
  <2>3. ASSUME NEW t \in Threads PROVE thread[t].pc \in Places /\ thread[t].idx \in 0..Len(heap)
    <3>1. thread[t] \in Op /\ thread[t].idx <= Len(heap)
      BY <1>1 DEF IInv, Typed, AllFit, Fit
    <3> QED BY <2>1, <3>1 DEF Op
  <2> QED BY <1>1, <2>2, <2>3 DEF IInv, Typed, TypeOK
<1> QED BY <1>1, AgreesAlways, PTL

\* When no operation is under way only the ghosts are in doubt.
LEMMA RefreshedSettles ==
  ASSUME Refreshed, NEW i \in Ids \ ghosts
  PROVE  Settled(i)
BY DEF Refreshed, Settled, Touched

\* Once the operations on the corpus have refreshed the index, the index that queries get
\* knows exactly the chunks of the collection (get_or_build_index, invalidate).
THEOREM IdsCurrentAlways == Spec => []IdsCurrent
<1>1. ASSUME IInv PROVE IdsCurrent
  <2> SUFFICES ASSUME Refreshed, mem # 0 PROVE IdsIn(heap[mem]) \ ghosts = IdsIn(coll) \ ghosts
    BY DEF IdsCurrent
  <2>1. \A i \in Ids \ ghosts : heap[mem][i] = NoText <=> coll[i] = NoText
    BY <1>1, RefreshedSettles DEF IInv, Same, Agrees
  <2> QED BY <2>1 DEF IdsIn
<1> QED BY <1>1, AgreesAlways, PTL

\* And one that was built, not loaded, has their text.
THEOREM BuiltIsCurrentAlways == Spec => []BuiltIsCurrent
<1>1. ASSUME IInv PROVE BuiltIsCurrent
  BY <1>1, RefreshedSettles DEF IInv, Same, Agrees, BuiltIsCurrent
<1> QED BY <1>1, AgreesAlways, PTL
=============================================================================
