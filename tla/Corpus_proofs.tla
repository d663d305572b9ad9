--------------------------- MODULE Corpus_proofs ---------------------------
(***************************************************************************)
(* Proofs about module Corpus: the types, for any papers, slots, workers   *)
(* and mixture of operations; RollbackOnlyOwn and LogRowsAreBacked for     *)
(* operations that do not share papers (~Overlap); NoSilentDivergence for  *)
(* those, when none of them purges through the API, which leaves the log.  *)
(*                                                                         *)
(* An operation writes rows of its own papers only (Shape), and a call     *)
(* that timed out those of papers in doubt (LateSuspect).  So while        *)
(* add_documents runs, a row of its papers that comes to be there was      *)
(* written by itself or is in doubt (OwnRows), and what it wrote stays as  *)
(* it wrote it or is in doubt (Backed).  NoSilentDivergence needs to know  *)
(* how far each operation has got with each paper (Story, below).          *)
(***************************************************************************)
EXTENDS Corpus, TLAPS

Rows == [Ids -> Chunk \cup {NoChunk}]
Logs == [Papers -> Content \cup {NoRow}]
Sources == {<<>>} \cup UNION {[S -> Versions] : S \in SUBSET Papers}
Doing == {"none", "ingest", "delete", "reindex", "replay", "backfill", "purgeRoute", "purgeCli", "patch"}
Places == {"idle", "check", "embed", "delGet", "delDo", "cascade", "preexist", "upsert", "rollback",
           "record", "reset", "replay", "backfill", "purge", "clearLog", "patch"}
Op == [kind : Doing, pc : Places, scope : SUBSET Papers, src : Sources, todo : SUBSET Papers,
       prep : SUBSET Papers, dels : SUBSET Papers, target : SUBSET Papers, ids : SUBSET Ids,
       new : Rows, left : SUBSET Ids, pre : SUBSET Ids, preKnown : BOOLEAN,
       attempted : SUBSET Ids, created : SUBSET Ids, events : Logs]

Budgeted ==
  /\ faults \in Nat /\ faults <= MaxFaults
  /\ timeouts \in Nat /\ timeouts <= MaxTimeouts
  /\ crashes \in Nat /\ crashes <= MaxCrashes
  /\ started \in Nat /\ started <= MaxOps

Typed ==
  /\ chroma \in Rows /\ log \in Logs /\ late \subseteq Call
  /\ reported \subseteq Papers /\ suspect \subseteq Papers
  /\ op \in [Workers -> Op]
  /\ Budgeted

\* What an operation works on is within its papers.
Shape(o) ==
  /\ o.todo \subseteq o.scope /\ o.prep \subseteq o.scope
  /\ o.dels \subseteq o.scope /\ o.target \subseteq o.scope
  /\ \A i \in o.ids : i[1] \in o.scope
  /\ \A i \in Present(o.new) : i[1] \in o.scope
  /\ o.pc \in {"upsert", "rollback"} => o.left \subseteq Present(o.new) /\ o.attempted \subseteq Present(o.new)
  /\ o.kind \in {"ingest", "reindex"} => \A p \in o.todo : o.src[p] \in Versions
  /\ o.pc = "check" => o.kind \in {"ingest", "reindex"}
  /\ o.kind = "replay" => \A p \in o.todo : o.events[p] # NoRow
  /\ o.pc \in {"reset", "replay"} => o.kind = "replay"
  /\ o.pc \in {"reset", "purge"} => o.scope = Papers

TInv == Typed /\ \A w \in Workers : Shape(op[w])

\* Of the rows add_documents handles, those that were not there before and are there now.
OwnRows(o, ch, doubt) ==
  o.pc \in {"upsert", "rollback"} /\ o.preKnown =>
    \A i \in Present(o.new) : ch[i] # NoChunk /\ i \notin o.pre => i \in o.created \/ i[1] \in doubt

\* Of the rows a log row is going to list, those that have been written, or were read.
Backed(o, ch, doubt) ==
  /\ o.pc = "upsert" => \A i \in Present(o.new) : i \notin o.left /\ i[1] \notin doubt => ch[i] = o.new[i]
  /\ o.pc \in {"record", "backfill"} => \A i \in Present(o.new) : i[1] \notin doubt => ch[i] = o.new[i]

Kept(o, ch, doubt) == OwnRows(o, ch, doubt) /\ Backed(o, ch, doubt)

Disjoint == \A w, u \in Workers : w # u => op[w].scope \cap op[u].scope = {}
LateSuspect == \A c \in late : Touched(c) \subseteq suspect

SInv == ~Overlap /\ Disjoint /\ LateSuspect /\ \A w \in Workers : Kept(op[w], chroma, suspect)

-----------------------------------------------------------------------------
(* Rows, calls and operations. *)

LEMMA IdsArePairs == \A i \in Ids : i[1] \in Papers /\ i[2] \in Slots /\ i = <<i[1], i[2]>>
  BY DEF Ids

LEMMA EmptyRows == Empty \in Rows /\ Present(Empty) = {}
  BY DEF Empty, Rows, Present

LEMMA IdleShape ==
  /\ Idle \in Op /\ Shape(Idle) /\ Idle.scope = {} /\ Idle.pc = "idle"
  /\ \A ch, doubt : Kept(Idle, ch, doubt)
<1>1. [p \in Papers |-> NoRow] \in Logs
  BY DEF Logs
<1>2. <<>> \in Sources /\ "none" \in Doing /\ "idle" \in Places
  BY DEF Sources, Doing, Places
<1>3. Idle \in Op
  BY <1>1, <1>2, EmptyRows DEF Idle, Op
<1>4. /\ Idle.scope = {} /\ Idle.pc = "idle" /\ Idle.kind = "none" /\ Idle.new = Empty /\ Idle.ids = {}
      /\ Idle.todo = {} /\ Idle.prep = {} /\ Idle.dels = {} /\ Idle.target = {}
  BY DEF Idle
<1>5. Shape(Idle)
  BY <1>4, EmptyRows DEF Shape
<1>6. \A ch, doubt : Kept(Idle, ch, doubt)
  BY <1>4 DEF Kept, OwnRows, Backed
<1> QED BY <1>3, <1>4, <1>5, <1>6

LEMMA OverlayRows ==
  ASSUME NEW a \in Rows, NEW b \in Rows
  PROVE  /\ Overlay(a, b) \in Rows
         /\ \A i \in Present(Overlay(a, b)) : i \in Present(a) \/ i \in Present(b)
  BY DEF Overlay, Rows, Present

LEMMA BuiltRows ==
  ASSUME NEW p \in Papers, NEW v \in Versions
  PROVE  BuiltChunks(p, v) \in Rows /\ \A i \in Present(BuiltChunks(p, v)) : i[1] = p
<1>1. [ver |-> v, edited |-> FALSE] \in Chunk
  BY DEF Chunk
<1> QED BY <1>1 DEF BuiltChunks, Rows, Present

LEMMA ContentOfRows ==
  ASSUME NEW a \in Rows, NEW p \in Papers
  PROVE  ChunksOf(a, p) \in Content
  BY DEF ChunksOf, Rows, Content, Ids

\* The rows a call writes.
RowsOf(c) == Present(c.put) \cup c.drop \cup c.edit

LEMMA CallTouches ==
  ASSUME NEW c \in Call
  PROVE  Touched(c) \subseteq Papers /\ \A i \in RowsOf(c) : i \in Ids /\ i[1] \in Touched(c)
  BY IdsArePairs DEF Touched, RowsOf, Call, Present

LEMMA AfterRows ==
  ASSUME NEW a \in Rows, NEW c \in Call
  PROVE  /\ After(a, c) \in Rows
         /\ \A i \in Ids : i \notin RowsOf(c) => After(a, c)[i] = a[i]
         /\ c.edit = {} => \A i \in Ids : After(a, c)[i] =
              IF i \in c.drop THEN NoChunk ELSE IF c.put[i] = NoChunk THEN a[i] ELSE c.put[i]
<1> DEFINE b == Overlay(a, c.put)
           d == Without(b, c.drop)
           e == Edited(d, c.edit)
<1>0. c.put \in Rows /\ c.drop \subseteq Ids /\ c.edit \subseteq Ids
  BY DEF Call, Rows
<1>1. b \in Rows /\ \A i \in Ids : b[i] = IF c.put[i] = NoChunk THEN a[i] ELSE c.put[i]
  BY <1>0, OverlayRows DEF Overlay
<1> HIDE DEF b
<1>2. d \in Rows /\ \A i \in Ids : d[i] = IF i \in c.drop THEN NoChunk ELSE b[i]
  BY <1>1 DEF Without, Rows
<1> HIDE DEF d
<1>3. \A i \in Ids : e[i] = IF i \in c.edit /\ d[i] # NoChunk THEN [d[i] EXCEPT !.edited = TRUE] ELSE d[i]
  BY DEF Edited
<1>4. e \in Rows
  <2>1. ASSUME NEW i \in Ids, d[i] # NoChunk PROVE [d[i] EXCEPT !.edited = TRUE] \in Chunk
    <3>1. d[i] \in Chunk
      BY <1>2, <2>1 DEF Rows
    <3> QED BY <3>1 DEF Chunk
  <2> QED BY <1>2, <2>1 DEF Edited, Rows
<1>5. After(a, c) = e
  BY DEF After, b, d
<1> HIDE DEF e
<1> QED BY <1>0, <1>1, <1>2, <1>3, <1>4, <1>5 DEF RowsOf, Present

LEMMA UpsertCall ==
  ASSUME NEW a \in Rows
  PROVE  /\ Upsert(a) \in Call /\ RowsOf(Upsert(a)) = Present(a)
         /\ Upsert(a).put = a /\ Upsert(a).drop = {} /\ Upsert(a).edit = {}
  BY DEF Upsert, Call, RowsOf, Rows

LEMMA DeleteCall ==
  ASSUME NEW S \in SUBSET Ids
  PROVE  /\ Delete(S) \in Call /\ RowsOf(Delete(S)) = S
         /\ Delete(S).put = Empty /\ Delete(S).drop = S /\ Delete(S).edit = {}
  BY EmptyRows DEF Delete, Call, RowsOf, Rows

LEMMA UpdateCall ==
  ASSUME NEW S \in SUBSET Ids
  PROVE  Update(S) \in Call /\ RowsOf(Update(S)) = S
  BY EmptyRows DEF Update, Call, RowsOf, Rows

-----------------------------------------------------------------------------
(* What a step of w does to the stores: rows of its papers only. *)

Effect(w) ==
  /\ chroma' \in Rows /\ log' \in Logs /\ late' \subseteq Call
  /\ \A i \in Ids : i[1] \notin op[w].scope => chroma'[i] = chroma[i]
  /\ Budgeted'

LEMMA BudgetKept ==
  ASSUME Budgeted, NoFault \/ Refused
  PROVE  Budgeted'
<1>1. MaxFaults \in Nat
  BY CorpusAssumption
<1> QED BY <1>1 DEF Budgeted, NoFault, Refused, budget

LEMMA ReadEffect ==
  ASSUME TInv, NEW w \in Workers, UNCHANGED <<chroma, late>>, log' \in Logs, NoFault \/ Refused
  PROVE  Effect(w)
  BY BudgetKept DEF TInv, Typed, Effect

LEMMA ReadOnlyEffect ==
  ASSUME TInv, NEW w \in Workers, ReadOnly, NoFault \/ Refused
  PROVE  Effect(w)
<1>1. log' \in Logs
  BY DEF ReadOnly, TInv, Typed
<1> QED BY <1>1, ReadEffect DEF ReadOnly

LEMMA DoneEffect ==
  ASSUME TInv, NEW w \in Workers, NEW c \in Call, Done(c), UNCHANGED log,
         \A i \in RowsOf(c) : i[1] \in op[w].scope
  PROVE  Effect(w) /\ late' = late /\ chroma' = After(chroma, c)
<1>1. chroma' = After(chroma, c) /\ late' = late /\ NoFault
  BY DEF Done, Applied
<1>2. chroma \in Rows /\ log \in Logs /\ late \subseteq Call /\ Budgeted
  BY DEF TInv, Typed
<1>3. Budgeted'
  BY <1>1, <1>2, BudgetKept
<1>4. /\ After(chroma, c) \in Rows
      /\ \A i \in Ids : i \notin RowsOf(c) => After(chroma, c)[i] = chroma[i]
  BY <1>2, AfterRows
<1> QED BY <1>1, <1>2, <1>3, <1>4 DEF Effect

LEMMA AppliedEffect ==
  ASSUME TInv, NEW w \in Workers, NEW c \in Call, Applied(c), Refused, UNCHANGED log,
         \A i \in RowsOf(c) : i[1] \in op[w].scope
  PROVE  Effect(w)
<1>1. chroma' = After(chroma, c) /\ late' = late
  BY DEF Applied
<1>2. chroma \in Rows /\ log \in Logs /\ late \subseteq Call /\ Budgeted
  BY DEF TInv, Typed
<1>3. Budgeted'
  BY <1>2, BudgetKept
<1>4. /\ After(chroma, c) \in Rows
      /\ \A i \in Ids : i \notin RowsOf(c) => After(chroma, c)[i] = chroma[i]
  BY <1>2, AfterRows
<1> QED BY <1>1, <1>2, <1>3, <1>4 DEF Effect

LEMMA AbandonedPapers ==
  ASSUME NEW o \in Op
  PROVE  Abandoned(o) \in SUBSET Papers
BY DEF Abandoned, Op

LEMMA RaisedEffect ==
  ASSUME TInv, NEW w \in Workers, NEW c \in Call, Raised(c), UNCHANGED log
  PROVE  Effect(w) /\ chroma' = chroma /\ late' \in {late, late \cup {c}}
<1>1. chroma' = chroma /\ late' \in {late, late \cup {c}}
  BY DEF Raised
<1>2. chroma \in Rows /\ log \in Logs /\ late \subseteq Call /\ Budgeted
  BY DEF TInv, Typed
<1>3. Budgeted'
  <2>1. CASE Refused
    BY <1>2, <2>1, BudgetKept
  <2>2. CASE /\ timeouts < MaxTimeouts /\ timeouts' = timeouts + 1
             /\ UNCHANGED <<faults, crashes, started>>
    <3>1. MaxTimeouts \in Nat
      BY CorpusAssumption
    <3> QED BY <1>2, <2>2, <3>1 DEF Budgeted
  <2> QED BY <2>1, <2>2 DEF Raised
<1> QED BY <1>1, <1>2, <1>3 DEF Effect

\* What a late call touches is in doubt, new ones included.
LEMMA SuspectsTyped ==
  ASSUME TInv, late' \subseteq Call
  PROVE  /\ Suspects \subseteq Papers /\ suspect \subseteq Suspects
         /\ \A c \in late' : c \notin late => Touched(c) \subseteq Suspects
<1>1. \A c \in late' : Touched(c) \subseteq Papers
  BY CallTouches
<1> QED BY <1>1 DEF Suspects, TInv, Typed

\* The rows of the other workers are as safe as before.
LEMMA OthersKept ==
  ASSUME TInv, SInv, NEW w \in Workers, NEW u \in Workers, u # w, op'[u] = op[u],
         \A i \in Ids : i[1] \notin op[w].scope => chroma'[i] = chroma[i],
         \A p \in suspect : p \notin op[w].scope => p \in suspect'
  PROVE  Kept(op[u], chroma', suspect')
<1> DEFINE o == op[u]
<1>1. o \in Op /\ Shape(o) /\ Kept(o, chroma, suspect) /\ op[w] \in Op
  BY DEF TInv, Typed, SInv
<1>2. \A p \in o.scope : p \notin op[w].scope
  BY DEF SInv, Disjoint
<1> HIDE DEF o
<1>3. \A i \in Present(o.new) : i \in Ids /\ i[1] \in o.scope
  BY <1>1 DEF Shape, Present
<1>4. \A i \in Present(o.new) : chroma'[i] = chroma[i] /\ (i[1] \in suspect => i[1] \in suspect')
  BY <1>2, <1>3
<1>5. OwnRows(o, chroma', suspect')
  BY <1>1, <1>4 DEF Kept, OwnRows
<1>6. Backed(o, chroma', suspect')
  BY <1>1, <1>4 DEF Kept, Backed
<1> QED BY <1>5, <1>6 DEF Kept, o

\* A worker that goes on to o.
LEMMA ProceedKeeps ==
  ASSUME TInv, NEW w \in Workers, NEW o \in Op, NEW rep \in SUBSET Papers,
         Proceed(w, o, rep), Effect(w), Shape(o), o.scope = op[w].scope,
         SInv => Kept(o, chroma', suspect')
  PROVE  TInv' /\ (SInv => SInv')
<1>1. /\ op' = [op EXCEPT ![w] = o] /\ reported' = reported \cup rep /\ suspect' = Suspects
  BY DEF Proceed
<1>2. op' \in [Workers -> Op] /\ op'[w] = o /\ \A u \in Workers : u # w => op'[u] = op[u]
  BY <1>1 DEF TInv, Typed
<1>3. suspect' \subseteq Papers /\ suspect \subseteq suspect'
      /\ \A c \in late' : c \notin late => Touched(c) \subseteq suspect'
  BY <1>1, SuspectsTyped DEF Effect
<1>4. TInv'
  <2>1. Typed'
    BY <1>1, <1>2, <1>3 DEF TInv, Typed, Effect
  <2>2. ASSUME NEW u \in Workers PROVE Shape(op'[u])
    BY <1>2 DEF TInv
  <2> QED BY <2>1, <2>2 DEF TInv
<1>5. ASSUME SInv PROVE SInv'
  <2>1. Disjoint'
    BY <1>2, <1>5 DEF SInv, Disjoint
  <2>2. LateSuspect'
    BY <1>3, <1>5 DEF SInv, LateSuspect
  <2>3. ASSUME NEW u \in Workers PROVE Kept(op'[u], chroma', suspect')
    <3>1. CASE u = w
      BY <3>1, <1>2, <1>5
    <3>2. CASE u # w
      BY <3>2, <1>2, <1>3, <1>5, OthersKept DEF Effect
    <3> QED BY <3>1, <3>2
  <2> QED BY <1>5, <2>1, <2>2, <2>3 DEF SInv
<1> QED BY <1>4, <1>5

\* A worker that returns or raises.
LEMMA FinishKeeps ==
  ASSUME TInv, NEW w \in Workers, NEW rep \in SUBSET Papers, Finish(w, rep), Effect(w)
  PROVE  TInv' /\ (SInv => SInv')
<1> DEFINE healed == {p \in op[w].scope : ~Diverges(chroma', log', p)}
<1>1. /\ op' = [op EXCEPT ![w] = Idle] /\ reported' = (reported \cup rep) \ healed
      /\ suspect' = Suspects \ {p \in healed : \A c \in late' : p \notin Touched(c)}
  BY DEF Finish
<1>h. healed \subseteq op[w].scope
  OBVIOUS
<1> HIDE DEF healed
<1>2. op' \in [Workers -> Op] /\ op'[w] = Idle /\ \A u \in Workers : u # w => op'[u] = op[u]
  BY <1>1, IdleShape DEF TInv, Typed
<1>s. /\ Suspects \subseteq Papers /\ suspect \subseteq Suspects
      /\ \A c \in late' : c \notin late => Touched(c) \subseteq Suspects
  BY SuspectsTyped DEF Effect
<1>3. /\ suspect' \subseteq Papers
      /\ \A p \in suspect : p \notin op[w].scope => p \in suspect'
  BY <1>1, <1>h, <1>s
<1>4. TInv'
  <2>1. Typed'
    BY <1>1, <1>2, <1>3 DEF TInv, Typed, Effect
  <2>2. ASSUME NEW u \in Workers PROVE Shape(op'[u])
    BY <1>2, IdleShape DEF TInv
  <2> QED BY <2>1, <2>2 DEF TInv
<1>5. ASSUME SInv PROVE SInv'
  <2>1. Disjoint'
    BY <1>2, <1>5, IdleShape DEF SInv, Disjoint
  <2>2. LateSuspect'
    <3>1. ASSUME NEW c \in late' PROVE Touched(c) \subseteq suspect'
      <4>1. Touched(c) \subseteq Suspects
        BY <1>s, <1>5 DEF SInv, LateSuspect
      <4> QED BY <4>1, <1>1
    <3> QED BY <3>1 DEF LateSuspect
  <2>3. ASSUME NEW u \in Workers PROVE Kept(op'[u], chroma', suspect')
    <3>1. CASE u = w
      BY <3>1, <1>2, IdleShape
    <3>2. CASE u # w
      BY <3>2, <1>2, <1>3, <1>5, OthersKept DEF Effect
    <3> QED BY <3>1, <3>2
  <2> QED BY <1>5, <2>1, <2>2, <2>3 DEF SInv
<1> QED BY <1>4, <1>5

\* A worker that begins.
LEMMA BeginKeeps ==
  ASSUME TInv, NEW w \in Workers, NEW S \in SUBSET Papers, NEW o \in Op, NEW q \in Op,
         Begin(w, S, o), q = [o EXCEPT !.scope = S], Shape(q), SInv => Kept(q, chroma, suspect)
  PROVE  TInv' /\ (SInv => SInv')
<1>1. /\ op' = [op EXCEPT ![w] = q] /\ started < MaxOps /\ started' = started + 1
      /\ UNCHANGED <<chroma, log, late, reported, suspect, faults, timeouts, crashes>>
      /\ Overlap \/ \A u \in Workers : op[u].scope \cap S = {}
  BY DEF Begin
<1>2. op' \in [Workers -> Op] /\ op'[w] = q /\ \A u \in Workers : u # w => op'[u] = op[u]
  BY <1>1 DEF TInv, Typed
<1>3. TInv'
  <2>1. Budgeted'
    <3>1. MaxOps \in Nat
      BY CorpusAssumption
    <3> QED BY <1>1, <3>1 DEF TInv, Typed, Budgeted
  <2>2. Typed'
    BY <1>1, <1>2, <2>1 DEF TInv, Typed
  <2>3. ASSUME NEW u \in Workers PROVE Shape(op'[u])
    BY <1>2 DEF TInv
  <2> QED BY <2>2, <2>3 DEF TInv
<1>4. ASSUME SInv PROVE SInv'
  <2>0. q.scope = S
    BY DEF Op
  <2>1. Disjoint'
    BY <1>1, <1>2, <1>4, <2>0 DEF SInv, Disjoint
  <2>2. LateSuspect'
    BY <1>1, <1>4 DEF SInv, LateSuspect
  <2>3. \A u \in Workers : Kept(op'[u], chroma', suspect')
    BY <1>1, <1>2, <1>4 DEF SInv
  <2> QED BY <1>4, <2>1, <2>2, <2>3 DEF SInv
<1> QED BY <1>3, <1>4

-----------------------------------------------------------------------------
(* The operations begin. *)

LEMMA KeptElsewhere ==
  ASSUME NEW o \in Op, NEW ch, NEW doubt, o.pc \notin {"upsert", "rollback", "record", "backfill"}
  PROVE  Kept(o, ch, doubt)
  BY DEF Kept, OwnRows, Backed

LEMMA ScopedOp ==
  ASSUME NEW o \in Op, NEW S \in SUBSET Papers
  PROVE  LET q == [o EXCEPT !.scope = S] IN
         /\ q \in Op /\ q.scope = S
         /\ q.kind = o.kind /\ q.pc = o.pc /\ q.src = o.src /\ q.todo = o.todo /\ q.prep = o.prep
         /\ q.dels = o.dels /\ q.target = o.target /\ q.ids = o.ids /\ q.new = o.new
  BY DEF Op

LEMMA IdleFields ==
  /\ Idle.todo = {} /\ Idle.prep = {} /\ Idle.dels = {} /\ Idle.target = {} /\ Idle.ids = {}
  /\ Idle.new = Empty /\ Idle.src = <<>>
  BY DEF Idle

\* A worker begins with o on the papers of S.
LEMMA BeginsWith ==
  ASSUME TInv, NEW w \in Workers, NEW S \in SUBSET Papers, NEW o \in Op, Begin(w, S, o),
         o.pc \notin {"upsert", "rollback", "record"},
         o.todo \subseteq S, o.prep = {}, o.dels \subseteq S, o.target = {},
         \A i \in o.ids : i[1] \in S, \A i \in Present(o.new) : i[1] \in S,
         o.kind \in {"ingest", "reindex"} => \A p \in o.todo : o.src[p] \in Versions,
         o.pc = "check" => o.kind \in {"ingest", "reindex"},
         o.kind = "replay" => o.todo = {}, o.pc \in {"reset", "replay"} => o.kind = "replay",
         o.pc \in {"reset", "purge"} => S = Papers,
         o.pc = "backfill" => o.new = chroma
  PROVE  TInv' /\ (SInv => SInv')
<1>1. PICK q \in Op : q = [o EXCEPT !.scope = S]
  BY ScopedOp
<1>2. /\ q.scope = S /\ q.kind = o.kind /\ q.pc = o.pc /\ q.src = o.src /\ q.todo = o.todo
      /\ q.prep = o.prep /\ q.dels = o.dels /\ q.target = o.target /\ q.ids = o.ids /\ q.new = o.new
  BY <1>1, ScopedOp
<1>3. Shape(q)
  BY <1>2 DEF Shape
<1>4. Kept(q, chroma, suspect)
  <2>1. CASE o.pc = "backfill"
    BY <2>1, <1>2 DEF Kept, OwnRows, Backed
  <2>2. CASE o.pc # "backfill"
    BY <2>2, <1>2, KeptElsewhere
  <2> QED BY <2>1, <2>2
<1> QED BY <1>1, <1>3, <1>4, BeginKeeps

LEMMA StartStep ==
  ASSUME TInv, NEW w \in Workers,
         \/ StartIngest(w) \/ StartDelete(w) \/ StartReindexRoute(w)
         \/ StartReplay(w) \/ StartBackfill(w) \/ StartPurge(w) \/ StartPatch(w)
  PROVE  TInv' /\ (SInv => SInv')
<1>e. Present(Empty) = {} /\ Idle \in Op
  BY EmptyRows, IdleShape
<1>c. chroma \in Rows /\ log \in Logs /\ Present(chroma) \subseteq Ids
  BY DEF TInv, Typed, Present
<1>1. CASE StartIngest(w)
  <2>0. PICK S \in (SUBSET Papers) \ {{}} : \E src \in [S -> Versions] :
          Begin(w, S, [Idle EXCEPT !.kind = "ingest", !.pc = "check", !.todo = S, !.src = src])
    BY <1>1 DEF StartIngest
  <2>1. PICK src \in [S -> Versions] :
          Begin(w, S, [Idle EXCEPT !.kind = "ingest", !.pc = "check", !.todo = S, !.src = src])
    BY <2>0
  <2>2. src \in Sources /\ "ingest" \in Doing /\ "check" \in Places
    BY DEF Sources, Doing, Places
  <2>3. PICK o \in Op : o = [Idle EXCEPT !.kind = "ingest", !.pc = "check", !.todo = S, !.src = src]
    BY <1>e, <2>2 DEF Op
  <2>4. /\ o.kind = "ingest" /\ o.pc = "check" /\ o.todo = S /\ o.src = src
        /\ o.prep = {} /\ o.dels = {} /\ o.target = {} /\ o.ids = {} /\ o.new = Empty
    BY <1>e, <2>3, IdleFields DEF Op
  <2> QED BY <1>e, <2>1, <2>3, <2>4, BeginsWith
<1>2. CASE StartDelete(w)
  <2>1. PICK p \in Papers :
          Begin(w, {p}, [Idle EXCEPT !.kind = "delete", !.pc = "delGet", !.dels = {p}])
    BY <1>2 DEF StartDelete
  <2>2. "delete" \in Doing /\ "delGet" \in Places
    BY DEF Doing, Places
  <2>3. PICK o \in Op : o = [Idle EXCEPT !.kind = "delete", !.pc = "delGet", !.dels = {p}]
    BY <1>e, <2>2 DEF Op
  <2>4. /\ o.kind = "delete" /\ o.pc = "delGet" /\ o.todo = {} /\ o.dels = {p}
        /\ o.prep = {} /\ o.target = {} /\ o.ids = {} /\ o.new = Empty
    BY <1>e, <2>3, IdleFields DEF Op
  <2> QED BY <1>e, <2>1, <2>3, <2>4, BeginsWith
<1>3. CASE StartReindexRoute(w)
  <2>1. PICK p \in Papers, v \in Versions :
          Begin(w, {p}, [Idle EXCEPT !.kind = "reindex", !.pc = "delGet", !.dels = {p},
                                     !.todo = {p}, !.src = [r \in {p} |-> v]])
    BY <1>3 DEF StartReindexRoute
  <2>2. [r \in {p} |-> v] \in Sources /\ "reindex" \in Doing /\ "delGet" \in Places
    <3>1. [r \in {p} |-> v] \in [{p} -> Versions] /\ {p} \in SUBSET Papers
      OBVIOUS
    <3> QED BY <3>1 DEF Sources, Doing, Places
  <2>3. PICK o \in Op : o = [Idle EXCEPT !.kind = "reindex", !.pc = "delGet", !.dels = {p},
                                         !.todo = {p}, !.src = [r \in {p} |-> v]]
    BY <1>e, <2>2 DEF Op
  <2>4. /\ o.kind = "reindex" /\ o.pc = "delGet" /\ o.todo = {p} /\ o.dels = {p}
        /\ o.src = [r \in {p} |-> v]
        /\ o.prep = {} /\ o.target = {} /\ o.ids = {} /\ o.new = Empty
    BY <1>e, <2>3, IdleFields DEF Op
  <2>5. {p} \in SUBSET Papers /\ \A r \in o.todo : o.src[r] \in Versions
    BY <2>4
  <2>6. Begin(w, {p}, o)
    BY <2>1, <2>3
  <2> QED BY <1>e, <2>4, <2>5, <2>6, BeginsWith
<1>4. CASE StartReplay(w)
  <2>1. Begin(w, Papers, [Idle EXCEPT !.kind = "replay", !.pc = "reset", !.events = log])
    BY <1>4 DEF StartReplay
  <2>2. "replay" \in Doing /\ "reset" \in Places
    BY DEF Doing, Places
  <2>3. PICK o \in Op : o = [Idle EXCEPT !.kind = "replay", !.pc = "reset", !.events = log]
    BY <1>e, <1>c, <2>2 DEF Op
  <2>4. /\ o.kind = "replay" /\ o.pc = "reset" /\ o.todo = {} /\ o.dels = {}
        /\ o.prep = {} /\ o.target = {} /\ o.ids = {} /\ o.new = Empty
    BY <1>e, <2>3, IdleFields DEF Op
  <2> QED BY <1>e, <2>1, <2>3, <2>4, BeginsWith
<1>5. CASE StartBackfill(w)
  <2>1. Begin(w, Papers, [Idle EXCEPT !.kind = "backfill", !.pc = "backfill", !.new = chroma])
    BY <1>5 DEF StartBackfill
  <2>2. "backfill" \in Doing /\ "backfill" \in Places
    BY DEF Doing, Places
  <2>3. PICK o \in Op : o = [Idle EXCEPT !.kind = "backfill", !.pc = "backfill", !.new = chroma]
    BY <1>e, <1>c, <2>2 DEF Op
  <2>4. /\ o.kind = "backfill" /\ o.pc = "backfill" /\ o.todo = {} /\ o.dels = {}
        /\ o.prep = {} /\ o.target = {} /\ o.ids = {} /\ o.new = chroma
    BY <1>e, <2>3, IdleFields DEF Op
  <2>5. \A i \in Present(chroma) : i[1] \in Papers
    BY <1>c, IdsArePairs
  <2> QED BY <1>e, <2>1, <2>3, <2>4, <2>5, BeginsWith
<1>6. CASE StartPurge(w)
  <2>1. PICK kind \in {"purgeRoute", "purgeCli"} :
          Begin(w, Papers, [Idle EXCEPT !.kind = kind, !.pc = "purge"])
    BY <1>6 DEF StartPurge
  <2>2. kind \in Doing /\ "purge" \in Places
    BY DEF Doing, Places
  <2>3. PICK o \in Op : o = [Idle EXCEPT !.kind = kind, !.pc = "purge"]
    BY <1>e, <2>2 DEF Op
  <2>4. /\ o.kind = kind /\ o.pc = "purge" /\ o.todo = {} /\ o.dels = {}
        /\ o.prep = {} /\ o.target = {} /\ o.ids = {} /\ o.new = Empty
    BY <1>e, <2>3, IdleFields DEF Op
  <2> QED BY <1>e, <2>1, <2>3, <2>4, BeginsWith
<1>7. CASE StartPatch(w)
  <2>1. PICK p \in Papers :
          Begin(w, {p}, [Idle EXCEPT !.kind = "patch", !.pc = "patch",
                                     !.ids = {i \in Present(chroma) : i[1] = p}])
    BY <1>7 DEF StartPatch
  <2>2. "patch" \in Doing /\ "patch" \in Places /\ {i \in Present(chroma) : i[1] = p} \in SUBSET Ids
    BY <1>c DEF Doing, Places
  <2>3. PICK o \in Op : o = [Idle EXCEPT !.kind = "patch", !.pc = "patch",
                                         !.ids = {i \in Present(chroma) : i[1] = p}]
    BY <1>e, <2>2 DEF Op
  <2>4. /\ o.kind = "patch" /\ o.pc = "patch" /\ o.todo = {} /\ o.dels = {}
        /\ o.prep = {} /\ o.target = {} /\ o.ids = {i \in Present(chroma) : i[1] = p} /\ o.new = Empty
    BY <1>e, <2>3, IdleFields DEF Op
  <2> QED BY <1>e, <2>1, <2>3, <2>4, BeginsWith
<1> QED BY <1>1, <1>2, <1>3, <1>4, <1>5, <1>6, <1>7

-----------------------------------------------------------------------------
(* Ingest. *)

LEMMA OwnFacts ==
  ASSUME TInv, NEW w \in Workers
  PROVE  /\ op[w] \in Op /\ Shape(op[w]) /\ op[w].scope \subseteq Papers /\ op[w].new \in Rows
         /\ chroma \in Rows /\ log \in Logs
  BY DEF TInv, Typed, Op

LEMMA CheckedKeeps ==
  ASSUME TInv, NEW w \in Workers, op[w].pc = "check", NEW p \in op[w].todo,
         NEW keep \in BOOLEAN, NEW del \in BOOLEAN,
         Effect(w), Checked(w, p, keep, del),
         keep => op[w].src[p] \in Versions
  PROVE  TInv' /\ (SInv => SInv')
<1> DEFINE rows == IF keep THEN Overlay(op[w].new, BuiltChunks(p, op[w].src[p])) ELSE op[w].new
           prep == IF keep THEN op[w].prep \cup {p} ELSE op[w].prep
           dels == IF del THEN op[w].dels \cup {p} ELSE op[w].dels
           todo == op[w].todo \ {p}
           next == [op[w] EXCEPT
                 !.todo = @ \ {p},
                 !.prep = IF keep THEN @ \cup {p} ELSE @,
                 !.dels = IF del THEN @ \cup {p} ELSE @,
                 !.new = IF keep THEN Overlay(@, BuiltChunks(p, op[w].src[p])) ELSE @]
<1>a. /\ op[w] \in Op /\ Shape(op[w]) /\ op[w].scope \subseteq Papers /\ op[w].new \in Rows
      /\ p \in Papers /\ p \in op[w].scope
  BY OwnFacts DEF Shape
<1>b. rows \in Rows /\ \A i \in Present(rows) : i[1] \in op[w].scope
  <2>1. CASE keep
    <3>1. /\ BuiltChunks(p, op[w].src[p]) \in Rows
          /\ \A i \in Present(BuiltChunks(p, op[w].src[p])) : i[1] = p
      BY <2>1, <1>a, BuiltRows
    <3>2. /\ rows \in Rows
          /\ \A i \in Present(rows) : i \in Present(op[w].new) \/ i \in Present(BuiltChunks(p, op[w].src[p]))
      BY <2>1, <3>1, <1>a, OverlayRows
    <3> QED BY <3>1, <3>2, <1>a DEF Shape
  <2>2. CASE ~keep
    BY <2>2, <1>a DEF Shape
  <2> QED BY <2>1, <2>2
<1>c. prep \in SUBSET Papers /\ dels \in SUBSET Papers /\ todo \in SUBSET Papers
      /\ prep \subseteq op[w].scope /\ dels \subseteq op[w].scope /\ todo \subseteq op[w].scope
      /\ todo \subseteq op[w].todo
  BY <1>a DEF Shape, Op
<1>d. next = [op[w] EXCEPT !.todo = todo, !.prep = prep, !.dels = dels, !.new = rows]
  BY <1>a DEF Op
<1>n. Checked(w, p, keep, del) =
        IF next.todo # {} THEN Proceed(w, next, {})
        ELSE IF next.prep # {} THEN Proceed(w, [next EXCEPT !.pc = "embed"], {})
        ELSE Finish(w, {})
  BY DEF Checked
<1> HIDE DEF rows, prep, dels, todo, next
<1>1. PICK o \in Op : o = next
  BY <1>a, <1>b, <1>c, <1>d DEF Op
<1>2. /\ o.scope = op[w].scope /\ o.pc = "check" /\ o.kind = op[w].kind /\ o.src = op[w].src
      /\ o.todo = todo /\ o.prep = prep /\ o.dels = dels /\ o.new = rows
      /\ o.events = op[w].events /\ o.target = op[w].target /\ o.ids = op[w].ids
  BY <1>1, <1>a, <1>d DEF Op
<1>3. Shape(o)
  BY <1>2, <1>a, <1>b, <1>c DEF Shape
<1>4. PICK q \in Op : q = [o EXCEPT !.pc = "embed"]
  <2>1. "embed" \in Places
    BY DEF Places
  <2> QED BY <2>1 DEF Op
<1>5. /\ q.scope = op[w].scope /\ q.pc = "embed" /\ q.kind = op[w].kind /\ q.src = op[w].src
      /\ q.todo = todo /\ q.prep = prep /\ q.dels = dels /\ q.new = rows
      /\ q.events = op[w].events /\ q.target = op[w].target /\ q.ids = op[w].ids
  BY <1>4, <1>2 DEF Op
<1>6. Shape(q)
  BY <1>5, <1>a, <1>b, <1>c DEF Shape
<1>7. CASE Proceed(w, o, {})
  <2>1. Kept(o, chroma', suspect')
    BY <1>2, KeptElsewhere
  <2> QED BY <1>7, <1>2, <1>3, <2>1, ProceedKeeps
<1>8. CASE Proceed(w, q, {})
  <2>1. Kept(q, chroma', suspect')
    BY <1>5, KeptElsewhere
  <2> QED BY <1>8, <1>5, <1>6, <2>1, ProceedKeeps
<1>9. CASE Finish(w, {})
  BY <1>9, FinishKeeps
<1> QED BY <1>n, <1>1, <1>4, <1>7, <1>8, <1>9

\* A worker that goes on to what is not the writing of rows.
LEMMA GoesOn ==
  ASSUME TInv, NEW w \in Workers, NEW o \in Op, NEW rep \in SUBSET Papers,
         Proceed(w, o, rep), Effect(w), Shape(o), o.scope = op[w].scope,
         o.pc \notin {"upsert", "rollback", "record", "backfill"}
  PROVE  TInv' /\ (SInv => SInv')
<1>1. Kept(o, chroma', suspect')
  BY KeptElsewhere
<1> QED BY <1>1, ProceedKeeps

LEMMA CheckStep ==
  ASSUME TInv, NEW w \in Workers, Check(w)
  PROVE  TInv' /\ (SInv => SInv')
<1>1. op[w].pc = "check" /\ ReadOnly
  BY DEF Check
<1>2. PICK p \in op[w].todo, keep \in BOOLEAN, del \in BOOLEAN :
         /\ NoFault \/ Refused
         /\ Checked(w, p, keep, del)
         /\ keep => NoFault
  BY DEF Check
<1>3. Effect(w)
  BY <1>1, <1>2, ReadOnlyEffect
<1>4. keep => op[w].src[p] \in Versions
  BY <1>1, <1>2, OwnFacts DEF Shape
<1> QED BY <1>1, <1>2, <1>3, <1>4, CheckedKeeps

LEMMA EmbedStep ==
  ASSUME TInv, NEW w \in Workers, Embed(w)
  PROVE  TInv' /\ (SInv => SInv')
<1>1. op[w].pc = "embed" /\ Effect(w)
  BY ReadOnlyEffect DEF Embed
<1>2. CASE Finish(w, {})
  BY <1>1, <1>2, FinishKeeps
<1>3. CASE Proceed(w, [op[w] EXCEPT !.pc = IF op[w].dels = {} THEN "preexist" ELSE "delGet"], {})
  <2> DEFINE pc == IF op[w].dels = {} THEN "preexist" ELSE "delGet"
  <2>0. pc \in Places /\ pc \in {"preexist", "delGet"}
    BY DEF Places
  <2>1. Proceed(w, [op[w] EXCEPT !.pc = pc], {})
    BY <1>3
  <2> HIDE DEF pc
  <2>2. PICK o \in Op : o = [op[w] EXCEPT !.pc = pc]
    BY <2>0, OwnFacts DEF Op
  <2>3. /\ o.scope = op[w].scope /\ o.pc = pc /\ o.kind = op[w].kind /\ o.src = op[w].src
        /\ o.todo = op[w].todo /\ o.prep = op[w].prep /\ o.dels = op[w].dels /\ o.new = op[w].new
        /\ o.events = op[w].events /\ o.target = op[w].target /\ o.ids = op[w].ids
    BY <2>2, OwnFacts DEF Op
  <2>4. Shape(o)
    BY <2>0, <2>3, OwnFacts DEF Shape
  <2> QED BY <1>1, <2>0, <2>1, <2>2, <2>3, <2>4, GoesOn
<1> QED BY <1>2, <1>3 DEF Embed

-----------------------------------------------------------------------------
(* Deletes. *)

LEMMA ReturnedKeeps ==
  ASSUME TInv, NEW w \in Workers, NEW p \in Papers, NEW outcome \in {"done", "incomplete", "raised"},
         Effect(w), DeleteReturned(w, p, outcome)
  PROVE  TInv' /\ (SInv => SInv')
<1> DEFINE r == [op[w] EXCEPT !.dels = @ \ {p}, !.ids = {}]
           named == IF outcome = "incomplete" THEN {p} ELSE {}
           also == IF outcome = "done" THEN {} ELSE {p}
<1>n. named \in SUBSET Papers /\ also \in SUBSET Papers
  OBVIOUS
<1>1. PICK o \in Op : o = r
  <2>1. op[w].dels \ {p} \in SUBSET Papers /\ op[w] \in Op
    BY OwnFacts DEF Op
  <2> QED BY <2>1 DEF Op
<1>2. /\ o.scope = op[w].scope /\ o.kind = op[w].kind /\ o.src = op[w].src
      /\ o.todo = op[w].todo /\ o.prep = op[w].prep /\ o.dels = op[w].dels \ {p} /\ o.new = op[w].new
      /\ o.events = op[w].events /\ o.target = op[w].target /\ o.ids = {}
  BY <1>1, OwnFacts DEF Op
<1>3. ASSUME NEW pc \in {"preexist", "delGet", "check"}, NEW rep \in SUBSET Papers,
             Proceed(w, [o EXCEPT !.pc = pc], rep), pc = "check" => o.kind = "reindex"
      PROVE  TInv' /\ (SInv => SInv')
  <2>0. pc \in Places
    BY DEF Places
  <2>1. PICK q \in Op : q = [o EXCEPT !.pc = pc]
    BY <2>0 DEF Op
  <2>2. /\ q.scope = op[w].scope /\ q.pc = pc /\ q.kind = op[w].kind /\ q.src = op[w].src
        /\ q.todo = op[w].todo /\ q.prep = op[w].prep /\ q.dels = op[w].dels \ {p} /\ q.new = op[w].new
        /\ q.events = op[w].events /\ q.target = op[w].target /\ q.ids = {}
    BY <1>2, <2>1 DEF Op
  <2>3. Shape(q)
    BY <1>2, <1>3, <2>2, OwnFacts DEF Shape
  <2>4. q.pc \notin {"upsert", "rollback", "record", "backfill"} /\ Proceed(w, q, rep)
    BY <1>3, <2>1, <2>2
  <2> QED BY <2>1, <2>2, <2>3, <2>4, GoesOn
<1>4. DeleteReturned(w, p, outcome) =
        \/ /\ o.prep # {}
           /\ Proceed(w, [o EXCEPT !.pc = IF o.dels = {} THEN "preexist" ELSE "delGet"], also)
        \/ /\ o.prep = {}
           /\ o.kind = "delete" \/ outcome = "raised"
           /\ Finish(w, named)
        \/ /\ o.prep = {}
           /\ o.kind = "reindex" /\ outcome # "raised"
           /\ Proceed(w, [o EXCEPT !.pc = "check"], named)
  BY <1>1 DEF DeleteReturned
<1> HIDE DEF named, also, r
<1>5. CASE Proceed(w, [o EXCEPT !.pc = IF o.dels = {} THEN "preexist" ELSE "delGet"], also)
  <2>1. (IF o.dels = {} THEN "preexist" ELSE "delGet") \in {"preexist", "delGet"}
    OBVIOUS
  <2> QED BY <2>1, <1>3, <1>5, <1>n
<1>6. CASE Finish(w, named)
  BY <1>6, <1>n, FinishKeeps
<1>7. CASE o.kind = "reindex" /\ Proceed(w, [o EXCEPT !.pc = "check"], named)
  BY <1>7, <1>3, <1>n
<1> QED BY <1>4, <1>5, <1>6, <1>7

LEMMA DeleteStep ==
  ASSUME TInv, NEW w \in Workers, DelGet(w) \/ DelDo(w) \/ Cascade(w)
  PROVE  TInv' /\ (SInv => SInv')
<1>a. /\ op[w] \in Op /\ Shape(op[w]) /\ op[w].scope \subseteq Papers
      /\ op[w].dels \subseteq Papers /\ op[w].target \subseteq Papers /\ op[w].target \subseteq op[w].scope
  BY OwnFacts DEF Shape
<1>1. CASE DelGet(w)
  <2>0. Effect(w)
    BY <1>1, ReadOnlyEffect DEF DelGet
  <2>1. PICK p \in op[w].dels :
          \/ Proceed(w, [op[w] EXCEPT !.pc = "delDo", !.target = {p},
                                      !.ids = {i \in Present(chroma) : i[1] = p}], {})
          \/ DeleteReturned(w, p, "raised")
    BY <1>1 DEF DelGet
  <2>p. p \in Papers /\ p \in op[w].scope
    BY <1>a DEF Shape
  <2>2. CASE Proceed(w, [op[w] EXCEPT !.pc = "delDo", !.target = {p},
                                      !.ids = {i \in Present(chroma) : i[1] = p}], {})
    <3> DEFINE rows == {i \in Present(chroma) : i[1] = p}
    <3>1. rows \in SUBSET Ids /\ \A i \in rows : i[1] = p
      BY DEF Present
    <3>x. Proceed(w, [op[w] EXCEPT !.pc = "delDo", !.target = {p}, !.ids = rows], {})
      BY <2>2
    <3> HIDE DEF rows
    <3>2. PICK o \in Op : o = [op[w] EXCEPT !.pc = "delDo", !.target = {p}, !.ids = rows]
      <4>1. "delDo" \in Places
        BY DEF Places
      <4> QED BY <4>1, <3>1, <1>a, <2>p DEF Op
    <3>3. /\ o.scope = op[w].scope /\ o.pc = "delDo" /\ o.kind = op[w].kind /\ o.src = op[w].src
          /\ o.todo = op[w].todo /\ o.prep = op[w].prep /\ o.dels = op[w].dels /\ o.new = op[w].new
          /\ o.target = {p} /\ o.ids = rows /\ o.events = op[w].events
      BY <3>2, <1>a DEF Op
    <3>4. Shape(o)
      BY <3>1, <3>3, <2>p, <1>a DEF Shape
    <3> QED BY <2>0, <3>x, <3>2, <3>3, <3>4, GoesOn
  <2>3. CASE DeleteReturned(w, p, "raised")
    BY <2>0, <2>p, <2>3, ReturnedKeeps
  <2> QED BY <2>1, <2>2, <2>3
<1>2. CASE DelDo(w)
  <2>1. PICK p \in op[w].target :
          \/ /\ Done(Delete(IdsOf({p})))
             /\ IF op[w].ids = {} THEN DeleteReturned(w, p, "done")
                                  ELSE Proceed(w, [op[w] EXCEPT !.pc = "cascade"], {})
          \/ Raised(Delete(IdsOf({p}))) /\ DeleteReturned(w, p, "raised")
    BY <1>2 DEF DelDo
  <2>p. p \in Papers /\ p \in op[w].scope /\ UNCHANGED log
    BY <1>a, <1>2 DEF DelDo
  <2>c. IdsOf({p}) \in SUBSET Ids /\ \A i \in IdsOf({p}) : i[1] = p
    BY <2>p DEF IdsOf, Ids
  <2>d. /\ Delete(IdsOf({p})) \in Call
        /\ \A i \in RowsOf(Delete(IdsOf({p}))) : i[1] \in op[w].scope
    <3> DEFINE S == IdsOf({p})
    <3>1. S \in SUBSET Ids /\ \A i \in S : i[1] = p
      BY <2>c
    <3> HIDE DEF S
    <3>2. Delete(S) \in Call /\ RowsOf(Delete(S)) = S
      BY <3>1, DeleteCall
    <3>3. \A i \in RowsOf(Delete(S)) : i[1] \in op[w].scope
      BY <2>p, <3>1, <3>2
    <3> QED BY <3>2, <3>3 DEF S
  <2>2. CASE Done(Delete(IdsOf({p})))
    <3>0. Effect(w)
      BY <2>2, <2>d, <2>p, DoneEffect
    <3>1. CASE DeleteReturned(w, p, "done")
      BY <3>0, <3>1, <2>p, ReturnedKeeps
    <3>2. CASE Proceed(w, [op[w] EXCEPT !.pc = "cascade"], {})
      <4>2. PICK o \in Op : o = [op[w] EXCEPT !.pc = "cascade"]
        <5>1. "cascade" \in Places
          BY DEF Places
        <5> QED BY <5>1, <1>a DEF Op
      <4>3. /\ o.scope = op[w].scope /\ o.pc = "cascade" /\ o.kind = op[w].kind /\ o.src = op[w].src
            /\ o.todo = op[w].todo /\ o.prep = op[w].prep /\ o.dels = op[w].dels /\ o.new = op[w].new
            /\ o.events = op[w].events /\ o.target = op[w].target /\ o.ids = op[w].ids
        BY <4>2, <1>a DEF Op
      <4>4. Shape(o)
        BY <4>3, <1>a DEF Shape
      <4> QED BY <3>0, <3>2, <4>2, <4>3, <4>4, GoesOn
    <3>3. DeleteReturned(w, p, "done") \/ Proceed(w, [op[w] EXCEPT !.pc = "cascade"], {})
          \/ Raised(Delete(IdsOf({p})))
      BY <2>1
    <3>4. CASE Raised(Delete(IdsOf({p}))) /\ DeleteReturned(w, p, "raised")
      BY <3>0, <3>4, <2>p, ReturnedKeeps
    <3> QED BY <2>1, <3>1, <3>2, <3>4
  <2>3. CASE Raised(Delete(IdsOf({p}))) /\ DeleteReturned(w, p, "raised")
    <3>0. Effect(w)
      BY <2>3, <2>d, <2>p, RaisedEffect
    <3> QED BY <3>0, <2>3, <2>p, ReturnedKeeps
  <2> QED BY <2>1, <2>2, <2>3
<1>3. CASE Cascade(w)
  <2>1. PICK p \in op[w].target, bm25Ok \in BOOLEAN, logOk \in BOOLEAN :
          /\ log' = IF logOk THEN [log EXCEPT ![p] = NoRow] ELSE log
          /\ \/ NoFault /\ DeleteReturned(w, p, "done")
             \/ Refused /\ DeleteReturned(w, p, "incomplete")
    BY <1>3 DEF Cascade
  <2>p. p \in Papers
    BY <1>a
  <2>2. log' \in Logs
    <3>1. log \in Logs
      BY OwnFacts
    <3> QED BY <3>1, <2>1, <2>p DEF Logs
  <2>3. Effect(w)
    BY <1>3, <2>1, <2>2, ReadEffect DEF Cascade
  <2> QED BY <2>1, <2>p, <2>3, ReturnedKeeps
<1> QED BY <1>1, <1>2, <1>3
-----------------------------------------------------------------------------
(* add_documents. *)

LEMMA PreexistStep ==
  ASSUME TInv, NEW w \in Workers, Preexist(w)
  PROVE  TInv' /\ (SInv => SInv')
<1>a. /\ op[w] \in Op /\ Shape(op[w]) /\ op[w].new \in Rows /\ chroma \in Rows
  BY OwnFacts
<1>1. PICK known \in BOOLEAN :
        Proceed(w, [op[w] EXCEPT !.pc = "upsert", !.left = Present(op[w].new),
                                 !.pre = IF known THEN Present(op[w].new) \cap Present(chroma) ELSE {},
                                 !.preKnown = known, !.attempted = {}, !.created = {}], {})
  BY DEF Preexist
<1>2. Effect(w)
  <2>1. ReadOnly /\ (NoFault \/ Refused)
    BY DEF Preexist
  <2> QED BY <2>1, ReadOnlyEffect
<1> DEFINE ids == Present(op[w].new)
           pre == IF known THEN ids \cap Present(chroma) ELSE {}
<1>3. ids \in SUBSET Ids /\ pre \in SUBSET Ids
  BY DEF Present
<1>4. known => \A i \in ids : chroma[i] # NoChunk => i \in pre
  BY <1>a DEF Present
<1>5. Proceed(w, [op[w] EXCEPT !.pc = "upsert", !.left = ids, !.pre = pre,
                               !.preKnown = known, !.attempted = {}, !.created = {}], {})
  BY <1>1
<1>n. ids = Present(op[w].new)
  OBVIOUS
<1> HIDE DEF ids, pre
<1>6. PICK o \in Op : o = [op[w] EXCEPT !.pc = "upsert", !.left = ids, !.pre = pre,
                               !.preKnown = known, !.attempted = {}, !.created = {}]
  <2>1. "upsert" \in Places
    BY DEF Places
  <2> QED BY <2>1, <1>3, <1>a DEF Op
<1>7. /\ o.scope = op[w].scope /\ o.pc = "upsert" /\ o.kind = op[w].kind /\ o.src = op[w].src
      /\ o.todo = op[w].todo /\ o.prep = op[w].prep /\ o.dels = op[w].dels /\ o.new = op[w].new
      /\ o.events = op[w].events /\ o.target = op[w].target /\ o.ids = op[w].ids
      /\ o.left = ids /\ o.pre = pre /\ o.preKnown = known /\ o.attempted = {} /\ o.created = {}
  BY <1>6, <1>a DEF Op
<1>8. Shape(o)
  BY <1>7, <1>n, <1>a DEF Shape
<1>9. Kept(o, chroma', suspect')
  <2>1. chroma' = chroma
    BY DEF Preexist, ReadOnly
  <2>2. OwnRows(o, chroma', suspect')
    BY <2>1, <1>4, <1>7, <1>n DEF OwnRows
  <2>3. Backed(o, chroma', suspect')
    BY <1>7, <1>n DEF Backed
  <2> QED BY <2>2, <2>3 DEF Kept
<1> QED BY <1>2, <1>5, <1>6, <1>7, <1>8, <1>9, ProceedKeeps

\* The last batch is acknowledged.
LEMMA AddedKeeps ==
  ASSUME TInv, NEW w \in Workers, NEW o \in Op, Effect(w), Added(w, o),
         Shape(o), o.scope = op[w].scope, o.pc = "upsert", o.left = {},
         SInv => \A i \in Present(o.new) : i[1] \notin Suspects => chroma'[i] = o.new[i]
  PROVE  TInv' /\ (SInv => SInv')
<1>1. CASE Finish(w, {})
  BY <1>1, FinishKeeps
<1>2. ASSUME NEW pc \in {"record", "replay"}, Proceed(w, [o EXCEPT !.pc = pc], {}),
             pc = "replay" => o.kind = "replay"
      PROVE  TInv' /\ (SInv => SInv')
  <2>0. pc \in Places
    BY DEF Places
  <2>1. PICK q \in Op : q = [o EXCEPT !.pc = pc]
    BY <2>0 DEF Op
  <2>2. /\ q.scope = o.scope /\ q.pc = pc /\ q.kind = o.kind /\ q.src = o.src
        /\ q.todo = o.todo /\ q.prep = o.prep /\ q.dels = o.dels /\ q.new = o.new
        /\ q.events = o.events /\ q.target = o.target /\ q.ids = o.ids
    BY <2>1 DEF Op
  <2>3. Shape(q)
    BY <1>2, <2>2 DEF Shape
  <2>4. suspect' = Suspects
    BY <1>2 DEF Proceed
  <2>5. SInv => Kept(q, chroma', suspect')
    BY <2>2, <2>4 DEF Kept, OwnRows, Backed
  <2> QED BY <1>2, <2>1, <2>2, <2>3, <2>5, ProceedKeeps
<1> QED BY <1>1, <1>2 DEF Added

LEMMA UpsertStep ==
  ASSUME TInv, NEW w \in Workers, UpsertBatch(w)
  PROVE  TInv' /\ (SInv => SInv')
<1> DEFINE n == op[w].new
<1>a. /\ op[w] \in Op /\ Shape(op[w]) /\ n \in Rows /\ chroma \in Rows /\ op[w].pc = "upsert"
      /\ op[w].left \subseteq Present(n) /\ op[w].attempted \subseteq Present(n)
      /\ op[w].created \subseteq Ids /\ UNCHANGED log
      /\ \A i \in Present(n) : i[1] \in op[w].scope
  BY OwnFacts DEF Shape, UpsertBatch, Op
<1>1. PICK b \in SUBSET op[w].left :
        LET call == Upsert([i \in Ids |-> IF i \in b THEN n[i] ELSE NoChunk])
            mine == b \ Present(chroma)
            o == [op[w] EXCEPT !.left = @ \ b, !.attempted = @ \cup b]
        IN \/ /\ Done(call)
              /\ IF o.left # {} THEN Proceed(w, [o EXCEPT !.created = @ \cup mine], {})
                                ELSE Added(w, o)
           \/ Applied(call) /\ Refused /\ Finish(w, Abandoned(op[w]))
           \/ /\ Raised(call)
              /\ Proceed(w, [o EXCEPT !.pc = "rollback",
                               !.created = IF late' = late THEN @ ELSE @ \cup mine], {})
  BY DEF UpsertBatch
<1> DEFINE rows == [i \in Ids |-> IF i \in b THEN n[i] ELSE NoChunk]
           call == Upsert(rows)
           mine == b \ Present(chroma)
           left == op[w].left \ b
           tried == op[w].attempted \cup b
<1>b. /\ rows \in Rows /\ Present(rows) = b /\ b \subseteq Present(n) /\ Present(n) \subseteq Ids
      /\ \A i \in Ids : rows[i] = IF i \in b THEN n[i] ELSE NoChunk
  BY <1>a DEF Rows, Present
<1>c. mine \subseteq Present(n) /\ mine \subseteq Ids /\ \A i \in b : chroma[i] = NoChunk => i \in mine
  BY <1>b DEF Present
<1>d. left \subseteq Present(n) /\ tried \subseteq Present(n)
  BY <1>a, <1>b
<1>e. \A i \in Present(n) : i \notin left => i \in b \/ i \notin op[w].left
  OBVIOUS
<1>m. op[w].new = n
  OBVIOUS
<1> HIDE DEF rows
<1>f. /\ call \in Call /\ RowsOf(call) = b
      /\ call.put = rows /\ call.drop = {} /\ call.edit = {}
  BY <1>b, UpsertCall
<1> HIDE DEF call, mine
<1>2. PICK o \in Op : o = [op[w] EXCEPT !.left = left, !.attempted = tried]
  <2>1. left \in SUBSET Ids /\ tried \in SUBSET Ids
    BY <1>b, <1>d
  <2> QED BY <2>1, <1>a DEF Op
<1>3. /\ o.scope = op[w].scope /\ o.pc = "upsert" /\ o.kind = op[w].kind /\ o.src = op[w].src
      /\ o.todo = op[w].todo /\ o.prep = op[w].prep /\ o.dels = op[w].dels /\ o.new = n
      /\ o.events = op[w].events /\ o.target = op[w].target /\ o.ids = op[w].ids /\ o.pre = op[w].pre
      /\ o.preKnown = op[w].preKnown /\ o.created = op[w].created
      /\ o.left = left /\ o.attempted = tried
  BY <1>2, <1>a DEF Op
<1>4. \/ Done(call) /\ o.left # {} /\ Proceed(w, [o EXCEPT !.created = @ \cup mine], {})
      \/ Done(call) /\ o.left = {} /\ Added(w, o)
      \/ Applied(call) /\ Refused /\ Finish(w, Abandoned(op[w]))
      \/ /\ Raised(call)
         /\ Proceed(w, [o EXCEPT !.pc = "rollback",
                          !.created = IF late' = late THEN @ ELSE @ \cup mine], {})
  <2>1. o = [op[w] EXCEPT !.left = @ \ b, !.attempted = @ \cup b]
    BY <1>2
  <2> QED BY <1>1, <2>1 DEF call, rows, mine
<1> HIDE DEF n, left, tried
<1>5. ASSUME Done(call)
      PROVE  /\ Effect(w) /\ late' = late
             /\ \A i \in Ids : chroma'[i] = IF i \in b THEN n[i] ELSE chroma[i]
  <2>1. \A i \in RowsOf(call) : i[1] \in op[w].scope
    BY <1>a, <1>b, <1>f
  <2>2. Effect(w) /\ late' = late /\ chroma' = After(chroma, call)
    BY <1>5, <1>a, <1>f, <2>1, DoneEffect
  <2>3. \A i \in Ids : After(chroma, call)[i] =
              IF i \in call.drop THEN NoChunk ELSE IF call.put[i] = NoChunk THEN chroma[i] ELSE call.put[i]
    BY <1>a, <1>f, AfterRows
  <2>4. \A i \in b : n[i] # NoChunk
    BY <1>b DEF Present
  <2> QED BY <2>2, <2>3, <2>4, <1>b, <1>f
<1>6. Shape(o)
  BY <1>3, <1>a, <1>d DEF Shape
<1>7. SInv => Kept(op[w], chroma, suspect)
  BY DEF SInv
<1>8. CASE Done(call) /\ o.left # {} /\ Proceed(w, [o EXCEPT !.created = @ \cup mine], {})
  <2> DEFINE created == o.created \cup mine
  <2>0. created \in SUBSET Ids
    BY <1>a, <1>3, <1>c
  <2>x. Proceed(w, [o EXCEPT !.created = created], {})
    BY <1>8
  <2>y. \A i \in o.created : i \in created
    OBVIOUS
  <2>z. \A i \in mine : i \in created
    OBVIOUS
  <2> HIDE DEF created
  <2>1. PICK q \in Op : q = [o EXCEPT !.created = created]
    BY <2>0 DEF Op
  <2>2. /\ q.scope = op[w].scope /\ q.pc = "upsert" /\ q.kind = op[w].kind /\ q.src = op[w].src
        /\ q.todo = op[w].todo /\ q.prep = op[w].prep /\ q.dels = op[w].dels /\ q.new = n
        /\ q.events = op[w].events /\ q.target = op[w].target /\ q.ids = op[w].ids /\ q.pre = op[w].pre
        /\ q.preKnown = op[w].preKnown /\ q.created = created
        /\ q.left = left /\ q.attempted = tried
    BY <1>3, <2>1 DEF Op
  <2>3. Shape(q)
    BY <2>2, <1>a, <1>d DEF Shape
  <2>4. suspect \subseteq suspect'
    <3>1. suspect' = Suspects
      BY <2>x DEF Proceed
    <3> QED BY <3>1 DEF Suspects
  <2>5. ASSUME SInv PROVE Kept(q, chroma', suspect')
    <3>1. OwnRows(q, chroma', suspect')
      <4>1. ASSUME q.preKnown, NEW i \in Present(n), chroma'[i] # NoChunk, i \notin q.pre
            PROVE  i \in created \/ i[1] \in suspect'
        <5>1. CASE chroma[i] # NoChunk
          <6>1. i \in op[w].created \/ i[1] \in suspect
            BY <1>7, <1>a, <2>2, <2>5, <4>1, <5>1, <1>m DEF Kept, OwnRows
          <6> QED BY <6>1, <2>4, <2>y, <1>3
        <5>2. CASE chroma[i] = NoChunk
          <6>1. i \in b
            BY <1>5, <1>8, <1>b, <4>1, <5>2
          <6> QED BY <6>1, <5>2, <1>c, <2>z
        <5> QED BY <5>1, <5>2
      <4> QED BY <4>1, <2>2 DEF OwnRows
    <3>2. Backed(q, chroma', suspect')
      <4>1. ASSUME NEW i \in Present(n), i \notin left, i[1] \notin suspect'
            PROVE  chroma'[i] = n[i]
        <5>1. CASE i \in b
          BY <5>1, <1>5, <1>8, <1>b
        <5>2. CASE i \notin b
          <6>1. i \notin op[w].left /\ i[1] \notin suspect
            BY <4>1, <5>2, <1>e, <2>4
          <6>2. chroma[i] = n[i]
            BY <6>1, <1>7, <1>a, <2>5, <4>1, <1>m DEF Kept, Backed
          <6> QED BY <6>2, <5>2, <1>5, <1>8, <1>b
        <5> QED BY <5>1, <5>2
      <4> QED BY <4>1, <2>2 DEF Backed
    <3> QED BY <3>1, <3>2 DEF Kept
  <2> QED BY <1>5, <1>8, <2>x, <2>1, <2>2, <2>3, <2>5, ProceedKeeps
<1>9. CASE Done(call) /\ o.left = {} /\ Added(w, o)
  <2>0. suspect \subseteq Suspects
    BY DEF Suspects
  <2>1. ASSUME SInv, NEW i \in Present(n), i[1] \notin Suspects PROVE chroma'[i] = n[i]
    <3>1. CASE i \in b
      BY <3>1, <1>5, <1>9, <1>b
    <3>2. CASE i \notin b
      <4>1. i \notin op[w].left /\ i[1] \notin suspect
        BY <2>0, <2>1, <3>2, <1>e, <1>9, <1>3
      <4>2. chroma[i] = n[i]
        BY <4>1, <1>7, <1>a, <2>1, <1>m DEF Kept, Backed
      <4> QED BY <4>2, <3>2, <1>5, <1>9, <1>b
    <3> QED BY <3>1, <3>2
  <2> QED BY <1>3, <1>5, <1>6, <1>9, <2>1, AddedKeeps
<1>10. CASE /\ Raised(call)
            /\ Proceed(w, [o EXCEPT !.pc = "rollback",
                             !.created = IF late' = late THEN @ ELSE @ \cup mine], {})
  <2> DEFINE created == IF late' = late THEN o.created ELSE o.created \cup mine
  <2>0. created \in SUBSET Ids /\ \A i \in o.created : i \in created
    BY <1>a, <1>3, <1>c
  <2>x. Proceed(w, [o EXCEPT !.pc = "rollback", !.created = created], {})
    BY <1>10
  <2> HIDE DEF created
  <2>1. PICK q \in Op : q = [o EXCEPT !.pc = "rollback", !.created = created]
    <3>1. "rollback" \in Places
      BY DEF Places
    <3> QED BY <2>0, <3>1 DEF Op
  <2>2. /\ q.scope = op[w].scope /\ q.pc = "rollback" /\ q.kind = op[w].kind /\ q.src = op[w].src
        /\ q.todo = op[w].todo /\ q.prep = op[w].prep /\ q.dels = op[w].dels /\ q.new = n
        /\ q.events = op[w].events /\ q.target = op[w].target /\ q.ids = op[w].ids /\ q.pre = op[w].pre
        /\ q.preKnown = op[w].preKnown /\ q.created = created
        /\ q.left = left /\ q.attempted = tried
    BY <1>3, <2>1 DEF Op
  <2>3. Shape(q)
    BY <2>2, <1>a, <1>d DEF Shape
  <2>4. suspect \subseteq suspect'
    <3>1. suspect' = Suspects
      BY <2>x DEF Proceed
    <3> QED BY <3>1 DEF Suspects
  <2>5. Effect(w) /\ chroma' = chroma
    BY <1>10, <1>a, <1>f, RaisedEffect
  <2>6. ASSUME SInv PROVE Kept(q, chroma', suspect')
    <3>1. OwnRows(q, chroma', suspect')
      <4>1. ASSUME q.preKnown, NEW i \in Present(n), chroma'[i] # NoChunk, i \notin q.pre
            PROVE  i \in created \/ i[1] \in suspect'
        <5>1. i \in op[w].created \/ i[1] \in suspect
          BY <1>7, <1>a, <2>2, <2>5, <2>6, <4>1, <1>m DEF Kept, OwnRows
        <5> QED BY <5>1, <2>0, <2>4, <1>3
      <4> QED BY <4>1, <2>2 DEF OwnRows
    <3>2. Backed(q, chroma', suspect')
      BY <2>2 DEF Backed
    <3> QED BY <3>1, <3>2 DEF Kept
  <2> QED BY <2>x, <2>1, <2>2, <2>3, <2>5, <2>6, ProceedKeeps
<1>11. CASE Applied(call) /\ Refused /\ Finish(w, Abandoned(op[w]))
  <2>1. Effect(w)
    BY <1>11, <1>a, <1>b, <1>f, AppliedEffect
  <2>2. Abandoned(op[w]) \in SUBSET Papers
    BY <1>a, AbandonedPapers
  <2> QED BY <1>11, <2>1, <2>2, FinishKeeps
<1> QED BY <1>4, <1>8, <1>9, <1>10, <1>11

LEMMA RollbackStep ==
  ASSUME TInv, NEW w \in Workers, Rollback(w)
  PROVE  TInv' /\ (SInv => SInv')
<1> DEFINE orphans == Orphans(op[w])
           kept == {i[1] : i \in op[w].attempted \cap op[w].pre}
           aborted == IF op[w].kind = "replay" THEN Papers ELSE {}
           named == {i[1] : i \in orphans}
<1>1. /\ op[w].attempted \subseteq Ids /\ op[w].attempted \subseteq Present(op[w].new)
      /\ \A i \in Present(op[w].new) : i[1] \in op[w].scope
  BY OwnFacts DEF Rollback, Shape, Op
<1>2. orphans \subseteq op[w].attempted
  BY DEF Orphans
<1>3. kept \cup aborted \in SUBSET Papers /\ kept \cup aborted \cup named \in SUBSET Papers
  BY <1>1, <1>2, IdsArePairs
<1>4. /\ UNCHANGED log
      /\ \/ Done(Delete(orphans)) /\ Finish(w, kept \cup aborted)
         \/ Raised(Delete(orphans)) /\ Finish(w, kept \cup aborted \cup named)
  BY DEF Rollback
<1>5. orphans \in SUBSET Ids /\ \A i \in orphans : i[1] \in op[w].scope
  BY <1>1, <1>2
<1> HIDE DEF orphans, kept, aborted, named
<1>6. Delete(orphans) \in Call /\ \A i \in RowsOf(Delete(orphans)) : i[1] \in op[w].scope
  BY <1>5, DeleteCall
<1>7. Effect(w)
  BY <1>4, <1>6, DoneEffect, RaisedEffect
<1> QED BY <1>3, <1>4, <1>7, FinishKeeps

LEMMA RecordStep ==
  ASSUME TInv, NEW w \in Workers, Record(w)
  PROVE  TInv' /\ (SInv => SInv')
<1>1. PICK failed \in SUBSET op[w].prep :
        /\ NoFault \/ Refused
        /\ log' = [p \in Papers |-> IF p \in op[w].prep \ failed
                                    THEN ChunksOf(op[w].new, p) ELSE log[p]]
        /\ Finish(w, failed)
  BY DEF Record
<1>2. failed \in SUBSET Papers
  BY OwnFacts DEF Op
<1>3. log' \in Logs
  <2>1. op[w].new \in Rows /\ log \in Logs
    BY OwnFacts
  <2>2. \A p \in Papers : ChunksOf(op[w].new, p) \in Content
    BY <2>1, ContentOfRows
  <2> QED BY <1>1, <2>1, <2>2 DEF Logs
<1>4. Effect(w)
  BY <1>1, <1>3, ReadEffect DEF Record
<1> QED BY <1>1, <1>2, <1>4, FinishKeeps

-----------------------------------------------------------------------------
(* Replay, backfill, purge and patch. *)

\* The collection is replaced by an empty one, or is not; the log stays.
LEMMA ResetEffect ==
  ASSUME TInv, NEW w \in Workers, op[w].scope = Papers, UNCHANGED log,
         \/ NoFault /\ chroma' = Empty /\ late' = {}
         \/ Refused /\ UNCHANGED <<chroma, late>>
  PROVE  Effect(w)
<1>1. Budgeted'
  BY BudgetKept DEF TInv, Typed
<1>2. \A i \in Ids : i[1] \in op[w].scope
  BY IdsArePairs
<1> QED BY <1>1, <1>2, EmptyRows DEF Effect, TInv, Typed

LEMMA ReplayResetStep ==
  ASSUME TInv, NEW w \in Workers, ReplayReset(w)
  PROVE  TInv' /\ (SInv => SInv')
<1>a. op[w] \in Op /\ Shape(op[w]) /\ op[w].pc = "reset" /\ op[w].scope = Papers
  BY OwnFacts DEF ReplayReset, Shape
<1>1. Effect(w)
  BY <1>a, ResetEffect DEF ReplayReset
<1> DEFINE todo == {p \in Papers : op[w].events[p] # NoRow}
<1>2. Proceed(w, [op[w] EXCEPT !.pc = "replay", !.todo = todo], {})
  BY DEF ReplayReset
<1>3. todo \in SUBSET Papers /\ \A p \in todo : op[w].events[p] # NoRow
  OBVIOUS
<1> HIDE DEF todo
<1>4. PICK o \in Op : o = [op[w] EXCEPT !.pc = "replay", !.todo = todo]
  <2>1. "replay" \in Places
    BY DEF Places
  <2> QED BY <2>1, <1>3, <1>a DEF Op
<1>5. /\ o.scope = op[w].scope /\ o.pc = "replay" /\ o.kind = op[w].kind /\ o.src = op[w].src
      /\ o.todo = todo /\ o.prep = op[w].prep /\ o.dels = op[w].dels /\ o.new = op[w].new
      /\ o.events = op[w].events /\ o.target = op[w].target /\ o.ids = op[w].ids
  BY <1>4, <1>a DEF Op
<1>6. o.kind = "replay"
  BY <1>5, <1>a DEF Shape
<1>7. Shape(o)
  BY <1>3, <1>5, <1>6, <1>a DEF Shape
<1> QED BY <1>1, <1>2, <1>4, <1>5, <1>7, GoesOn

LEMMA ReplayPaperStep ==
  ASSUME TInv, NEW w \in Workers, ReplayPaper(w)
  PROVE  TInv' /\ (SInv => SInv')
<1>a. op[w] \in Op /\ Shape(op[w]) /\ op[w].pc = "replay" /\ op[w].kind = "replay"
  BY OwnFacts DEF ReplayPaper, Shape
<1>1. Effect(w)
  BY ReadOnlyEffect DEF ReplayPaper
<1>2. CASE Finish(w, Papers)
  BY <1>1, <1>2, FinishKeeps
<1>3. ASSUME NEW p \in op[w].todo,
             Proceed(w, [op[w] EXCEPT !.pc = "preexist", !.todo = @ \ {p},
                           !.new = [i \in Ids |-> IF i[1] = p THEN op[w].events[p][i[2]]
                                                              ELSE NoChunk]], {})
      PROVE  TInv' /\ (SInv => SInv')
  <2> DEFINE rows == [i \in Ids |-> IF i[1] = p THEN op[w].events[p][i[2]] ELSE NoChunk]
             todo == op[w].todo \ {p}
  <2>1. p \in op[w].scope /\ p \in Papers /\ op[w].events[p] \in Content
    <3>1. p \in op[w].scope /\ p \in Papers /\ op[w].events \in Logs /\ op[w].events[p] # NoRow
      BY <1>a DEF Shape, Op
    <3> QED BY <3>1 DEF Logs
  <2>2. rows \in Rows /\ \A i \in Present(rows) : i[1] \in op[w].scope
    BY <2>1, IdsArePairs DEF Rows, Content, Present
  <2>3. todo \in SUBSET Papers /\ todo \subseteq op[w].todo
    BY <1>a DEF Op
  <2>x. Proceed(w, [op[w] EXCEPT !.pc = "preexist", !.todo = todo, !.new = rows], {})
    BY <1>3
  <2> HIDE DEF rows, todo
  <2>4. PICK o \in Op : o = [op[w] EXCEPT !.pc = "preexist", !.todo = todo, !.new = rows]
    <3>1. "preexist" \in Places
      BY DEF Places
    <3> QED BY <3>1, <2>2, <2>3, <1>a DEF Op
  <2>5. /\ o.scope = op[w].scope /\ o.pc = "preexist" /\ o.kind = op[w].kind /\ o.src = op[w].src
        /\ o.todo = todo /\ o.prep = op[w].prep /\ o.dels = op[w].dels /\ o.new = rows
        /\ o.events = op[w].events /\ o.target = op[w].target /\ o.ids = op[w].ids
    BY <2>4, <1>a DEF Op
  <2>6. Shape(o)
    BY <2>2, <2>3, <2>5, <1>a DEF Shape
  <2> QED BY <1>1, <2>x, <2>4, <2>5, <2>6, GoesOn
<1> QED BY <1>2, <1>3 DEF ReplayPaper

LEMMA BackfillStep ==
  ASSUME TInv, NEW w \in Workers, BackfillWrite(w)
  PROVE  TInv' /\ (SInv => SInv')
<1>1. log' \in Logs
  <2>1. op[w].new \in Rows /\ log \in Logs
    BY OwnFacts
  <2>2. \A p \in Papers : ChunksOf(op[w].new, p) \in Content
    BY <2>1, ContentOfRows
  <2> QED BY <2>1, <2>2 DEF Logs, BackfillWrite
<1>2. Effect(w)
  BY <1>1, ReadEffect DEF BackfillWrite
<1> QED BY <1>2, FinishKeeps DEF BackfillWrite

LEMMA PurgeStep ==
  ASSUME TInv, NEW w \in Workers, Purge(w)
  PROVE  TInv' /\ (SInv => SInv')
<1>a. op[w] \in Op /\ Shape(op[w]) /\ op[w].pc = "purge" /\ op[w].scope = Papers
  BY OwnFacts DEF Purge, Shape
<1>1. Effect(w)
  BY <1>a, ResetEffect DEF Purge
<1>2. CASE Finish(w, {})
  BY <1>1, <1>2, FinishKeeps
<1>3. CASE Proceed(w, [op[w] EXCEPT !.pc = "clearLog"], {})
  <2>1. PICK o \in Op : o = [op[w] EXCEPT !.pc = "clearLog"]
    <3>1. "clearLog" \in Places
      BY DEF Places
    <3> QED BY <3>1, <1>a DEF Op
  <2>2. /\ o.scope = op[w].scope /\ o.pc = "clearLog" /\ o.kind = op[w].kind /\ o.src = op[w].src
        /\ o.todo = op[w].todo /\ o.prep = op[w].prep /\ o.dels = op[w].dels /\ o.new = op[w].new
        /\ o.events = op[w].events /\ o.target = op[w].target /\ o.ids = op[w].ids
    BY <2>1, <1>a DEF Op
  <2>3. Shape(o)
    BY <2>2, <1>a DEF Shape
  <2> QED BY <1>1, <1>3, <2>1, <2>2, <2>3, GoesOn
<1> QED BY <1>2, <1>3 DEF Purge

LEMMA ClearLogStep ==
  ASSUME TInv, NEW w \in Workers, ClearLog(w)
  PROVE  TInv' /\ (SInv => SInv')
<1>1. log' \in Logs /\ (Finish(w, {}) \/ Finish(w, Papers))
  BY OwnFacts DEF Logs, ClearLog
<1>2. Effect(w)
  BY <1>1, ReadEffect DEF ClearLog
<1> QED BY <1>1, <1>2, FinishKeeps

LEMMA PatchStep ==
  ASSUME TInv, NEW w \in Workers, PatchWrite(w)
  PROVE  TInv' /\ (SInv => SInv')
<1> DEFINE ids == op[w].ids
<1>1. ids \in SUBSET Ids /\ \A i \in ids : i[1] \in op[w].scope
  BY OwnFacts DEF Op, Shape
<1>2. UNCHANGED log /\ (Done(Update(ids)) \/ Raised(Update(ids))) /\ Finish(w, {})
  BY DEF PatchWrite
<1> HIDE DEF ids
<1>3. Update(ids) \in Call /\ \A i \in RowsOf(Update(ids)) : i[1] \in op[w].scope
  BY <1>1, UpdateCall
<1>4. Effect(w)
  BY <1>2, <1>3, DoneEffect, RaisedEffect
<1> QED BY <1>2, <1>4, FinishKeeps

-----------------------------------------------------------------------------
(* Late calls and crashes. *)

LEMMA LandStep ==
  ASSUME TInv, Land
  PROVE  TInv' /\ (SInv => SInv')
<1>1. PICK c \in late :
        /\ chroma' = After(chroma, c) /\ late' = late \ {c}
        /\ UNCHANGED <<log, op, reported, suspect, budget>>
  BY DEF Land
<1>2. c \in Call /\ chroma \in Rows
  BY DEF TInv, Typed
<1>3. /\ chroma' \in Rows
      /\ \A i \in Ids : i \notin RowsOf(c) => chroma'[i] = chroma[i]
  BY <1>1, <1>2, AfterRows
<1>4. TInv'
  BY <1>1, <1>3 DEF TInv, Typed, Budgeted, budget
<1>5. ASSUME SInv PROVE SInv'
  <2>1. \A i \in Ids : i[1] \notin suspect => chroma'[i] = chroma[i]
    BY <1>2, <1>3, <1>5, CallTouches DEF SInv, LateSuspect
  <2>2. ASSUME NEW w \in Workers PROVE Kept(op[w], chroma', suspect)
    <3>1. Kept(op[w], chroma, suspect)
      BY <1>5 DEF SInv
    <3>2. \A i \in Present(op[w].new) : i \in Ids
      BY DEF Present
    <3>3. OwnRows(op[w], chroma', suspect)
      BY <2>1, <3>1, <3>2 DEF Kept, OwnRows
    <3>4. Backed(op[w], chroma', suspect)
      BY <2>1, <3>1, <3>2 DEF Kept, Backed
    <3> QED BY <3>3, <3>4 DEF Kept
  <2> QED BY <1>1, <1>5, <2>2 DEF SInv, Disjoint, LateSuspect
<1> QED BY <1>4, <1>5

LEMMA VanishStep ==
  ASSUME TInv, Vanish
  PROVE  TInv' /\ (SInv => SInv')
<1>1. /\ late' \subseteq late
      /\ UNCHANGED <<chroma, log, op, reported, suspect, budget>>
  BY DEF Vanish
<1>2. TInv'
  BY <1>1 DEF TInv, Typed, Budgeted, budget
<1>3. SInv => SInv'
  BY <1>1 DEF SInv, Disjoint, LateSuspect
<1> QED BY <1>2, <1>3

LEMMA CrashStep ==
  ASSUME TInv, Crash
  PROVE  TInv' /\ (SInv => SInv')
<1>1. /\ crashes < MaxCrashes /\ crashes' = crashes + 1
      /\ op' = [w \in Workers |-> Idle] /\ late' = {}
      /\ suspect' = suspect \cup UNION {op[w].scope : w \in Workers}
      /\ UNCHANGED <<chroma, log, reported, faults, timeouts, started>>
  BY DEF Crash
<1>2. \A w \in Workers : op'[w] = Idle
  BY <1>1
<1>3. suspect' \subseteq Papers
  <2>1. \A w \in Workers : op[w].scope \subseteq Papers
    BY OwnFacts
  <2> QED BY <1>1, <2>1 DEF TInv, Typed
<1>4. Budgeted'
  <2>1. MaxCrashes \in Nat
    BY CorpusAssumption
  <2> QED BY <1>1, <2>1 DEF TInv, Typed, Budgeted
<1>5. op' \in [Workers -> Op] /\ \A w \in Workers : Shape(op'[w])
  BY <1>1, <1>2, IdleShape
<1>6. TInv'
  BY <1>1, <1>3, <1>4, <1>5 DEF TInv, Typed
<1>7. ASSUME SInv PROVE SInv'
  <2>1. Disjoint'
    BY <1>2, IdleShape DEF Disjoint
  <2>2. LateSuspect'
    BY <1>1 DEF LateSuspect
  <2>3. \A w \in Workers : Kept(op'[w], chroma', suspect')
    BY <1>2, IdleShape
  <2> QED BY <1>7, <2>1, <2>2, <2>3 DEF SInv
<1> QED BY <1>6, <1>7

LEMMA NextKeeps ==
  ASSUME TInv, [Next]_vars
  PROVE  TInv' /\ (SInv => SInv')
<1>1. ASSUME NEW w \in Workers, Step(w) PROVE TInv' /\ (SInv => SInv')
  BY <1>1, StartStep, CheckStep, EmbedStep, DeleteStep, PreexistStep, UpsertStep, RollbackStep,
     RecordStep, ReplayResetStep, ReplayPaperStep, BackfillStep, PurgeStep, ClearLogStep, PatchStep
     DEF Step
<1>2. CASE UNCHANGED vars
  <2>1. TInv'
    BY <1>2 DEF TInv, Typed, Budgeted, vars, budget
  <2>2. SInv => SInv'
    BY <1>2 DEF SInv, Disjoint, LateSuspect, vars
  <2> QED BY <2>1, <2>2
<1> QED BY <1>1, <1>2, LandStep, VanishStep, CrashStep DEF Next

LEMMA Initially ==
  ASSUME Init
  PROVE  TInv /\ (~Overlap => SInv)
<1>1. \A w \in Workers : op[w] = Idle
  BY DEF Init
<1>2. Empty \in Rows /\ [p \in Papers |-> NoRow] \in Logs
  BY EmptyRows DEF Logs
<1>3. Budgeted
  <2>1. MaxFaults \in Nat /\ MaxTimeouts \in Nat /\ MaxCrashes \in Nat /\ MaxOps \in Nat
    BY CorpusAssumption
  <2> QED BY <2>1 DEF Init, Budgeted
<1>4. op \in [Workers -> Op]
  BY IdleShape DEF Init
<1>5. TInv
  BY <1>1, <1>2, <1>3, <1>4, IdleShape DEF Init, TInv, Typed
<1>6. LateSuspect /\ Disjoint /\ \A w \in Workers : Kept(op[w], chroma, suspect)
  BY <1>1, IdleShape DEF Init, LateSuspect, Disjoint
<1> QED BY <1>5, <1>6 DEF SInv

-----------------------------------------------------------------------------
(* A step of a worker leaves the others alone. *)

LEMMA StepLocal ==
  ASSUME NEW w \in Workers, Step(w), op \in [Workers -> Op]
  PROVE  \A u \in Workers : u # w => op'[u] = op[u]
<1> DEFINE Local == \A u \in Workers : u # w => op'[u] = op[u]
<1>1. ASSUME NEW o, NEW rep, Proceed(w, o, rep) PROVE Local
  BY <1>1 DEF Proceed
<1>2. ASSUME NEW rep, Finish(w, rep) PROVE Local
  BY <1>2 DEF Finish
<1>3. ASSUME NEW S, NEW o, Begin(w, S, o) PROVE Local
  BY <1>3 DEF Begin
<1>4. ASSUME NEW p, NEW outcome, DeleteReturned(w, p, outcome) PROVE Local
  BY <1>1, <1>2, <1>4 DEF DeleteReturned
<1>5. ASSUME NEW p, NEW keep, NEW del, Checked(w, p, keep, del) PROVE Local
  BY <1>1, <1>2, <1>5 DEF Checked
<1>6. ASSUME NEW o, Added(w, o) PROVE Local
  BY <1>1, <1>2, <1>6 DEF Added
<1> HIDE DEF Local
<1>7. ASSUME StartIngest(w) \/ StartDelete(w) \/ StartReindexRoute(w) \/ StartReplay(w)
             \/ StartBackfill(w) \/ StartPurge(w) \/ StartPatch(w)
      PROVE  Local
  BY <1>3, <1>7 DEF StartIngest, StartDelete, StartReindexRoute, StartReplay, StartBackfill,
     StartPurge, StartPatch
<1>8. ASSUME Check(w) \/ Embed(w) PROVE Local
  BY <1>1, <1>2, <1>5, <1>8 DEF Check, Embed
<1>9. ASSUME DelGet(w) \/ DelDo(w) \/ Cascade(w) PROVE Local
  BY <1>1, <1>4, <1>9 DEF DelGet, DelDo, Cascade
<1>10. ASSUME Preexist(w) \/ UpsertBatch(w) \/ Rollback(w) \/ Record(w) PROVE Local
  BY <1>1, <1>2, <1>6, <1>10 DEF Preexist, UpsertBatch, Rollback, Record
<1>11. ASSUME ReplayReset(w) \/ ReplayPaper(w) \/ BackfillWrite(w) PROVE Local
  BY <1>1, <1>2, <1>11 DEF ReplayReset, ReplayPaper, BackfillWrite
<1>12. ASSUME Purge(w) \/ ClearLog(w) \/ PatchWrite(w) PROVE Local
  BY <1>1, <1>2, <1>12 DEF Purge, ClearLog, PatchWrite
<1>13. Local
  BY <1>7, <1>8, <1>9, <1>10, <1>11, <1>12 DEF Step
<1> QED BY <1>13 DEF Local

\* A worker in its rollback takes no other step.
LEMMA StepOfRollback ==
  ASSUME NEW w \in Workers, Step(w), op[w].pc = "rollback"
  PROVE  Rollback(w)
<1>1. ~(StartIngest(w) \/ StartDelete(w) \/ StartReindexRoute(w) \/ StartReplay(w)
        \/ StartBackfill(w) \/ StartPurge(w) \/ StartPatch(w))
  BY DEF StartIngest, StartDelete, StartReindexRoute, StartReplay, StartBackfill, StartPurge,
     StartPatch, Begin
<1>2. ~(Check(w) \/ Embed(w) \/ DelGet(w) \/ DelDo(w) \/ Cascade(w) \/ Preexist(w)
        \/ UpsertBatch(w) \/ Record(w) \/ ReplayReset(w) \/ ReplayPaper(w) \/ BackfillWrite(w)
        \/ Purge(w) \/ ClearLog(w) \/ PatchWrite(w))
  BY DEF Check, Embed, DelGet, DelDo, Cascade, Preexist, UpsertBatch, Record, ReplayReset,
     ReplayPaper, BackfillWrite, Purge, ClearLog, PatchWrite
<1> QED BY <1>1, <1>2 DEF Step

\* What a rollback removes: rows its call created, or rows in doubt.
LEMMA RollbackRemoves ==
  ASSUME TInv, SInv, NEW w \in Workers, Rollback(w), op[w].preKnown,
         NEW i \in Present(chroma) \ Present(chroma')
  PROVE  i \in op[w].created \/ PaperOf(i) \in suspect
<1> DEFINE orphans == Orphans(op[w])
<1>1. /\ op[w].pc = "rollback" /\ op[w].attempted \subseteq Present(op[w].new)
      /\ op[w].attempted \subseteq Ids /\ chroma \in Rows
  BY OwnFacts DEF Rollback, Shape, Op
<1>2. orphans \subseteq Present(op[w].new) /\ \A j \in orphans : j \notin op[w].pre
  BY <1>1 DEF Orphans
<1>3. orphans \in SUBSET Ids
  BY <1>1 DEF Orphans
<1>4. i \in Ids /\ chroma[i] # NoChunk /\ chroma'[i] = NoChunk
  BY DEF Present
<1>5. Done(Delete(orphans)) \/ chroma' = chroma
  BY DEF Rollback, Raised
<1> HIDE DEF orphans
<1>6. i \in orphans
  <2>1. Delete(orphans) \in Call /\ RowsOf(Delete(orphans)) = orphans
    BY <1>3, DeleteCall
  <2>2. i \notin orphans => After(chroma, Delete(orphans))[i] = chroma[i]
    BY <1>1, <1>4, <2>1, AfterRows
  <2> QED BY <1>4, <1>5, <2>2 DEF Done, Applied
<1> QED BY <1>1, <1>2, <1>4, <1>6 DEF SInv, Kept, OwnRows, PaperOf

LEMMA RollbackKept ==
  ASSUME TInv, SInv, [Next]_vars
  PROVE  [\A w \in Workers :
            op[w].pc = "rollback" /\ op[w].preKnown /\ op'[w] = Idle =>
              \A i \in Present(chroma) \ Present(chroma') :
                i \in op[w].created \/ PaperOf(i) \in suspect]_vars
<1>1. SUFFICES ASSUME NEW w \in Workers, op[w].pc = "rollback", op[w].preKnown, op'[w] = Idle,
                      NEW i \in Present(chroma) \ Present(chroma')
               PROVE  i \in op[w].created \/ PaperOf(i) \in suspect
  OBVIOUS
<1>2. op'[w] # op[w]
  BY <1>1, IdleShape
<1>3. Present(chroma') # Present(chroma)
  BY <1>1
<1>4. CASE Step(w)
  BY <1>1, <1>4, StepOfRollback, RollbackRemoves
<1>5. ASSUME NEW u \in Workers, Step(u), u # w PROVE FALSE
  BY <1>2, <1>5, StepLocal DEF TInv, Typed
<1>6. ~(Land \/ Vanish \/ Crash \/ UNCHANGED vars)
  BY <1>2, <1>3 DEF Land, Vanish, Crash, vars
<1> QED BY <1>4, <1>5, <1>6 DEF Next

-----------------------------------------------------------------------------
(* What enters the log. *)

Drops == \A p \in Papers : log'[p] \in {log[p], NoRow}
Writes(w) ==
  /\ op[w].pc \in {"record", "backfill"} /\ UNCHANGED chroma
  /\ \A p \in Papers : log'[p] \in {log[p], ChunksOf(op[w].new, p)}

LEMMA LogStep ==
  ASSUME TInv, [Next]_vars
  PROVE  Drops \/ \E w \in Workers : Writes(w)
<1>0. log \in Logs
  BY DEF TInv, Typed
<1>1. ASSUME UNCHANGED log PROVE Drops
  BY <1>1 DEF Drops
<1>2. ASSUME NEW w \in Workers, Step(w) PROVE Drops \/ Writes(w)
  <2>1. CASE Record(w)
    BY <2>1 DEF Record, Writes
  <2>2. CASE BackfillWrite(w)
    BY <2>2 DEF BackfillWrite, Writes
  <2>3. CASE Cascade(w)
    BY <1>0, <2>3 DEF Cascade, Drops, Logs
  <2>4. CASE ClearLog(w)
    BY <2>4 DEF ClearLog, Drops
  <2>5. CASE StartIngest(w) \/ StartDelete(w) \/ StartReindexRoute(w) \/ StartReplay(w)
             \/ StartBackfill(w) \/ StartPurge(w) \/ StartPatch(w)
    <3>1. UNCHANGED log
      BY <2>5 DEF StartIngest, StartDelete, StartReindexRoute, StartReplay, StartBackfill,
         StartPurge, StartPatch, Begin
    <3> QED BY <1>1, <3>1
  <2>6. CASE Check(w) \/ Embed(w) \/ DelGet(w) \/ DelDo(w) \/ Preexist(w) \/ UpsertBatch(w)
             \/ Rollback(w) \/ ReplayReset(w) \/ ReplayPaper(w) \/ Purge(w) \/ PatchWrite(w)
    <3>1. UNCHANGED log
      BY <2>6 DEF Check, Embed, DelGet, DelDo, Preexist, UpsertBatch, Rollback, ReplayReset,
         ReplayPaper, Purge, PatchWrite, ReadOnly
    <3> QED BY <1>1, <3>1
  <2> QED BY <1>2, <2>1, <2>2, <2>3, <2>4, <2>5, <2>6 DEF Step
<1>3. ASSUME Land \/ Vanish \/ Crash \/ UNCHANGED vars PROVE UNCHANGED log
  BY <1>3 DEF Land, Vanish, Crash, vars
<1> QED BY <1>1, <1>2, <1>3 DEF Next

LEMMA BackedKept ==
  ASSUME TInv, SInv, [Next]_vars
  PROVE  [\A p \in Papers :
            log'[p] \notin {log[p], NoRow} /\ p \notin suspect =>
              \A s \in Slots : log'[p][s] # NoChunk => chroma[<<p, s>>] = log'[p][s]]_vars
<1>1. SUFFICES ASSUME NEW p \in Papers, log'[p] \notin {log[p], NoRow}, p \notin suspect,
                      NEW s \in Slots, log'[p][s] # NoChunk
               PROVE  chroma[<<p, s>>] = log'[p][s]
  OBVIOUS
<1>2. PICK w \in Workers : Writes(w)
  BY <1>1, LogStep DEF Drops
<1>3. log'[p] = ChunksOf(op[w].new, p)
  BY <1>1, <1>2 DEF Writes
<1>4. log'[p][s] = op[w].new[<<p, s>>]
  BY <1>3 DEF ChunksOf
<1>5. <<p, s>> \in Present(op[w].new) /\ <<p, s>>[1] = p
  BY <1>1, <1>4 DEF Present, Ids
<1> QED BY <1>1, <1>2, <1>4, <1>5 DEF SInv, Kept, Backed, Writes

-----------------------------------------------------------------------------
(* The theorems. *)

\* The collection, the log and the bookkeeping of the operations have their types, whatever
\* operations run together, crash, or leave late calls behind.
THEOREM TypeCorrect == Spec => []TypeOK
<1>1. Init => TInv
  BY Initially
<1>2. TInv /\ [Next]_vars => TInv'
  BY NextKeeps
<1>3. TInv => TypeOK
  <2>1. TInv => \A w \in Workers : op[w] \in Op
    BY DEF TInv, Typed
  <2>2. MaxFaults \in Nat /\ MaxTimeouts \in Nat /\ MaxCrashes \in Nat /\ MaxOps \in Nat
    BY CorpusAssumption
  <2>3. TInv => <<faults, timeouts, crashes, started>> \in
                  (0..MaxFaults) \X (0..MaxTimeouts) \X (0..MaxCrashes) \X (0..MaxOps)
    BY <2>2 DEF TInv, Typed, Budgeted
  <2> QED BY <2>1, <2>3 DEF TInv, Typed, TypeOK, Op, Rows, Logs
<1> QED BY <1>1, <1>2, <1>3, PTL DEF Spec

\* add_documents undoes its own work only: while operations keep to papers of their own, a
\* rollback removes rows that its call created, or rows of a paper in doubt.
THEOREM RollbackAlwaysOwn == ~Overlap => (Spec => RollbackOnlyOwn)
<1>1. SUFFICES ASSUME ~Overlap PROVE Spec => RollbackOnlyOwn
  OBVIOUS
<1>2. Init => TInv /\ SInv
  BY <1>1, Initially
<1>3. TInv /\ SInv /\ [Next]_vars => (TInv /\ SInv)'
  BY NextKeeps
<1>4. TInv /\ SInv /\ [Next]_vars =>
        [\A w \in Workers :
            op[w].pc = "rollback" /\ op[w].preKnown /\ op'[w] = Idle =>
              \A i \in Present(chroma) \ Present(chroma') :
                i \in op[w].created \/ PaperOf(i) \in suspect]_vars
  BY RollbackKept
<1> QED BY <1>2, <1>3, <1>4, PTL DEF Spec, RollbackOnlyOwn

\* The log follows the collection: while operations keep to papers of their own, a row that
\* enters the log lists chunks the collection holds at that moment, or its paper is in doubt.
THEOREM LogRowsAlwaysBacked == ~Overlap => (Spec => LogRowsAreBacked)
<1>1. SUFFICES ASSUME ~Overlap PROVE Spec => LogRowsAreBacked
  OBVIOUS
<1>2. Init => TInv /\ SInv
  BY <1>1, Initially
<1>3. TInv /\ SInv /\ [Next]_vars => (TInv /\ SInv)'
  BY NextKeeps
<1>4. TInv /\ SInv /\ [Next]_vars =>
        [\A p \in Papers :
            log'[p] \notin {log[p], NoRow} /\ p \notin suspect =>
              \A s \in Slots : log'[p][s] # NoChunk => chroma[<<p, s>>] = log'[p][s]]_vars
  BY BackedKept
<1> QED BY <1>2, <1>3, <1>4, PTL DEF Spec, LogRowsAreBacked
-----------------------------------------------------------------------------
(***************************************************************************)
(* NoSilentDivergence, where operations keep to papers of their own and    *)
(* the purge route is left out.  A paper that no operation failed over, no *)
(* crash and no late call concerns (Trusted) agrees with the log when no   *)
(* operation is at it; while one is, it is as far as that operation has    *)
(* got (Story), and whichever way the operation ends, it agrees again or   *)
(* the operation failed over it.                                           *)
(***************************************************************************)

Trusted(p) == p \notin reported \cup suspect

Same(a, b) == (a = NoChunk <=> b = NoChunk) /\ (a # NoChunk => a.ver = b.ver)
Agrees(ch, lg, p) == \A s \in Slots : Same(ch[<<p, s>>], Logged(lg, p)[s])
Bare(ch, p) == \A s \in Slots : ch[<<p, s>>] = NoChunk
LogBare(lg, p) == \A s \in Slots : Logged(lg, p)[s] = NoChunk

\* Where an operation may be, by its kind, and what it then has at hand.
Order(o, lg) ==
  /\ o.kind # "purgeRoute"
  /\ o.pc = "idle" => o.scope = {}
  /\ o.pc = "purge" => o.kind = "purgeCli"
  /\ o.pc \in {"backfill", "clearLog"} => o.scope = Papers
  /\ o.pc \in {"preexist", "upsert", "rollback"} => o.kind \in {"ingest", "reindex", "replay"}
  /\ o.pc \in {"embed", "record"} => o.kind \in {"ingest", "reindex"}
  /\ o.pc \in {"delGet", "delDo", "cascade"} => o.kind \in {"ingest", "reindex", "delete"}
  /\ o.pc \in {"delDo", "cascade"} => \E p \in Papers : o.target = {p}
  /\ o.pc \in {"preexist", "upsert", "rollback", "record"} => o.dels = {}
  /\ o.kind = "delete" => o.prep = {}
  /\ o.kind = "replay" => o.dels = {}
  /\ o.kind \in {"ingest", "reindex"} => \A i \in Present(o.new) : i[1] \in o.prep
  /\ o.kind = "replay" => \A p \in o.scope : o.events[p] = lg[p]
  /\ o.kind = "replay" /\ o.pc \in {"preexist", "upsert"} =>
       \A i \in Present(o.new) : o.new[i] = Logged(lg, i[1])[i[2]]

\* What holds of a trusted paper of an operation that replaces chunks (ingest, delete, reindex):
\* it agrees, but for one whose chunks are deleted and whose row is not yet, and for one
\* that had neither and whose chunks are being written.
Replacing(o, ch, lg, p) ==
  /\ o.pc \in {"check", "embed", "delGet", "delDo", "preexist"} => Agrees(ch, lg, p)
  /\ o.pc = "delDo" /\ o.ids = {} /\ p \in o.target => Bare(ch, p)
  /\ o.pc = "cascade" => IF p \in o.target THEN Bare(ch, p) ELSE Agrees(ch, lg, p)
  /\ o.pc \in {"check", "embed", "delGet", "delDo", "cascade", "preexist"} /\ p \in o.prep =>
       p \in o.dels \/ Bare(ch, p)
  /\ o.pc \in {"upsert", "rollback", "record"} /\ p \notin o.prep => Agrees(ch, lg, p)
  /\ o.pc \in {"upsert", "rollback"} /\ p \in o.prep =>
       /\ LogBare(lg, p)
       /\ \A s \in Slots : <<p, s>> \notin o.pre /\ (ch[<<p, s>>] # NoChunk => <<p, s>> \in o.attempted)
  /\ o.pc = "record" /\ p \in o.prep =>
       \A s \in Slots : ch[<<p, s>>] # NoChunk => o.new[<<p, s>>] # NoChunk

\* Of one that replays the log: what is there is what is logged, and what was replayed is there.
Replaying(o, ch, lg, p) ==
  /\ o.pc = "reset" => Agrees(ch, lg, p)
  /\ o.pc \in {"replay", "preexist", "upsert"} => \A s \in Slots :
       /\ ch[<<p, s>>] # NoChunk => Same(ch[<<p, s>>], Logged(lg, p)[s])
       /\ /\ p \notin o.todo
          /\ o.pc = "preexist" => <<p, s>> \notin Present(o.new)
          /\ o.pc = "upsert" => <<p, s>> \notin o.left
          => Same(ch[<<p, s>>], Logged(lg, p)[s])

Story(o, ch, lg, p) ==
  /\ o.kind \in {"ingest", "reindex", "delete"} => Replacing(o, ch, lg, p)
  /\ o.kind = "replay" => Replaying(o, ch, lg, p)
  /\ o.pc \in {"purge", "backfill", "patch"} => Agrees(ch, lg, p)
  /\ o.pc = "backfill" => \A s \in Slots : ch[<<p, s>>] # NoChunk => o.new[<<p, s>>] # NoChunk
  /\ o.pc = "clearLog" => Bare(ch, p)

Told ==
  \A p \in Papers : Trusted(p) =>
    /\ (\A w \in Workers : p \notin op[w].scope) => Agrees(chroma, log, p)
    /\ \A w \in Workers : p \in op[w].scope => Story(op[w], chroma, log, p)

NInv == (\A w \in Workers : Order(op[w], log)) /\ Told

-----------------------------------------------------------------------------
(* Agreement, and what a step leaves of it. *)

LEMMA Agreement ==
  ASSUME NEW ch \in Rows, NEW lg \in Logs, NEW p \in Papers
  PROVE  Agrees(ch, lg, p) <=> ~Diverges(ch, lg, p)
<1> DEFINE a == ChunksOf(ch, p)
           b == Logged(lg, p)
<1>1. a \in Content /\ \A s \in Slots : a[s] = ch[<<p, s>>]
  BY ContentOfRows DEF ChunksOf
<1>2. b \in Content
  BY DEF Logged, NoChunks, Logs, Content
<1>3. \A s \in Slots : /\ a[s] \in Chunk \cup {NoChunk} /\ b[s] \in Chunk \cup {NoChunk}
  BY <1>1, <1>2 DEF Content
<1>4. NoChunk \notin Versions /\ \A c \in Chunk : c # NoChunk /\ c.ver \in Versions
  BY CorpusAssumption DEF Chunk
<1> HIDE DEF a, b
<1>5. \A s \in Slots : /\ Text(a)[s] = IF a[s] = NoChunk THEN NoChunk ELSE a[s].ver
                       /\ Text(b)[s] = IF b[s] = NoChunk THEN NoChunk ELSE b[s].ver
  BY DEF Text
<1>6. \A s \in Slots : Same(a[s], b[s]) <=> Text(a)[s] = Text(b)[s]
  BY <1>3, <1>4, <1>5 DEF Same
<1>7. Text(a) = Text(b) <=> \A s \in Slots : Text(a)[s] = Text(b)[s]
  BY DEF Text
<1> QED
  BY <1>1, <1>6, <1>7 DEF Agrees, Diverges, a, b

LEMMA IdOf ==
  ASSUME NEW p \in Papers, NEW s \in Slots
  PROVE  <<p, s>> \in Ids /\ <<p, s>>[1] = p /\ <<p, s>>[2] = s
  BY DEF Ids

LEMMA PresentRows ==
  ASSUME NEW ch \in Rows
  PROVE  Present(ch) \subseteq Ids /\ \A i \in Ids : i \in Present(ch) <=> ch[i] # NoChunk
  BY DEF Present

\* A step that does not touch the paper does not touch what is said of it.
LEMMA StorySame ==
  ASSUME NEW o, NEW ch, NEW lg, NEW ch2, NEW lg2, NEW p,
         \A s \in Slots : ch2[<<p, s>>] = ch[<<p, s>>], lg2[p] = lg[p]
  PROVE  /\ Agrees(ch, lg, p) <=> Agrees(ch2, lg2, p)
         /\ Story(o, ch, lg, p) => Story(o, ch2, lg2, p)
<1>1. Logged(lg2, p) = Logged(lg, p)
  BY DEF Logged
<1>2. (Bare(ch, p) <=> Bare(ch2, p)) /\ (LogBare(lg, p) <=> LogBare(lg2, p))
  BY <1>1 DEF Bare, LogBare
<1>3. Agrees(ch, lg, p) <=> Agrees(ch2, lg2, p)
  BY <1>1 DEF Agrees
<1>4. Replacing(o, ch, lg, p) => Replacing(o, ch2, lg2, p)
  BY <1>2, <1>3 DEF Replacing
<1>5. Replaying(o, ch, lg, p) => Replaying(o, ch2, lg2, p)
  BY <1>1, <1>3 DEF Replaying
<1> QED
  BY <1>2, <1>3, <1>4, <1>5 DEF Story

LEMMA OrderSame ==
  ASSUME NEW o, NEW lg, NEW lg2, Shape(o), Order(o, lg), \A p \in o.scope : lg2[p] = lg[p]
  PROVE  Order(o, lg2)
<1>1. \A i \in Present(o.new) : Logged(lg2, i[1]) = Logged(lg, i[1])
  BY DEF Shape, Logged
<1> QED
  BY <1>1 DEF Order

\* What is known of a worker's own operation.
LEMMA OwnStory ==
  ASSUME TInv, NInv, NEW w \in Workers
  PROVE  /\ Order(op[w], log)
         /\ \A p \in op[w].scope : Trusted(p) => Story(op[w], chroma, log, p)
  BY OwnFacts DEF NInv, Told

\* The log changes for papers of w at most.
LogEffect(w) == \A p \in Papers : p \notin op[w].scope => log'[p] = log[p]

\* w goes on to o, with no more papers than it had; what it no longer has agrees.
LEMMA StepTold ==
  ASSUME TInv, SInv, NInv, NEW w \in Workers, NEW o, op' = [op EXCEPT ![w] = o], Effect(w), LogEffect(w),
         Order(o, log'), o.scope \subseteq op[w].scope,
         \A p \in Papers \ op[w].scope : ~Trusted(p) => ~Trusted(p)',
         \A p \in op[w].scope : Trusted(p)' =>
           IF p \in o.scope THEN Story(o, chroma', log', p) ELSE Agrees(chroma', log', p)
  PROVE  NInv'
<1>1. op'[w] = o /\ \A u \in Workers : u # w => op'[u] = op[u]
  BY DEF TInv, Typed
<1>2. ASSUME NEW p \in Papers, p \notin op[w].scope
      PROVE  (\A s \in Slots : chroma'[<<p, s>>] = chroma[<<p, s>>]) /\ log'[p] = log[p]
  BY <1>2, IdOf DEF Effect, LogEffect
<1>3. ASSUME NEW u \in Workers, u # w
      PROVE  \A p \in op[u].scope : p \in Papers /\ p \notin op[w].scope
  BY <1>3, OwnFacts DEF SInv, Disjoint
<1>4. ASSUME NEW u \in Workers PROVE Order(op'[u], log')
  <2>1. CASE u = w
    BY <2>1, <1>1
  <2>2. CASE u # w
    <3>1. Shape(op[u]) /\ Order(op[u], log)
      BY OwnFacts, OwnStory
    <3>2. \A p \in op[u].scope : log'[p] = log[p]
      BY <1>2, <1>3, <2>2
    <3> QED BY <3>1, <3>2, <2>2, <1>1, OrderSame
  <2> QED BY <2>1, <2>2
<1>5. ASSUME NEW p \in Papers, Trusted(p)', \A u \in Workers : p \notin op'[u].scope
      PROVE  Agrees(chroma', log', p)
  <2>1. CASE p \in op[w].scope
    <3>1. p \notin o.scope
      BY <1>1, <1>5
    <3> QED BY <1>5, <2>1, <3>1
  <2>2. CASE p \notin op[w].scope
    <3>1. Trusted(p) /\ \A u \in Workers : p \notin op[u].scope
      BY <1>1, <1>5, <2>2
    <3>2. Agrees(chroma, log, p)
      BY <3>1 DEF NInv, Told
    <3>3. (\A s \in Slots : chroma'[<<p, s>>] = chroma[<<p, s>>]) /\ log'[p] = log[p]
      BY <1>2, <2>2
    <3> QED BY <3>2, <3>3, StorySame
  <2> QED BY <2>1, <2>2
<1>6. ASSUME NEW p \in Papers, Trusted(p)', NEW u \in Workers, p \in op'[u].scope
      PROVE  Story(op'[u], chroma', log', p)
  <2>1. CASE u = w
    BY <1>1, <1>6, <2>1
  <2>2. CASE u # w
    <3>1. op'[u] = op[u] /\ p \notin op[w].scope /\ p \in op[u].scope
      BY <1>1, <1>3, <1>6, <2>2
    <3>2. Trusted(p)
      BY <3>1, <1>6
    <3>3. Story(op[u], chroma, log, p)
      BY <3>1, <3>2, OwnStory
    <3>4. (\A s \in Slots : chroma'[<<p, s>>] = chroma[<<p, s>>]) /\ log'[p] = log[p]
      BY <1>2, <3>1
    <3> QED BY <3>1, <3>3, <3>4, StorySame
  <2> QED BY <2>1, <2>2
<1>7. Told'
  BY <1>5, <1>6 DEF Told
<1> QED
  BY <1>4, <1>7 DEF NInv

LEMMA ProceedTold ==
  ASSUME TInv, SInv, NInv, NEW w \in Workers, NEW o, NEW rep, Proceed(w, o, rep),
         Effect(w), LogEffect(w), o.scope = op[w].scope, Order(o, log'),
         \A p \in op[w].scope : p \notin reported \cup rep \cup Suspects => Story(o, chroma', log', p)
  PROVE  NInv'
<1>1. op' = [op EXCEPT ![w] = o] /\ reported' = reported \cup rep /\ suspect' = Suspects
  BY DEF Proceed
<1>2. suspect \subseteq Suspects
  BY DEF Suspects
<1>3. \A p \in Papers : ~Trusted(p) => ~Trusted(p)'
  BY <1>1, <1>2 DEF Trusted
<1>4. \A p \in op[w].scope : Trusted(p)' => Story(o, chroma', log', p)
  BY <1>1 DEF Trusted
<1> QED
  BY <1>1, <1>3, <1>4, StepTold

LEMMA FinishTold ==
  ASSUME TInv, SInv, NInv, NEW w \in Workers, NEW rep, Finish(w, rep), Effect(w), LogEffect(w),
         \A p \in op[w].scope : p \notin reported \cup rep \cup Suspects => Agrees(chroma', log', p)
  PROVE  NInv'
<1> DEFINE healed == {p \in op[w].scope : ~Diverges(chroma', log', p)}
<1>1. /\ op' = [op EXCEPT ![w] = Idle] /\ reported' = (reported \cup rep) \ healed
      /\ suspect' = Suspects \ {p \in healed : \A c \in late' : p \notin Touched(c)}
  BY DEF Finish
<1>2. suspect \subseteq Suspects
  BY DEF Suspects
<1>3. \A p \in healed : Agrees(chroma', log', p)
  <2>1. chroma' \in Rows /\ log' \in Logs /\ op[w].scope \subseteq Papers
    BY OwnFacts DEF Effect
  <2> QED BY <2>1, Agreement
<1>4. \A p \in healed : p \in op[w].scope
  OBVIOUS
<1> HIDE DEF healed
<1>5. \A p \in Papers \ op[w].scope : ~Trusted(p) => ~Trusted(p)'
  BY <1>1, <1>2, <1>4 DEF Trusted
<1>6. \A p \in op[w].scope : Trusted(p)' => Agrees(chroma', log', p)
  <2> SUFFICES ASSUME NEW p \in op[w].scope, Trusted(p)' PROVE Agrees(chroma', log', p)
    OBVIOUS
  <2>1. CASE p \in healed
    BY <1>3, <2>1
  <2>2. CASE p \notin healed
    BY <1>1, <2>2 DEF Trusted
  <2> QED BY <2>1, <2>2
<1>7. Idle.scope = {} /\ Order(Idle, log')
  <2>1. Idle.kind = "none" /\ Idle.pc = "idle" /\ Idle.scope = {}
    BY DEF Idle
  <2> QED BY <2>1 DEF Order
<1> QED
  BY <1>1, <1>5, <1>6, <1>7, StepTold

LEMMA BeginTold ==
  ASSUME TInv, SInv, NInv, NEW w \in Workers, NEW S \in SUBSET Papers, NEW o \in Op, Begin(w, S, o),
         NEW q \in Op, q = [o EXCEPT !.scope = S], Order(q, log),
         \A p \in S : Agrees(chroma, log, p) => Story(q, chroma, log, p)
  PROVE  NInv'
<1>1. /\ op' = [op EXCEPT ![w] = q]
      /\ UNCHANGED <<chroma, log, late, reported, suspect, faults, timeouts, crashes>>
      /\ \A u \in Workers : op[u].scope \cap S = {}
      /\ op[w].pc = "idle"
  BY DEF Begin, SInv
<1>2. q.scope = S /\ op[w].scope = {}
  BY <1>1, OwnStory DEF Order, Op
<1>3. op'[w] = q /\ \A u \in Workers : u # w => op'[u] = op[u]
  BY <1>1 DEF TInv, Typed
<1>4. \A u \in Workers : Order(op'[u], log')
  BY <1>1, <1>3, OwnStory
<1>5. ASSUME NEW p \in Papers, Trusted(p)' PROVE Trusted(p)
  BY <1>1, <1>5 DEF Trusted
<1>6. ASSUME NEW p \in Papers, Trusted(p), \A u \in Workers : p \notin op'[u].scope
      PROVE  Agrees(chroma, log, p)
  <2>1. \A u \in Workers : p \notin op[u].scope
    BY <1>2, <1>3, <1>6
  <2> QED BY <1>6, <2>1 DEF NInv, Told
<1>7. ASSUME NEW p \in Papers, Trusted(p), NEW u \in Workers, p \in op'[u].scope
      PROVE  Story(op'[u], chroma, log, p)
  <2>1. CASE u = w
    <3>1. p \in S /\ \A v \in Workers : p \notin op[v].scope
      BY <1>1, <1>2, <1>3, <1>7, <2>1
    <3>2. Agrees(chroma, log, p)
      BY <1>7, <3>1 DEF NInv, Told
    <3> QED BY <1>3, <2>1, <3>1, <3>2
  <2>2. CASE u # w
    BY <1>3, <1>7, <2>2, OwnStory
  <2> QED BY <2>1, <2>2
<1>8. Told'
  <2>1. chroma' = chroma /\ log' = log
    BY <1>1
  <2> QED BY <1>5, <1>6, <1>7, <2>1 DEF Told
<1> QED
  BY <1>4, <1>8 DEF NInv

-----------------------------------------------------------------------------
(* The operations begin, and an ingest looks at its papers. *)

\* An operation that begins at one of these has done nothing yet.
LEMMA FreshTold ==
  ASSUME TInv, SInv, NInv, NEW w \in Workers, NEW S \in SUBSET Papers, NEW o \in Op, Begin(w, S, o),
         <<o.kind, o.pc>> \in {<<"ingest", "check">>, <<"delete", "delGet">>, <<"reindex", "delGet">>,
                               <<"replay", "reset">>, <<"backfill", "backfill">>,
                               <<"purgeCli", "purge">>, <<"patch", "patch">>},
         o.prep = {}, o.kind \in {"ingest", "reindex"} => o.new = Empty,
         o.kind = "replay" => o.events = log /\ o.dels = {},
         o.kind = "backfill" => o.new = chroma /\ S = Papers
  PROVE  NInv'
<1>1. PICK q \in Op : q = [o EXCEPT !.scope = S]
  BY ScopedOp
<1>2. /\ q.scope = S /\ q.kind = o.kind /\ q.pc = o.pc /\ q.prep = o.prep /\ q.new = o.new
      /\ q.events = o.events /\ q.dels = o.dels
  BY <1>1 DEF Op
<1>3. Order(q, log)
  BY <1>2, EmptyRows DEF Order
<1>4. ASSUME NEW p \in S, Agrees(chroma, log, p) PROVE Story(q, chroma, log, p)
  <2>1. Replacing(q, chroma, log, p)
    BY <1>2, <1>4 DEF Replacing
  <2>2. q.kind = "replay" => Replaying(q, chroma, log, p)
    BY <1>2, <1>4 DEF Replaying
  <2> QED BY <1>2, <1>4, <2>1, <2>2 DEF Story
<1> QED
  BY <1>1, <1>3, <1>4, BeginTold

LEMMA StartTold ==
  ASSUME TInv, SInv, NInv, "purgeRoute" \notin Kinds, NEW w \in Workers,
         \/ StartIngest(w) \/ StartDelete(w) \/ StartReindexRoute(w)
         \/ StartReplay(w) \/ StartBackfill(w) \/ StartPurge(w) \/ StartPatch(w)
  PROVE  NInv'
<1>e. Present(Empty) = {} /\ Idle \in Op /\ Papers \in SUBSET Papers
  BY EmptyRows, IdleShape
<1>c. chroma \in Rows /\ log \in Logs /\ Present(chroma) \subseteq Ids
  BY DEF TInv, Typed, Present
<1>1. CASE StartIngest(w)
  <2>0. PICK S \in (SUBSET Papers) \ {{}} : \E src \in [S -> Versions] :
          Begin(w, S, [Idle EXCEPT !.kind = "ingest", !.pc = "check", !.todo = S, !.src = src])
    BY <1>1 DEF StartIngest
  <2>1. PICK src \in [S -> Versions] :
          Begin(w, S, [Idle EXCEPT !.kind = "ingest", !.pc = "check", !.todo = S, !.src = src])
    BY <2>0
  <2>2. src \in Sources /\ "ingest" \in Doing /\ "check" \in Places
    BY DEF Sources, Doing, Places
  <2>3. PICK o \in Op : o = [Idle EXCEPT !.kind = "ingest", !.pc = "check", !.todo = S, !.src = src]
    BY <1>e, <2>2 DEF Op
  <2>4. o.kind = "ingest" /\ o.pc = "check" /\ o.prep = {} /\ o.new = Empty
    BY <1>e, <2>3, IdleFields DEF Op
  <2> QED BY <2>1, <2>3, <2>4, FreshTold
<1>2. CASE StartDelete(w)
  <2>1. PICK p \in Papers :
          Begin(w, {p}, [Idle EXCEPT !.kind = "delete", !.pc = "delGet", !.dels = {p}])
    BY <1>2 DEF StartDelete
  <2>2. "delete" \in Doing /\ "delGet" \in Places /\ {p} \in SUBSET Papers
    BY DEF Doing, Places
  <2>3. PICK o \in Op : o = [Idle EXCEPT !.kind = "delete", !.pc = "delGet", !.dels = {p}]
    BY <1>e, <2>2 DEF Op
  <2>4. o.kind = "delete" /\ o.pc = "delGet" /\ o.prep = {}
    BY <1>e, <2>3, IdleFields DEF Op
  <2> QED BY <2>1, <2>2, <2>3, <2>4, FreshTold
<1>3. CASE StartReindexRoute(w)
  <2>1. PICK p \in Papers, v \in Versions :
          Begin(w, {p}, [Idle EXCEPT !.kind = "reindex", !.pc = "delGet", !.dels = {p},
                                     !.todo = {p}, !.src = [r \in {p} |-> v]])
    BY <1>3 DEF StartReindexRoute
  <2>p. {p} \in SUBSET Papers
    OBVIOUS
  <2>2. [r \in {p} |-> v] \in Sources /\ "reindex" \in Doing /\ "delGet" \in Places
    <3>1. [r \in {p} |-> v] \in [{p} -> Versions]
      OBVIOUS
    <3> QED BY <3>1, <2>p DEF Sources, Doing, Places
  <2>3. PICK o \in Op : o = [Idle EXCEPT !.kind = "reindex", !.pc = "delGet", !.dels = {p},
                                         !.todo = {p}, !.src = [r \in {p} |-> v]]
    BY <1>e, <2>2 DEF Op
  <2>4. o.kind = "reindex" /\ o.pc = "delGet" /\ o.prep = {} /\ o.new = Empty
    BY <1>e, <2>3, IdleFields DEF Op
  <2>5. Begin(w, {p}, o)
    BY <2>1, <2>3
  <2> QED BY <2>p, <2>4, <2>5, FreshTold
<1>4. CASE StartReplay(w)
  <2>1. Begin(w, Papers, [Idle EXCEPT !.kind = "replay", !.pc = "reset", !.events = log])
    BY <1>4 DEF StartReplay
  <2>2. "replay" \in Doing /\ "reset" \in Places
    BY DEF Doing, Places
  <2>3. PICK o \in Op : o = [Idle EXCEPT !.kind = "replay", !.pc = "reset", !.events = log]
    BY <1>e, <1>c, <2>2 DEF Op
  <2>4. o.kind = "replay" /\ o.pc = "reset" /\ o.prep = {} /\ o.events = log /\ o.dels = {}
    BY <1>e, <2>3, IdleFields DEF Op
  <2> QED BY <1>e, <2>1, <2>3, <2>4, FreshTold
<1>5. CASE StartBackfill(w)
  <2>1. Begin(w, Papers, [Idle EXCEPT !.kind = "backfill", !.pc = "backfill", !.new = chroma])
    BY <1>5 DEF StartBackfill
  <2>2. "backfill" \in Doing /\ "backfill" \in Places
    BY DEF Doing, Places
  <2>3. PICK o \in Op : o = [Idle EXCEPT !.kind = "backfill", !.pc = "backfill", !.new = chroma]
    BY <1>e, <1>c, <2>2 DEF Op
  <2>4. o.kind = "backfill" /\ o.pc = "backfill" /\ o.prep = {} /\ o.new = chroma
    BY <1>e, <2>3, IdleFields DEF Op
  <2> QED BY <1>e, <2>1, <2>3, <2>4, FreshTold
<1>6. CASE StartPurge(w)
  <2>1. PICK kind \in {"purgeRoute", "purgeCli"} :
          Begin(w, Papers, [Idle EXCEPT !.kind = kind, !.pc = "purge"])
    BY <1>6 DEF StartPurge
  <2>2. kind \in Doing /\ "purge" \in Places
    BY DEF Doing, Places
  <2>3. PICK o \in Op : o = [Idle EXCEPT !.kind = kind, !.pc = "purge"]
    BY <1>e, <2>2 DEF Op
  <2>4. o.kind = kind /\ o.pc = "purge" /\ o.prep = {}
    BY <1>e, <2>3, IdleFields DEF Op
  <2>5. o.kind \in Kinds
    BY <2>1, <2>3 DEF Begin
  <2>6. o.kind = "purgeCli"
    BY <2>4, <2>5
  <2> QED BY <1>e, <2>1, <2>3, <2>4, <2>6, FreshTold
<1>7. CASE StartPatch(w)
  <2>1. PICK p \in Papers :
          Begin(w, {p}, [Idle EXCEPT !.kind = "patch", !.pc = "patch",
                                     !.ids = {i \in Present(chroma) : i[1] = p}])
    BY <1>7 DEF StartPatch
  <2>2. "patch" \in Doing /\ "patch" \in Places /\ {i \in Present(chroma) : i[1] = p} \in SUBSET Ids
        /\ {p} \in SUBSET Papers
    BY <1>c DEF Doing, Places
  <2>3. PICK o \in Op : o = [Idle EXCEPT !.kind = "patch", !.pc = "patch",
                                         !.ids = {i \in Present(chroma) : i[1] = p}]
    BY <1>e, <2>2 DEF Op
  <2>4. o.kind = "patch" /\ o.pc = "patch" /\ o.prep = {}
    BY <1>e, <2>3, IdleFields DEF Op
  <2> QED BY <2>1, <2>2, <2>3, <2>4, FreshTold
<1> QED BY <1>1, <1>2, <1>3, <1>4, <1>5, <1>6, <1>7

\* A step that only reads, or only changes the log, puts no further paper in doubt.
LEMMA NoDoubt ==
  ASSUME UNCHANGED late
  PROVE  Suspects = suspect
  BY DEF Suspects

LEMMA CheckedTold ==
  ASSUME TInv, SInv, NInv, NEW w \in Workers, op[w].pc = "check", NEW p \in op[w].todo,
         NEW keep \in BOOLEAN, NEW del \in BOOLEAN, ReadOnly, Effect(w), Checked(w, p, keep, del),
         keep => op[w].src[p] \in Versions, keep /\ ~del => Bare(chroma, p)
  PROVE  NInv'
<1> DEFINE rows == IF keep THEN Overlay(op[w].new, BuiltChunks(p, op[w].src[p])) ELSE op[w].new
           prep == IF keep THEN op[w].prep \cup {p} ELSE op[w].prep
           dels == IF del THEN op[w].dels \cup {p} ELSE op[w].dels
           todo == op[w].todo \ {p}
           next == [op[w] EXCEPT
                 !.todo = @ \ {p},
                 !.prep = IF keep THEN @ \cup {p} ELSE @,
                 !.dels = IF del THEN @ \cup {p} ELSE @,
                 !.new = IF keep THEN Overlay(@, BuiltChunks(p, op[w].src[p])) ELSE @]
<1>a. /\ op[w] \in Op /\ Shape(op[w]) /\ op[w].scope \subseteq Papers /\ op[w].new \in Rows
      /\ p \in Papers /\ p \in op[w].scope
  BY OwnFacts DEF Shape
<1>o. /\ Order(op[w], log) /\ op[w].kind \in {"ingest", "reindex"}
      /\ \A q \in op[w].scope : Trusted(q) => Replacing(op[w], chroma, log, q)
  BY <1>a, OwnStory DEF Shape, Story
<1>b. \A i \in Present(rows) : i[1] \in prep
  <2>0. \A i \in Present(op[w].new) : i[1] \in op[w].prep
    BY <1>o DEF Order
  <2>1. CASE keep
    <3>1. /\ BuiltChunks(p, op[w].src[p]) \in Rows
          /\ \A i \in Present(BuiltChunks(p, op[w].src[p])) : i[1] = p
      BY <2>1, <1>a, BuiltRows
    <3>2. \A i \in Present(rows) : i \in Present(op[w].new) \/ i \in Present(BuiltChunks(p, op[w].src[p]))
      BY <2>1, <3>1, <1>a, OverlayRows
    <3> QED BY <2>0, <2>1, <3>1, <3>2
  <2>2. CASE ~keep
    BY <2>0, <2>2
  <2> QED BY <2>1, <2>2
<1>d. next = [op[w] EXCEPT !.todo = todo, !.prep = prep, !.dels = dels, !.new = rows]
  BY <1>a DEF Op
<1>n. Checked(w, p, keep, del) =
        IF next.todo # {} THEN Proceed(w, next, {})
        ELSE IF next.prep # {} THEN Proceed(w, [next EXCEPT !.pc = "embed"], {})
        ELSE Finish(w, {})
  BY DEF Checked
<1>u. chroma' = chroma /\ log' = log /\ Suspects = suspect /\ LogEffect(w)
  BY NoDoubt DEF ReadOnly, LogEffect
<1>g. \A q \in op[w].scope : Trusted(q) => Agrees(chroma, log, q) /\ (q \in prep => q \in dels \/ Bare(chroma, q))
  BY <1>o DEF Replacing
<1> HIDE DEF rows, prep, dels, todo
<1>1. ASSUME NEW pc \in {"check", "embed"}, NEW o,
             o = [op[w] EXCEPT !.pc = pc, !.todo = todo, !.prep = prep, !.dels = dels, !.new = rows],
             Proceed(w, o, {})
      PROVE  NInv'
  <2>1. /\ o.scope = op[w].scope /\ o.pc = pc /\ o.kind = op[w].kind
        /\ o.prep = prep /\ o.dels = dels /\ o.new = rows
    BY <1>1, <1>a DEF Op
  <2> HIDE <1>1
  <2>2. Order(o, log')
    BY <1>b, <1>o, <2>1 DEF Order
  <2>3. ASSUME NEW q \in op[w].scope, q \notin reported \cup {} \cup Suspects
        PROVE  Story(o, chroma', log', q)
    <3>1. Trusted(q)
      BY <1>u, <2>3 DEF Trusted
    <3>2. Replacing(o, chroma', log', q)
      BY <1>g, <1>u, <2>1, <3>1 DEF Replacing
    <3> QED BY <1>o, <2>1, <3>2 DEF Story
  <2> QED BY <1>1, <1>u, <2>1, <2>2, <2>3, ProceedTold
<1>2. next = [op[w] EXCEPT !.pc = "check", !.todo = todo, !.prep = prep, !.dels = dels, !.new = rows]
  BY <1>a, <1>d DEF Op
<1>3. [next EXCEPT !.pc = "embed"] =
      [op[w] EXCEPT !.pc = "embed", !.todo = todo, !.prep = prep, !.dels = dels, !.new = rows]
  BY <1>a, <1>d DEF Op
<1> HIDE DEF next
<1>4. CASE Finish(w, {})
  <2>1. \A q \in op[w].scope : q \notin reported \cup {} \cup Suspects => Agrees(chroma', log', q)
    BY <1>g, <1>u DEF Trusted
  <2> QED BY <1>4, <1>u, <2>1, FinishTold
<1> QED BY <1>n, <1>1, <1>2, <1>3, <1>4

LEMMA CheckTold ==
  ASSUME TInv, SInv, NInv, NEW w \in Workers, Check(w)
  PROVE  NInv'
<1>1. op[w].pc = "check" /\ ReadOnly
  BY DEF Check
<1>2. PICK p \in op[w].todo, keep \in BOOLEAN, del \in BOOLEAN :
         /\ NoFault \/ Refused
         /\ Checked(w, p, keep, del)
         /\ keep => NoFault
         /\ keep /\ ~del => {i \in Present(chroma) : i[1] = p} = {}
  BY DEF Check
<1>3. Effect(w)
  BY <1>1, <1>2, ReadOnlyEffect
<1>4. (keep => op[w].src[p] \in Versions) /\ p \in Papers
  BY <1>1, <1>2, OwnFacts DEF Shape
<1>5. keep /\ ~del => Bare(chroma, p)
  BY <1>2, <1>4, IdOf DEF Bare, Present
<1> QED BY <1>1, <1>2, <1>3, <1>4, <1>5, CheckedTold

LEMMA EmbedTold ==
  ASSUME TInv, SInv, NInv, NEW w \in Workers, Embed(w)
  PROVE  NInv'
<1>1. op[w].pc = "embed" /\ Effect(w) /\ op[w] \in Op
  BY ReadOnlyEffect, OwnFacts DEF Embed
<1>u. chroma' = chroma /\ log' = log /\ Suspects = suspect /\ LogEffect(w)
  BY NoDoubt DEF ReadOnly, LogEffect, Embed
<1>o. /\ Order(op[w], log) /\ op[w].kind \in {"ingest", "reindex"}
      /\ \A q \in op[w].scope : Trusted(q) => Replacing(op[w], chroma, log, q)
  BY <1>1, OwnStory DEF Order, Story
<1>g. \A q \in op[w].scope :
        Trusted(q) => Agrees(chroma, log, q) /\ (q \in op[w].prep => q \in op[w].dels \/ Bare(chroma, q))
  BY <1>1, <1>o DEF Replacing
<1>2. CASE Finish(w, {})
  <2>1. \A q \in op[w].scope : q \notin reported \cup {} \cup Suspects => Agrees(chroma', log', q)
    BY <1>g, <1>u DEF Trusted
  <2> QED BY <1>1, <1>2, <1>u, <2>1, FinishTold
<1>3. CASE Proceed(w, [op[w] EXCEPT !.pc = IF op[w].dels = {} THEN "preexist" ELSE "delGet"], {})
  <2> DEFINE pc == IF op[w].dels = {} THEN "preexist" ELSE "delGet"
             o == [op[w] EXCEPT !.pc = pc]
  <2>0. pc \in {"preexist", "delGet"} /\ (pc = "preexist" => op[w].dels = {})
    OBVIOUS
  <2> HIDE DEF pc
  <2>1. /\ o.scope = op[w].scope /\ o.pc = pc /\ o.kind = op[w].kind
        /\ o.prep = op[w].prep /\ o.dels = op[w].dels /\ o.new = op[w].new
    BY <1>1 DEF Op
  <2>p. Proceed(w, o, {})
    BY <1>3 DEF pc
  <2> HIDE DEF o
  <2>2. Order(o, log')
    BY <1>o, <2>0, <2>1 DEF Order
  <2>3. ASSUME NEW q \in op[w].scope, q \notin reported \cup {} \cup Suspects
        PROVE  Story(o, chroma', log', q)
    <3>1. Trusted(q)
      BY <1>u, <2>3 DEF Trusted
    <3>2. Replacing(o, chroma', log', q)
      BY <1>g, <1>u, <2>0, <2>1, <3>1 DEF Replacing
    <3> QED BY <1>o, <2>0, <2>1, <3>2 DEF Story
  <2> QED BY <1>1, <1>u, <2>p, <2>1, <2>2, <2>3, ProceedTold
<1> QED BY <1>2, <1>3 DEF Embed

-----------------------------------------------------------------------------
(* Deletes. *)

\* The delete of p returned or raised: p agrees or is named, the others are as they were.
LEMMA ReturnedTold ==
  ASSUME TInv, SInv, NInv, NEW w \in Workers, NEW p \in op[w].scope,
         NEW outcome \in {"done", "incomplete", "raised"},
         Effect(w), LogEffect(w), DeleteReturned(w, p, outcome),
         op[w].pc \in {"delGet", "delDo", "cascade"},
         \A q \in op[w].scope : q # p /\ q \notin reported \cup Suspects =>
           Agrees(chroma', log', q) /\ (q \in op[w].prep => q \in op[w].dels \/ Bare(chroma', q)),
         p \notin reported \cup Suspects =>
           /\ outcome \in {"done", "raised"} => Agrees(chroma', log', p)
           /\ outcome = "done" => Bare(chroma', p)
  PROVE  NInv'
<1> DEFINE r == [op[w] EXCEPT !.dels = @ \ {p}, !.ids = {}]
           named == IF outcome = "incomplete" THEN {p} ELSE {}
           also == IF outcome = "done" THEN {} ELSE {p}
<1>a. op[w] \in Op
  BY OwnFacts
<1>o. Order(op[w], log) /\ op[w].kind \in {"ingest", "reindex", "delete"}
  BY OwnStory DEF Order
<1>1. ASSUME NEW pc \in {"preexist", "delGet", "check"}, NEW rep, Proceed(w, [r EXCEPT !.pc = pc], rep),
             pc = "preexist" => op[w].dels \ {p} = {},
             op[w].prep # {} => rep = also, op[w].prep = {} => rep = named,
             pc = "preexist" => op[w].prep # {}, pc = "check" => op[w].kind = "reindex"
      PROVE  NInv'
  <2> DEFINE o == [r EXCEPT !.pc = pc]
  <2>1. /\ o.scope = op[w].scope /\ o.pc = pc /\ o.kind = op[w].kind
        /\ o.prep = op[w].prep /\ o.dels = op[w].dels \ {p} /\ o.new = op[w].new
    BY <1>a DEF Op
  <2>p. Proceed(w, o, rep)
    BY <1>1
  <2> HIDE DEF o, r
  <2>2. Order(o, log')
    BY <1>1, <1>o, <2>1 DEF Order
  <2>3. ASSUME NEW q \in op[w].scope, q \notin reported \cup rep \cup Suspects
        PROVE  Story(o, chroma', log', q)
    <3>1. CASE q # p
      <4>1. Agrees(chroma', log', q) /\ (q \in o.prep => q \in o.dels \/ Bare(chroma', q))
        BY <2>1, <2>3, <3>1
      <4>2. Replacing(o, chroma', log', q)
        BY <1>1, <2>1, <4>1 DEF Replacing
      <4> QED BY <1>o, <1>1, <2>1, <4>2 DEF Story
    <3>2. CASE q = p
      <4>1. p \notin rep /\ p \notin reported \cup Suspects
        BY <2>3, <3>2
      <4>2. op[w].prep # {} => outcome = "done"
        BY <1>1, <4>1
      <4>3. op[w].prep = {} => outcome \in {"done", "raised"}
        BY <1>1, <4>1
      <4>4. Agrees(chroma', log', p) /\ (op[w].prep # {} => Bare(chroma', p))
        BY <4>1, <4>2, <4>3
      <4>5. Replacing(o, chroma', log', p)
        BY <1>1, <2>1, <4>4 DEF Replacing
      <4> QED BY <1>o, <1>1, <2>1, <3>2, <4>5 DEF Story
    <3> QED BY <3>1, <3>2
  <2> QED BY <2>p, <2>1, <2>2, <2>3, ProceedTold
<1>2. r.dels = op[w].dels \ {p} /\ r.prep = op[w].prep /\ r.kind = op[w].kind
  BY <1>a DEF Op
<1>3. \/ /\ op[w].prep # {}
         /\ Proceed(w, [r EXCEPT !.pc = IF op[w].dels \ {p} = {} THEN "preexist" ELSE "delGet"], also)
      \/ /\ op[w].prep = {}
         /\ Finish(w, named)
      \/ /\ op[w].prep = {}
         /\ op[w].kind = "reindex"
         /\ Proceed(w, [r EXCEPT !.pc = "check"], named)
  BY <1>2 DEF DeleteReturned
<1> HIDE DEF r
<1>4. CASE /\ op[w].prep # {}
           /\ Proceed(w, [r EXCEPT !.pc = IF op[w].dels \ {p} = {} THEN "preexist" ELSE "delGet"], also)
  <2>1. CASE op[w].dels \ {p} = {}
    <3>1. Proceed(w, [r EXCEPT !.pc = "preexist"], also)
      BY <1>4, <2>1
    <3> QED BY <1>1, <1>4, <2>1, <3>1
  <2>2. CASE op[w].dels \ {p} # {}
    <3>1. Proceed(w, [r EXCEPT !.pc = "delGet"], also)
      BY <1>4, <2>2
    <3> QED BY <1>1, <1>4, <2>2, <3>1
  <2> QED BY <2>1, <2>2
<1>5. CASE Finish(w, named)
  <2>1. \A q \in op[w].scope : q \notin reported \cup named \cup Suspects => Agrees(chroma', log', q)
    OBVIOUS
  <2> QED BY <1>5, <2>1, FinishTold
<1>6. CASE op[w].prep = {} /\ op[w].kind = "reindex" /\ Proceed(w, [r EXCEPT !.pc = "check"], named)
  BY <1>1, <1>6
<1> QED BY <1>3, <1>4, <1>5, <1>6

LEMMA DelGetTold ==
  ASSUME TInv, SInv, NInv, NEW w \in Workers, DelGet(w)
  PROVE  NInv'
<1>a. op[w] \in Op /\ Shape(op[w]) /\ op[w].scope \subseteq Papers /\ op[w].pc = "delGet" /\ chroma \in Rows
  BY OwnFacts DEF DelGet
<1>e. Effect(w)
  BY ReadOnlyEffect DEF DelGet
<1>u. chroma' = chroma /\ log' = log /\ Suspects = suspect /\ LogEffect(w)
  BY NoDoubt DEF ReadOnly, LogEffect, DelGet
<1>o. /\ Order(op[w], log) /\ op[w].kind \in {"ingest", "reindex", "delete"}
      /\ \A q \in op[w].scope : Trusted(q) => Replacing(op[w], chroma, log, q)
  BY <1>a, OwnStory DEF Order, Story
<1>g. \A q \in op[w].scope :
        Trusted(q) => Agrees(chroma, log, q) /\ (q \in op[w].prep => q \in op[w].dels \/ Bare(chroma, q))
  BY <1>a, <1>o DEF Replacing
<1>1. PICK p \in op[w].dels :
        \/ Proceed(w, [op[w] EXCEPT !.pc = "delDo", !.target = {p},
                                    !.ids = {i \in Present(chroma) : i[1] = p}], {})
        \/ DeleteReturned(w, p, "raised")
  BY DEF DelGet
<1>p. p \in op[w].scope /\ p \in Papers
  BY <1>a DEF Shape
<1>2. CASE Proceed(w, [op[w] EXCEPT !.pc = "delDo", !.target = {p},
                                    !.ids = {i \in Present(chroma) : i[1] = p}], {})
  <2> DEFINE rows == {i \in Present(chroma) : i[1] = p}
             o == [op[w] EXCEPT !.pc = "delDo", !.target = {p}, !.ids = rows]
  <2>1. /\ o.scope = op[w].scope /\ o.pc = "delDo" /\ o.kind = op[w].kind /\ o.target = {p} /\ o.ids = rows
        /\ o.prep = op[w].prep /\ o.dels = op[w].dels /\ o.new = op[w].new
    BY <1>a DEF Op
  <2>2. Proceed(w, o, {})
    BY <1>2
  <2>3. rows = {} => Bare(chroma, p)
    BY <1>p, IdOf DEF Bare, Present
  <2> HIDE DEF o, rows
  <2>4. Order(o, log')
    BY <1>o, <1>p, <2>1 DEF Order
  <2>5. ASSUME NEW q \in op[w].scope, q \notin reported \cup {} \cup Suspects
        PROVE  Story(o, chroma', log', q)
    <3>1. Trusted(q)
      BY <1>u, <2>5 DEF Trusted
    <3>2. Replacing(o, chroma', log', q)
      BY <1>g, <1>u, <2>1, <2>3, <3>1 DEF Replacing
    <3> QED BY <1>o, <2>1, <3>2 DEF Story
  <2> QED BY <1>e, <1>u, <2>1, <2>2, <2>4, <2>5, ProceedTold
<1>3. CASE DeleteReturned(w, p, "raised")
  <2>1. \A q \in op[w].scope : q \notin reported \cup Suspects =>
           Agrees(chroma', log', q) /\ (q \in op[w].prep => q \in op[w].dels \/ Bare(chroma', q))
    BY <1>g, <1>u DEF Trusted
  <2> QED BY <1>a, <1>e, <1>u, <1>p, <1>3, <2>1, ReturnedTold
<1> QED BY <1>1, <1>2, <1>3

\* What deleting ids does to the rows.
LEMMA DeletedRows ==
  ASSUME TInv, NEW w \in Workers, NEW S \in SUBSET Ids, \A i \in S : i[1] \in op[w].scope,
         Done(Delete(S)), UNCHANGED log
  PROVE  /\ Effect(w) /\ Suspects = suspect
         /\ \A i \in Ids : chroma'[i] = IF i \in S THEN NoChunk ELSE chroma[i]
<1>1. /\ Delete(S) \in Call /\ RowsOf(Delete(S)) = S
      /\ Delete(S).put = Empty /\ Delete(S).drop = S /\ Delete(S).edit = {}
  BY DeleteCall
<1>2. Effect(w) /\ late' = late /\ chroma' = After(chroma, Delete(S))
  BY <1>1, DoneEffect
<1>3. chroma \in Rows
  BY OwnFacts
<1>4. \A i \in Ids : After(chroma, Delete(S))[i] =
        IF i \in Delete(S).drop THEN NoChunk
        ELSE IF Delete(S).put[i] = NoChunk THEN chroma[i] ELSE Delete(S).put[i]
  BY <1>1, <1>3, AfterRows
<1>5. \A i \in Ids : Empty[i] = NoChunk
  BY DEF Empty
<1> QED BY <1>1, <1>2, <1>4, <1>5, NoDoubt

LEMMA DelDoTold ==
  ASSUME TInv, SInv, NInv, NEW w \in Workers, DelDo(w)
  PROVE  NInv'
<1>a. /\ op[w] \in Op /\ Shape(op[w]) /\ op[w].scope \subseteq Papers /\ op[w].pc = "delDo"
      /\ UNCHANGED log /\ LogEffect(w)
  BY OwnFacts DEF DelDo, LogEffect
<1>o. /\ Order(op[w], log) /\ op[w].kind \in {"ingest", "reindex", "delete"}
      /\ \A q \in op[w].scope : Trusted(q) => Replacing(op[w], chroma, log, q)
  BY <1>a, OwnStory DEF Order, Story
<1>g. \A q \in op[w].scope :
        Trusted(q) => Agrees(chroma, log, q) /\ (q \in op[w].prep => q \in op[w].dels \/ Bare(chroma, q))
  BY <1>a, <1>o DEF Replacing
<1>t. \A q \in Papers : q \notin reported \cup Suspects => Trusted(q)
  BY DEF Trusted, Suspects
<1>1. PICK p \in op[w].target :
        \/ /\ Done(Delete(IdsOf({p})))
           /\ IF op[w].ids = {} THEN DeleteReturned(w, p, "done")
                                ELSE Proceed(w, [op[w] EXCEPT !.pc = "cascade"], {})
        \/ Raised(Delete(IdsOf({p}))) /\ DeleteReturned(w, p, "raised")
  BY DEF DelDo
<1>p. p \in op[w].scope /\ p \in Papers /\ op[w].target = {p}
  BY <1>a, <1>o DEF Shape, Order
<1> DEFINE S == IdsOf({p})
<1>s. S \in SUBSET Ids /\ (\A i \in S : i[1] = p) /\ \A s \in Slots : <<p, s>> \in S
  BY <1>p DEF IdsOf, Ids
<1> HIDE DEF S
<1>2. CASE Done(Delete(S))
           /\ IF op[w].ids = {} THEN DeleteReturned(w, p, "done")
                                ELSE Proceed(w, [op[w] EXCEPT !.pc = "cascade"], {})
  <2>1. /\ Effect(w) /\ Suspects = suspect
        /\ \A i \in Ids : chroma'[i] = IF i \in S THEN NoChunk ELSE chroma[i]
    <3>1. \A i \in S : i[1] \in op[w].scope
      BY <1>p, <1>s
    <3> QED BY <1>2, <1>a, <1>s, <3>1, DeletedRows
  <2>2. Bare(chroma', p)
    BY <1>p, <1>s, <2>1, IdOf DEF Bare
  <2>3. ASSUME NEW q \in op[w].scope, q # p, q \notin reported \cup Suspects
        PROVE  Agrees(chroma', log', q) /\ (q \in op[w].prep => q \in op[w].dels \/ Bare(chroma', q))
    <3>1. q \in Papers /\ Trusted(q)
      BY <1>a, <1>t, <2>3
    <3>2. \A s \in Slots : chroma'[<<q, s>>] = chroma[<<q, s>>]
      BY <1>s, <2>1, <2>3, <3>1, IdOf
    <3>3. Agrees(chroma', log', q)
      BY <1>a, <1>g, <3>1, <3>2, StorySame
    <3>4. Bare(chroma, q) => Bare(chroma', q)
      BY <3>2 DEF Bare
    <3> QED BY <1>g, <3>1, <3>3, <3>4
  <2>4. CASE op[w].ids = {}
    <3>1. DeleteReturned(w, p, "done")
      BY <1>2, <2>4
    <3>2. ASSUME p \notin reported \cup Suspects PROVE Agrees(chroma', log', p)
      <4>1. Trusted(p)
        BY <1>p, <1>t, <3>2
      <4>2. Bare(chroma, p) /\ Agrees(chroma, log, p)
        BY <1>a, <1>g, <1>o, <1>p, <2>4, <4>1 DEF Replacing
      <4>3. \A s \in Slots : chroma'[<<p, s>>] = chroma[<<p, s>>]
        BY <2>2, <4>2 DEF Bare
      <4> QED BY <1>a, <4>2, <4>3, StorySame
    <3> QED BY <1>a, <1>p, <2>1, <2>2, <2>3, <3>1, <3>2, ReturnedTold
  <2>5. CASE op[w].ids # {}
    <3> DEFINE o == [op[w] EXCEPT !.pc = "cascade"]
    <3>1. /\ o.scope = op[w].scope /\ o.pc = "cascade" /\ o.kind = op[w].kind /\ o.target = {p}
          /\ o.prep = op[w].prep /\ o.dels = op[w].dels /\ o.new = op[w].new
      BY <1>a, <1>p DEF Op
    <3>2. Proceed(w, o, {})
      BY <1>2, <2>5
    <3> HIDE DEF o
    <3>3. Order(o, log')
      BY <1>o, <1>p, <3>1 DEF Order
    <3>4. ASSUME NEW q \in op[w].scope, q \notin reported \cup {} \cup Suspects
          PROVE  Story(o, chroma', log', q)
      <4>1. Replacing(o, chroma', log', q)
        BY <2>2, <2>3, <3>1, <3>4 DEF Replacing
      <4> QED BY <1>o, <3>1, <4>1 DEF Story
    <3> QED BY <1>a, <2>1, <3>1, <3>2, <3>3, <3>4, ProceedTold
  <2> QED BY <2>4, <2>5
<1>3. CASE Raised(Delete(S)) /\ DeleteReturned(w, p, "raised")
  <2>1. Effect(w) /\ chroma' = chroma /\ log' = log
    BY <1>3, <1>a, <1>s, DeleteCall, RaisedEffect
  <2>2. \A q \in op[w].scope : q \notin reported \cup Suspects =>
           Agrees(chroma', log', q) /\ (q \in op[w].prep => q \in op[w].dels \/ Bare(chroma', q))
    BY <1>a, <1>g, <1>t, <2>1
  <2> QED BY <1>a, <1>p, <1>3, <2>1, <2>2, ReturnedTold
<1> QED BY <1>1, <1>2, <1>3 DEF S

LEMMA CascadeTold ==
  ASSUME TInv, SInv, NInv, NEW w \in Workers, Cascade(w)
  PROVE  NInv'
<1>a. /\ op[w] \in Op /\ Shape(op[w]) /\ op[w].scope \subseteq Papers /\ op[w].pc = "cascade"
      /\ UNCHANGED <<chroma, late>> /\ log \in Logs
  BY OwnFacts DEF Cascade
<1>o. /\ Order(op[w], log) /\ op[w].kind \in {"ingest", "reindex", "delete"}
      /\ \A q \in op[w].scope : Trusted(q) => Replacing(op[w], chroma, log, q)
  BY <1>a, OwnStory DEF Order, Story
<1>t. \A q \in Papers : q \notin reported \cup Suspects => Trusted(q)
  BY DEF Trusted, Suspects
<1>1. PICK p \in op[w].target, bm25Ok \in BOOLEAN, logOk \in BOOLEAN :
        /\ log' = IF logOk THEN [log EXCEPT ![p] = NoRow] ELSE log
        /\ IF bm25Ok /\ logOk
           THEN NoFault /\ DeleteReturned(w, p, "done")
           ELSE Refused /\ DeleteReturned(w, p, "incomplete")
  BY DEF Cascade
<1>p. p \in op[w].scope /\ p \in Papers /\ op[w].target = {p}
  BY <1>a, <1>o DEF Shape, Order
<1>2. log' \in Logs /\ LogEffect(w) /\ (logOk => log'[p] = NoRow) /\ \A q \in Papers : q # p => log'[q] = log[q]
  BY <1>1, <1>a, <1>p DEF Logs, LogEffect
<1>3. Effect(w)
  <2>1. NoFault \/ Refused
    BY <1>1
  <2> QED BY <1>a, <1>2, <2>1, ReadEffect
<1>4. ASSUME NEW q \in op[w].scope, q # p, q \notin reported \cup Suspects
      PROVE  Agrees(chroma', log', q) /\ (q \in op[w].prep => q \in op[w].dels \/ Bare(chroma', q))
  <2>1. q \in Papers /\ Trusted(q) /\ q \notin op[w].target
    BY <1>a, <1>p, <1>t, <1>4
  <2>2. Agrees(chroma, log, q) /\ (q \in op[w].prep => q \in op[w].dels \/ Bare(chroma, q))
    BY <1>a, <1>o, <2>1 DEF Replacing
  <2>3. chroma' = chroma /\ log'[q] = log[q]
    BY <1>a, <1>2, <1>4, <2>1
  <2> QED BY <2>2, <2>3, StorySame
<1>5. ASSUME p \notin reported \cup Suspects PROVE Bare(chroma', p)
  <2>1. Trusted(p)
    BY <1>p, <1>t, <1>5
  <2> QED BY <1>a, <1>o, <1>p, <2>1 DEF Replacing
<1>6. ASSUME logOk, p \notin reported \cup Suspects PROVE Agrees(chroma', log', p)
  BY <1>2, <1>5, <1>6 DEF Agrees, Bare, Same, Logged, NoChunks
<1>7. CASE DeleteReturned(w, p, "done") /\ logOk
  BY <1>a, <1>p, <1>2, <1>3, <1>4, <1>5, <1>6, <1>7, ReturnedTold
<1>8. CASE DeleteReturned(w, p, "incomplete")
  BY <1>a, <1>p, <1>2, <1>3, <1>4, <1>8, ReturnedTold
<1> QED BY <1>1, <1>7, <1>8

-----------------------------------------------------------------------------
(* add_documents and the log. *)

LEMMA PreexistTold ==
  ASSUME TInv, SInv, NInv, NEW w \in Workers, Preexist(w)
  PROVE  NInv'
<1>a. /\ op[w] \in Op /\ op[w].new \in Rows /\ chroma \in Rows /\ op[w].scope \subseteq Papers
      /\ op[w].pc = "preexist"
  BY OwnFacts DEF Preexist
<1>u. Effect(w) /\ chroma' = chroma /\ log' = log /\ Suspects = suspect /\ LogEffect(w)
  <2>1. ReadOnly /\ (NoFault \/ Refused)
    BY DEF Preexist
  <2> QED BY <2>1, ReadOnlyEffect, NoDoubt DEF ReadOnly, LogEffect
<1>o. /\ Order(op[w], log) /\ op[w].kind \in {"ingest", "reindex", "replay"} /\ op[w].dels = {}
      /\ \A q \in op[w].scope : Trusted(q) => Story(op[w], chroma, log, q)
  BY <1>a, OwnStory DEF Order
<1>1. PICK known \in BOOLEAN :
        Proceed(w, [op[w] EXCEPT !.pc = "upsert", !.left = Present(op[w].new),
                                 !.pre = IF known THEN Present(op[w].new) \cap Present(chroma) ELSE {},
                                 !.preKnown = known, !.attempted = {}, !.created = {}], {})
  BY DEF Preexist
<1> DEFINE ids == Present(op[w].new)
           pre == IF known THEN ids \cap Present(chroma) ELSE {}
           o == [op[w] EXCEPT !.pc = "upsert", !.left = ids, !.pre = pre,
                              !.preKnown = known, !.attempted = {}, !.created = {}]
<1>2. /\ o.scope = op[w].scope /\ o.pc = "upsert" /\ o.kind = op[w].kind /\ o.todo = op[w].todo
      /\ o.prep = op[w].prep /\ o.dels = {} /\ o.new = op[w].new /\ o.events = op[w].events
      /\ o.left = ids /\ o.pre = pre /\ o.attempted = {}
  BY <1>a, <1>o DEF Op
<1>3. Proceed(w, o, {})
  BY <1>1
<1>4. \A i \in pre : chroma[i] # NoChunk
  BY DEF Present
<1>n. ids = Present(op[w].new)
  OBVIOUS
<1> HIDE DEF o, ids, pre
<1>5. Order(o, log')
  BY <1>o, <1>a, <1>u, <1>2 DEF Order
<1>6. ASSUME NEW q \in op[w].scope, q \notin reported \cup {} \cup Suspects
      PROVE  Story(o, chroma', log', q)
  <2>1. Trusted(q) /\ Story(op[w], chroma, log, q)
    BY <1>o, <1>u, <1>6 DEF Trusted
  <2>2. CASE op[w].kind = "replay"
    <3>1. Replaying(op[w], chroma, log, q)
      BY <2>1, <2>2 DEF Story
    <3>2. Replaying(o, chroma', log', q)
      BY <3>1, <1>a, <1>n, <1>u, <1>2 DEF Replaying
    <3> QED BY <2>2, <3>2, <1>2 DEF Story
  <2>3. CASE op[w].kind # "replay"
    <3>1. Replacing(op[w], chroma, log, q)
      BY <1>o, <2>1, <2>3 DEF Story
    <3>2. Agrees(chroma, log, q) /\ (q \in op[w].prep => Bare(chroma, q))
      BY <3>1, <1>a, <1>o DEF Replacing
    <3>3. q \in op[w].prep => LogBare(log, q) /\ \A s \in Slots : chroma[<<q, s>>] = NoChunk
      BY <3>2 DEF Agrees, Bare, LogBare, Same
    <3>4. Replacing(o, chroma', log', q)
      BY <3>2, <3>3, <1>u, <1>2, <1>4 DEF Replacing
    <3> QED BY <2>3, <3>4, <1>2 DEF Story
  <2> QED BY <2>2, <2>3
<1> QED BY <1>u, <1>2, <1>3, <1>5, <1>6, ProceedTold

\* What is left to say of the rows when an operation has tried these and has those left.
Written(o, ch, lg, p) ==
  IF o.kind = "replay"
  THEN \A s \in Slots :
         /\ ch[<<p, s>>] # NoChunk => Same(ch[<<p, s>>], Logged(lg, p)[s])
         /\ p \notin o.todo /\ <<p, s>> \notin o.left => Same(ch[<<p, s>>], Logged(lg, p)[s])
  ELSE IF p \in o.prep
       THEN /\ LogBare(lg, p)
            /\ \A s \in Slots : <<p, s>> \notin o.pre /\ (ch[<<p, s>>] # NoChunk => <<p, s>> \in o.attempted)
       ELSE Agrees(ch, lg, p)

LEMMA WrittenStory ==
  ASSUME NEW o, o.pc = "upsert", o.kind \in {"ingest", "reindex", "replay"}, NEW ch, NEW lg, NEW p
  PROVE  Story(o, ch, lg, p) <=> Written(o, ch, lg, p)
  BY DEF Story, Replacing, Replaying, Written

LEMMA AddedTold ==
  ASSUME TInv, SInv, NInv, NEW w \in Workers, NEW o \in Op, Effect(w), Added(w, o), log' = log,
         o.scope = op[w].scope, o.pc = "upsert", o.left = {}, Shape(o), Order(o, log),
         \A p \in op[w].scope : p \notin reported \cup Suspects => Written(o, chroma', log, p)
  PROVE  NInv'
<1>l. LogEffect(w)
  BY DEF LogEffect
<1>k. o.kind \in {"ingest", "reindex", "replay"} /\ o.dels = {}
  BY DEF Order
<1>1. CASE o.kind # "replay"
  <2> DEFINE q == [o EXCEPT !.pc = "record"]
  <2>1. /\ q.scope = o.scope /\ q.pc = "record" /\ q.kind = o.kind /\ q.prep = o.prep /\ q.dels = {}
        /\ q.new = o.new
    BY <1>k DEF Op
  <2>2. Proceed(w, q, {})
    BY <1>1 DEF Added
  <2> HIDE DEF q
  <2>3. Order(q, log')
    BY <1>1, <1>k, <2>1 DEF Order
  <2>4. ASSUME NEW p \in op[w].scope, p \notin reported \cup {} \cup Suspects
        PROVE  Story(q, chroma', log', p)
    <3>1. Written(o, chroma', log, p)
      BY <2>4
    <3>2. p \in o.prep => \A s \in Slots : chroma'[<<p, s>>] # NoChunk => o.new[<<p, s>>] # NoChunk
      BY <1>1, <3>1 DEF Written, Shape, Present
    <3>3. p \notin o.prep => Agrees(chroma', log', p)
      BY <1>1, <3>1 DEF Written
    <3>4. Replacing(q, chroma', log', p)
      BY <2>1, <3>2, <3>3 DEF Replacing
    <3> QED BY <1>1, <1>k, <2>1, <3>4 DEF Story
  <2> QED BY <1>l, <2>1, <2>2, <2>3, <2>4, ProceedTold
<1>2. CASE o.kind = "replay" /\ o.todo # {}
  <2> DEFINE q == [o EXCEPT !.pc = "replay"]
  <2>1. /\ q.scope = o.scope /\ q.pc = "replay" /\ q.kind = o.kind /\ q.prep = o.prep
        /\ q.new = o.new /\ q.events = o.events /\ q.todo = o.todo /\ q.dels = o.dels
    BY DEF Op
  <2>2. Proceed(w, q, {})
    BY <1>2 DEF Added
  <2> HIDE DEF q
  <2>3. Order(q, log')
    BY <1>2, <2>1 DEF Order
  <2>4. ASSUME NEW p \in op[w].scope, p \notin reported \cup {} \cup Suspects
        PROVE  Story(q, chroma', log', p)
    <3>1. Written(o, chroma', log, p)
      BY <2>4
    <3>2. Replaying(q, chroma', log', p)
      BY <1>2, <2>1, <3>1 DEF Written, Replaying
    <3> QED BY <1>2, <2>1, <3>2 DEF Story
  <2> QED BY <1>l, <2>1, <2>2, <2>3, <2>4, ProceedTold
<1>3. CASE o.kind = "replay" /\ o.todo = {}
  <2>1. Finish(w, {})
    BY <1>3 DEF Added
  <2>2. ASSUME NEW p \in op[w].scope, p \notin reported \cup {} \cup Suspects
        PROVE  Agrees(chroma', log', p)
    <3>1. Written(o, chroma', log, p)
      BY <2>2
    <3> QED BY <1>3, <3>1 DEF Written, Agrees
  <2> QED BY <1>l, <2>1, <2>2, FinishTold
<1> QED BY <1>1, <1>2, <1>3

LEMMA UpsertTold ==
  ASSUME TInv, SInv, NInv, NEW w \in Workers, UpsertBatch(w)
  PROVE  NInv'
<1> DEFINE n == op[w].new
<1>a. /\ op[w] \in Op /\ Shape(op[w]) /\ n \in Rows /\ chroma \in Rows /\ op[w].pc = "upsert"
      /\ op[w].left \subseteq Present(n) /\ op[w].attempted \subseteq Present(n)
      /\ log' = log /\ LogEffect(w) /\ op[w].scope \subseteq Papers
      /\ \A i \in Present(n) : i[1] \in op[w].scope
  BY OwnFacts DEF Shape, UpsertBatch, LogEffect
<1>o. /\ Order(op[w], log) /\ op[w].kind \in {"ingest", "reindex", "replay"} /\ op[w].dels = {}
      /\ \A p \in op[w].scope : p \notin reported \cup Suspects => Written(op[w], chroma, log, p)
  <2>1. Order(op[w], log) /\ op[w].kind \in {"ingest", "reindex", "replay"} /\ op[w].dels = {}
    BY <1>a, OwnStory DEF Order
  <2>2. ASSUME NEW p \in op[w].scope, p \notin reported \cup Suspects
        PROVE  Written(op[w], chroma, log, p)
    <3>1. Trusted(p)
      BY <2>2 DEF Trusted, Suspects
    <3>2. Story(op[w], chroma, log, p)
      BY <3>1, OwnStory
    <3> QED BY <1>a, <2>1, <3>2, WrittenStory
  <2> QED BY <2>1, <2>2
<1>1. PICK b \in SUBSET op[w].left :
        LET call == Upsert([i \in Ids |-> IF i \in b THEN n[i] ELSE NoChunk])
            mine == b \ Present(chroma)
            o == [op[w] EXCEPT !.left = @ \ b, !.attempted = @ \cup b]
        IN \/ /\ Done(call)
              /\ IF o.left # {} THEN Proceed(w, [o EXCEPT !.created = @ \cup mine], {})
                                ELSE Added(w, o)
           \/ Applied(call) /\ Refused /\ Finish(w, Abandoned(op[w]))
           \/ /\ Raised(call)
              /\ Proceed(w, [o EXCEPT !.pc = "rollback",
                               !.created = IF late' = late THEN @ ELSE @ \cup mine], {})
  BY DEF UpsertBatch
<1> DEFINE rows == [i \in Ids |-> IF i \in b THEN n[i] ELSE NoChunk]
           call == Upsert(rows)
           mine == b \ Present(chroma)
           left == op[w].left \ b
           tried == op[w].attempted \cup b
<1>b. /\ rows \in Rows /\ Present(rows) = b /\ b \subseteq Present(n) /\ Present(n) \subseteq Ids
      /\ \A i \in Ids : rows[i] = IF i \in b THEN n[i] ELSE NoChunk
  BY <1>a DEF Rows, Present
<1>d. left \subseteq Present(n) /\ tried \subseteq Present(n)
  BY <1>a, <1>b
<1>e. \A i : (i \in tried <=> i \in op[w].attempted \/ i \in b) /\ (i \notin left => i \in b \/ i \notin op[w].left)
  OBVIOUS
<1>m. op[w].new = n
  OBVIOUS
<1> HIDE DEF rows
<1>f. /\ call \in Call /\ RowsOf(call) = b
      /\ call.put = rows /\ call.drop = {} /\ call.edit = {}
  BY <1>b, UpsertCall
<1> HIDE DEF call, mine
<1>2. PICK o \in Op : o = [op[w] EXCEPT !.left = left, !.attempted = tried]
  <2>1. left \in SUBSET Ids /\ tried \in SUBSET Ids
    BY <1>b, <1>d
  <2> QED BY <2>1, <1>a DEF Op
<1>3. /\ o.scope = op[w].scope /\ o.pc = "upsert" /\ o.kind = op[w].kind /\ o.src = op[w].src
      /\ o.todo = op[w].todo /\ o.prep = op[w].prep /\ o.dels = op[w].dels /\ o.new = n
      /\ o.events = op[w].events /\ o.target = op[w].target /\ o.ids = op[w].ids /\ o.pre = op[w].pre
      /\ o.left = left /\ o.attempted = tried
  BY <1>2, <1>a DEF Op
<1>4. \/ Done(call) /\ o.left # {} /\ \E c : Proceed(w, [o EXCEPT !.created = c], {})
      \/ Done(call) /\ o.left = {} /\ Added(w, o)
      \/ Applied(call) /\ Refused /\ Finish(w, Abandoned(op[w]))
      \/ Raised(call) /\ \E c : Proceed(w, [o EXCEPT !.pc = "rollback", !.created = c], {})
  <2>1. o = [op[w] EXCEPT !.left = @ \ b, !.attempted = @ \cup b]
    BY <1>2
  <2> QED BY <1>1, <2>1 DEF call, rows
<1> HIDE DEF n, left, tried
<1>5. ASSUME Done(call)
      PROVE  /\ Effect(w) /\ late' = late
             /\ \A i \in Ids : chroma'[i] = IF i \in b THEN n[i] ELSE chroma[i]
  <2>1. \A i \in RowsOf(call) : i[1] \in op[w].scope
    BY <1>a, <1>b, <1>f
  <2>2. Effect(w) /\ late' = late /\ chroma' = After(chroma, call)
    BY <1>5, <1>a, <1>f, <2>1, DoneEffect
  <2>3. \A i \in Ids : After(chroma, call)[i] =
              IF i \in call.drop THEN NoChunk ELSE IF call.put[i] = NoChunk THEN chroma[i] ELSE call.put[i]
    BY <1>a, <1>f, AfterRows
  <2>4. \A i \in b : n[i] # NoChunk
    BY <1>b DEF Present
  <2> QED BY <2>2, <2>3, <2>4, <1>b, <1>f
<1>6. Order(o, log) /\ Shape(o)
  <2>1. Order(o, log)
    BY <1>3, <1>a, <1>m, <1>o DEF Order
  <2>2. Shape(o)
    BY <1>3, <1>a, <1>d, <1>m DEF Shape
  <2> QED BY <2>1, <2>2
\* The rows that were there before, and those of the batch.
<1>7. ASSUME NEW ch, NEW p \in op[w].scope, p \notin reported \cup Suspects,
             \A i \in Ids : ch[i] = chroma[i] \/ (i \in b /\ ch[i] = n[i]),
             o.kind = "replay" => \A i \in b : ch[i] = n[i]
      PROVE  Written(o, ch, log, p)
  <2>0. Written(op[w], chroma, log, p) /\ p \in Papers
    BY <1>a, <1>o, <1>7
  <2>p. \A i \in b : n[i] # NoChunk /\ i \in Ids
    BY <1>b DEF Present
  <2>1. CASE o.kind = "replay"
    <3>1. \A i \in b : n[i] = Logged(log, i[1])[i[2]]
      BY <1>3, <1>6, <1>b, <2>1 DEF Order
    <3>2. ASSUME NEW s \in Slots
          PROVE  /\ ch[<<p, s>>] # NoChunk => Same(ch[<<p, s>>], Logged(log, p)[s])
                 /\ p \notin o.todo /\ <<p, s>> \notin o.left => Same(ch[<<p, s>>], Logged(log, p)[s])
      <4>i. <<p, s>> \in Ids /\ <<p, s>>[1] = p /\ <<p, s>>[2] = s
        BY <2>0, IdOf
      <4>1. CASE <<p, s>> \in b
        <5>1. ch[<<p, s>>] = Logged(log, p)[s]
          BY <1>7, <2>1, <3>1, <4>1, <4>i
        <5> QED BY <5>1 DEF Same
      <4>2. CASE <<p, s>> \notin b
        <5>1. ch[<<p, s>>] = chroma[<<p, s>>] /\ (<<p, s>> \notin o.left => <<p, s>> \notin op[w].left)
          BY <1>3, <1>7, <1>e, <4>2, <4>i
        <5> QED BY <5>1, <1>3, <2>0, <2>1 DEF Written
      <4> QED BY <4>1, <4>2
    <3> QED BY <2>1, <3>2 DEF Written
  <2>2. CASE o.kind # "replay" /\ p \in o.prep
    <3>1. /\ LogBare(log, p)
          /\ \A s \in Slots : /\ <<p, s>> \notin op[w].pre
                              /\ chroma[<<p, s>>] # NoChunk => <<p, s>> \in op[w].attempted
      BY <1>3, <2>0, <2>2 DEF Written
    <3>2. ASSUME NEW s \in Slots
          PROVE  <<p, s>> \notin o.pre /\ (ch[<<p, s>>] # NoChunk => <<p, s>> \in o.attempted)
      <4>1. <<p, s>> \in Ids
        BY <2>0, IdOf
      <4> QED BY <1>3, <1>7, <1>e, <3>1, <4>1
    <3> QED BY <2>2, <3>1, <3>2 DEF Written
  <2>3. CASE o.kind # "replay" /\ p \notin o.prep
    <3>1. \A i \in b : i[1] # p
      BY <1>3, <1>6, <1>b, <1>o, <2>3 DEF Order
    <3>2. \A s \in Slots : ch[<<p, s>>] = chroma[<<p, s>>]
      BY <1>7, <2>0, <3>1, IdOf
    <3>3. Agrees(chroma, log, p)
      BY <1>3, <2>0, <2>3 DEF Written
    <3>4. Agrees(ch, log, p)
      BY <3>2, <3>3, StorySame
    <3> QED BY <2>3, <3>4 DEF Written
  <2> QED BY <2>1, <2>2, <2>3
<1>8. CASE Done(call) /\ o.left # {} /\ \E c : Proceed(w, [o EXCEPT !.created = c], {})
  <2>1. PICK c : Proceed(w, [o EXCEPT !.created = c], {})
    BY <1>8
  <2> DEFINE q == [o EXCEPT !.created = c]
  <2>2. /\ q.scope = o.scope /\ q.pc = "upsert" /\ q.kind = o.kind /\ q.todo = o.todo
        /\ q.prep = o.prep /\ q.dels = o.dels /\ q.new = o.new /\ q.events = o.events /\ q.pre = o.pre
        /\ q.left = o.left /\ q.attempted = o.attempted /\ q.target = o.target
    BY <1>3 DEF Op
  <2>3. Proceed(w, q, {})
    BY <2>1
  <2> HIDE DEF q
  <2>4. Order(q, log')
    BY <1>6, <1>a, <2>2, <1>3 DEF Order
  <2>5. ASSUME NEW p \in op[w].scope, p \notin reported \cup {} \cup Suspects
        PROVE  Story(q, chroma', log', p)
    <3>1. Written(o, chroma', log, p)
      <4>1. \A i \in Ids : chroma'[i] = IF i \in b THEN n[i] ELSE chroma[i]
        BY <1>5, <1>8
      <4>2. \A i \in b : i \in Ids
        BY <1>b
      <4> QED BY <4>1, <4>2, <1>7, <2>5
    <3>2. Written(q, chroma', log', p)
      BY <3>1, <2>2, <1>a DEF Written
    <3> QED BY <3>2, <2>2, <1>3, <1>o, WrittenStory
  <2> QED BY <1>5, <1>8, <1>3, <1>a, <2>2, <2>3, <2>4, <2>5, ProceedTold
<1>9. CASE Done(call) /\ o.left = {} /\ Added(w, o)
  <2>1. ASSUME NEW p \in op[w].scope, p \notin reported \cup Suspects
        PROVE  Written(o, chroma', log, p)
    <3>1. \A i \in Ids : chroma'[i] = IF i \in b THEN n[i] ELSE chroma[i]
      BY <1>5, <1>9
    <3>2. \A i \in b : i \in Ids
      BY <1>b
    <3> QED BY <3>1, <3>2, <1>7, <2>1
  <2> QED BY <1>3, <1>5, <1>6, <1>9, <1>a, <2>1, AddedTold
<1>10. CASE Raised(call) /\ \E c : Proceed(w, [o EXCEPT !.pc = "rollback", !.created = c], {})
  <2>1. PICK c : Proceed(w, [o EXCEPT !.pc = "rollback", !.created = c], {})
    BY <1>10
  <2> DEFINE q == [o EXCEPT !.pc = "rollback", !.created = c]
  <2>2. /\ q.scope = o.scope /\ q.pc = "rollback" /\ q.kind = o.kind /\ q.todo = o.todo
        /\ q.prep = o.prep /\ q.dels = o.dels /\ q.new = o.new /\ q.events = o.events /\ q.pre = o.pre
        /\ q.left = o.left /\ q.attempted = o.attempted /\ q.target = o.target
    BY <1>3 DEF Op
  <2>3. Proceed(w, q, {})
    BY <2>1
  <2> HIDE DEF q
  <2>4. Order(q, log')
    BY <1>6, <1>a, <2>2, <1>3, <1>o DEF Order
  <2>5. Effect(w) /\ chroma' = chroma
    BY <1>10, <1>a, <1>f, RaisedEffect
  <2>6. ASSUME NEW p \in op[w].scope, p \notin reported \cup {} \cup Suspects
        PROVE  Story(q, chroma', log', p)
    <3>1. CASE o.kind = "replay"
      BY <3>1, <2>2 DEF Story, Replaying
    <3>2. CASE o.kind # "replay"
      <4>1. Written(o, chroma, log, p)
        BY <1>7, <2>6, <3>2
      <4>2. Replacing(q, chroma', log', p)
        BY <1>a, <2>2, <2>5, <3>2, <4>1 DEF Written, Replacing
      <4> QED BY <1>3, <1>o, <2>2, <3>2, <4>2 DEF Story
    <3> QED BY <3>1, <3>2
  <2> QED BY <1>3, <1>a, <2>2, <2>3, <2>4, <2>5, <2>6, ProceedTold
\* If the count raises, a paper that was not being written agrees as before.
<1>11. CASE Applied(call) /\ Refused /\ Finish(w, Abandoned(op[w]))
  <2>1. /\ Effect(w) /\ chroma' = After(chroma, call)
        /\ \A i \in Ids : i \notin b => chroma'[i] = chroma[i]
    <3>1. \A i \in RowsOf(call) : i[1] \in op[w].scope
      BY <1>a, <1>b, <1>f, <1>m
    <3>2. chroma' = After(chroma, call)
      BY <1>11 DEF Applied
    <3> QED BY <1>11, <1>a, <1>f, <3>1, <3>2, AppliedEffect, AfterRows
  <2>2. /\ Abandoned(op[w]) \in SUBSET Papers
        /\ IF op[w].kind = "replay" THEN Abandoned(op[w]) = Papers
                                    ELSE Abandoned(op[w]) = op[w].prep
    BY <1>a, AbandonedPapers DEF Abandoned
  <2>4. ASSUME NEW p \in op[w].scope, p \notin reported \cup Abandoned(op[w]) \cup Suspects
        PROVE  Agrees(chroma', log', p)
    <3>1. op[w].kind # "replay" /\ p \in Papers /\ p \notin op[w].prep
      BY <1>a, <2>2, <2>4
    <3>2. \A i \in b : i[1] # p
      BY <1>b, <1>m, <1>o, <3>1 DEF Order
    <3>3. \A s \in Slots : chroma'[<<p, s>>] = chroma[<<p, s>>]
      BY <2>1, <3>1, <3>2, IdOf
    <3>4. Agrees(chroma, log, p)
      <4>1. Written(op[w], chroma, log, p)
        BY <1>o, <2>4
      <4> QED BY <3>1, <4>1 DEF Written
    <3> QED BY <1>a, <3>3, <3>4, StorySame
  <2> QED BY <1>11, <1>a, <2>1, <2>2, <2>4, FinishTold
<1> QED BY <1>4, <1>8, <1>9, <1>10, <1>11

\* The rollback leaves nothing of a paper that is new, or an ERROR tells of it.
LEMMA RollbackTold ==
  ASSUME TInv, SInv, NInv, NEW w \in Workers, Rollback(w)
  PROVE  NInv'
<1> DEFINE orphans == Orphans(op[w])
           kept == {i[1] : i \in op[w].attempted \cap op[w].pre}
           aborted == IF op[w].kind = "replay" THEN Papers ELSE {}
           named == {i[1] : i \in orphans}
<1>a. /\ op[w] \in Op /\ Shape(op[w]) /\ op[w].pc = "rollback" /\ log' = log /\ LogEffect(w)
      /\ op[w].scope \subseteq Papers
      /\ op[w].attempted \subseteq Ids /\ op[w].attempted \subseteq Present(op[w].new)
      /\ \A i \in Present(op[w].new) : i[1] \in op[w].scope
  BY OwnFacts DEF Rollback, Shape, Op, LogEffect
<1>o. /\ op[w].kind \in {"ingest", "reindex", "replay"}
      /\ op[w].kind # "replay" => \A i \in Present(op[w].new) : i[1] \in op[w].prep
      /\ op[w].kind # "replay" =>
           \A p \in op[w].scope : Trusted(p) => Replacing(op[w], chroma, log, p)
  BY <1>a, OwnStory DEF Order, Story
<1>1. /\ orphans \in SUBSET Ids /\ \A i \in orphans : i \in op[w].attempted /\ i[1] \in op[w].scope
      /\ \A i \in op[w].attempted : i \notin op[w].pre => i \in orphans
  BY <1>a DEF Orphans
<1>2. \/ Done(Delete(orphans)) /\ Finish(w, kept \cup aborted)
      \/ Raised(Delete(orphans)) /\ Finish(w, kept \cup aborted \cup named)
  BY DEF Rollback
<1>n. (\A i \in orphans : i[1] \in named) /\ (op[w].kind = "replay" => aborted = Papers)
  OBVIOUS
<1> HIDE DEF orphans, kept, aborted, named
\* All that is needed of the rows.
<1>3. ASSUME NEW rep, Finish(w, rep), Effect(w), op[w].kind = "replay" => rep = Papers,
             \A i \in Ids : i \notin orphans => chroma'[i] = chroma[i],
             \A i \in orphans : chroma'[i] = NoChunk \/ i[1] \in rep
      PROVE  NInv'
  <2>1. ASSUME NEW p \in op[w].scope, p \notin reported \cup rep \cup Suspects
        PROVE  Agrees(chroma', log', p)
    <3>1. Trusted(p) /\ p \in Papers /\ op[w].kind # "replay"
      BY <1>a, <1>3, <2>1 DEF Trusted, Suspects
    <3>2. Replacing(op[w], chroma, log, p)
      BY <1>o, <3>1
    <3>3. CASE p \notin op[w].prep
      <4>1. Agrees(chroma, log, p)
        BY <1>a, <3>2, <3>3 DEF Replacing
      <4>2. \A i \in orphans : i[1] \in op[w].prep
        BY <1>1, <1>a, <1>o, <3>1
      <4>3. \A s \in Slots : chroma'[<<p, s>>] = chroma[<<p, s>>]
        BY <1>3, <3>1, <3>3, <4>2, IdOf
      <4> QED BY <1>a, <4>1, <4>3, StorySame
    <3>4. CASE p \in op[w].prep
      <4>1. /\ LogBare(log, p)
            /\ \A s \in Slots : /\ <<p, s>> \notin op[w].pre
                                /\ chroma[<<p, s>>] # NoChunk => <<p, s>> \in op[w].attempted
        BY <1>a, <3>2, <3>4 DEF Replacing
      <4>2. ASSUME NEW s \in Slots PROVE chroma'[<<p, s>>] = NoChunk
        <5>1. <<p, s>> \in Ids /\ <<p, s>>[1] = p
          BY <3>1, IdOf
        <5>2. CASE <<p, s>> \in orphans
          BY <5>1, <5>2, <1>3, <2>1
        <5>3. CASE <<p, s>> \notin orphans
          BY <5>1, <5>3, <1>1, <1>3, <4>1
        <5> QED BY <5>2, <5>3
      <4> QED BY <1>a, <4>1, <4>2 DEF Agrees, LogBare, Same
    <3> QED BY <3>3, <3>4
  <2> QED BY <1>3, <1>a, <2>1, FinishTold
<1>4. CASE Done(Delete(orphans)) /\ Finish(w, kept \cup aborted)
  <2>1. Effect(w) /\ \A i \in Ids : chroma'[i] = IF i \in orphans THEN NoChunk ELSE chroma[i]
    BY <1>1, <1>4, <1>a, DeletedRows
  <2>2. op[w].kind = "replay" => kept \cup aborted = Papers
    <3>1. kept \subseteq Papers
      BY <1>a, IdsArePairs DEF kept
    <3> QED BY <1>n, <3>1
  <2>3. \A i \in orphans : chroma'[i] = NoChunk
    BY <1>1, <2>1
  <2> QED BY <1>3, <1>4, <2>1, <2>2, <2>3
<1>5. CASE Raised(Delete(orphans)) /\ Finish(w, kept \cup aborted \cup named)
  <2>1. Effect(w) /\ chroma' = chroma
    BY <1>1, <1>5, <1>a, DeleteCall, RaisedEffect
  <2>2. op[w].kind = "replay" => kept \cup aborted \cup named = Papers
    <3>1. kept \subseteq Papers /\ named \subseteq Papers
      BY <1>1, <1>a, IdsArePairs DEF kept, named
    <3> QED BY <1>n, <3>1
  <2>3. \A i \in orphans : i[1] \in kept \cup aborted \cup named
    BY <1>n
  <2> QED BY <1>3, <1>5, <2>1, <2>2, <2>3
<1> QED BY <1>2, <1>4, <1>5

\* A row that a write of the log lists is there, and nothing else of the paper is.
LEMMA LoggedRows ==
  ASSUME NEW ch \in Rows, NEW new \in Rows, NEW lg, NEW p \in Papers, lg[p] = ChunksOf(new, p),
         \A s \in Slots : new[<<p, s>>] # NoChunk => ch[<<p, s>>] = new[<<p, s>>],
         \A s \in Slots : ch[<<p, s>>] # NoChunk => new[<<p, s>>] # NoChunk
  PROVE  Agrees(ch, lg, p)
<1>1. lg[p] # NoRow
  BY ContentOfRows, CorpusAssumption
<1>2. \A s \in Slots : Logged(lg, p)[s] = new[<<p, s>>]
  BY <1>1 DEF Logged, ChunksOf
<1> QED BY <1>2 DEF Agrees, Same

LEMMA RecordTold ==
  ASSUME TInv, SInv, NInv, NEW w \in Workers, Record(w)
  PROVE  NInv'
<1>a. /\ op[w] \in Op /\ Shape(op[w]) /\ op[w].pc = "record" /\ op[w].scope \subseteq Papers
      /\ UNCHANGED <<chroma, late>> /\ op[w].new \in Rows /\ chroma \in Rows /\ log \in Logs
  BY OwnFacts DEF Record
<1>o. \A p \in op[w].scope : Trusted(p) => Replacing(op[w], chroma, log, p)
  BY <1>a, OwnStory DEF Order, Story
<1>1. PICK failed \in SUBSET op[w].prep :
        /\ NoFault \/ Refused
        /\ log' = [p \in Papers |-> IF p \in op[w].prep \ failed
                                    THEN ChunksOf(op[w].new, p) ELSE log[p]]
        /\ Finish(w, failed)
  BY DEF Record
<1>2. log' \in Logs
  <2>1. \A p \in Papers : ChunksOf(op[w].new, p) \in Content
    BY <1>a, ContentOfRows
  <2> QED BY <1>1, <1>a, <2>1 DEF Logs
<1>3. Effect(w)
  BY <1>1, <1>2, <1>a, ReadEffect
<1>4. LogEffect(w)
  BY <1>1, <1>a DEF LogEffect, Shape
<1>5. ASSUME NEW p \in op[w].scope, p \notin reported \cup failed \cup Suspects
      PROVE  Agrees(chroma', log', p)
  <2>1. Trusted(p) /\ p \in Papers /\ p \notin suspect
    BY <1>a, <1>5 DEF Trusted, Suspects
  <2>2. Replacing(op[w], chroma, log, p)
    BY <1>o, <2>1
  <2>3. CASE p \notin op[w].prep
    <3>1. Agrees(chroma, log, p) /\ log'[p] = log[p] /\ chroma' = chroma
      BY <1>1, <1>a, <2>1, <2>2, <2>3 DEF Replacing
    <3> QED BY <3>1, StorySame
  <2>4. CASE p \in op[w].prep
    <3>1. log'[p] = ChunksOf(op[w].new, p)
      BY <1>1, <1>5, <2>1, <2>4
    <3>2. \A s \in Slots : chroma[<<p, s>>] # NoChunk => op[w].new[<<p, s>>] # NoChunk
      BY <1>a, <2>2, <2>4 DEF Replacing
    <3>3. \A s \in Slots : op[w].new[<<p, s>>] # NoChunk => chroma[<<p, s>>] = op[w].new[<<p, s>>]
      BY <1>a, <2>1, IdOf DEF SInv, Kept, Backed, Present
    <3> QED BY <1>a, <2>1, <3>1, <3>2, <3>3, LoggedRows
  <2> QED BY <2>3, <2>4
<1> QED BY <1>1, <1>3, <1>4, <1>5, FinishTold

-----------------------------------------------------------------------------
(* Replay, backfill, purge and patch. *)

LEMMA FewerLate ==
  ASSUME late' \subseteq late
  PROVE  Suspects = suspect
<1>1. late' \ late = {}
  OBVIOUS
<1> QED BY <1>1 DEF Suspects

LEMMA ReplayResetTold ==
  ASSUME TInv, SInv, NInv, NEW w \in Workers, ReplayReset(w)
  PROVE  NInv'
<1>a. /\ op[w] \in Op /\ op[w].pc = "reset" /\ op[w].kind = "replay" /\ op[w].scope = Papers
      /\ log' = log /\ LogEffect(w)
  BY OwnFacts DEF ReplayReset, Shape, LogEffect
<1>e. Effect(w)
  BY <1>a, ResetEffect DEF ReplayReset
<1>o. /\ Order(op[w], log)
      /\ \A p \in Papers : Trusted(p) => Agrees(chroma, log, p)
  BY <1>a, OwnStory DEF Story, Replaying
<1> DEFINE todo == {p \in Papers : op[w].events[p] # NoRow}
           o == [op[w] EXCEPT !.pc = "replay", !.todo = todo]
<1>1. /\ o.scope = op[w].scope /\ o.pc = "replay" /\ o.kind = "replay" /\ o.todo = todo
      /\ o.prep = op[w].prep /\ o.dels = op[w].dels /\ o.events = op[w].events
  BY <1>a DEF Op
<1>2. Proceed(w, o, {})
  BY DEF ReplayReset
<1>3. chroma' = Empty \/ chroma' = chroma
  BY DEF ReplayReset
<1>4. Suspects = suspect
  BY FewerLate DEF ReplayReset
<1>5. \A p \in Papers : p \notin todo => log[p] = NoRow
  BY <1>a, <1>o DEF Order
<1> HIDE DEF o, todo
<1>6. Order(o, log')
  BY <1>a, <1>o, <1>1 DEF Order
<1>7. ASSUME NEW p \in op[w].scope, p \notin reported \cup {} \cup Suspects
      PROVE  Story(o, chroma', log', p)
  <2>1. p \in Papers /\ Agrees(chroma, log, p)
    BY <1>a, <1>o, <1>4, <1>7 DEF Trusted
  <2>2. CASE chroma' = Empty
    <3>1. \A s \in Slots : chroma'[<<p, s>>] = NoChunk
      BY <2>1, <2>2, IdOf DEF Empty
    <3>2. p \notin todo => \A s \in Slots : Logged(log, p)[s] = NoChunk
      BY <1>5, <2>1 DEF Logged, NoChunks
    <3>3. Replaying(o, chroma', log', p)
      BY <1>a, <1>1, <3>1, <3>2 DEF Replaying, Same
    <3> QED BY <1>1, <3>3 DEF Story
  <2>3. CASE chroma' = chroma
    <3>1. Replaying(o, chroma', log', p)
      BY <1>a, <1>1, <2>1, <2>3 DEF Replaying, Agrees
    <3> QED BY <1>1, <3>1 DEF Story
  <2> QED BY <1>3, <2>2, <2>3
<1> QED BY <1>a, <1>e, <1>1, <1>2, <1>6, <1>7, ProceedTold

LEMMA ReplayPaperTold ==
  ASSUME TInv, SInv, NInv, NEW w \in Workers, ReplayPaper(w)
  PROVE  NInv'
<1>a. /\ op[w] \in Op /\ Shape(op[w]) /\ op[w].pc = "replay" /\ op[w].kind = "replay"
      /\ op[w].scope \subseteq Papers
  BY OwnFacts DEF ReplayPaper, Shape
<1>e. Effect(w)
  BY ReadOnlyEffect DEF ReplayPaper
<1>u. chroma' = chroma /\ log' = log /\ Suspects = suspect /\ LogEffect(w)
  BY NoDoubt DEF ReadOnly, LogEffect, ReplayPaper
<1>o. /\ Order(op[w], log) /\ op[w].dels = {}
      /\ \A q \in op[w].scope : Trusted(q) => Replaying(op[w], chroma, log, q)
  BY <1>a, OwnStory DEF Order, Story
<1>1. CASE Finish(w, Papers)
  <2>1. \A q \in op[w].scope : q \notin reported \cup Papers \cup Suspects => Agrees(chroma', log', q)
    BY <1>a
  <2> QED BY <1>1, <1>e, <1>u, <2>1, FinishTold
<1>2. ASSUME NEW p \in op[w].todo,
             Proceed(w, [op[w] EXCEPT !.pc = "preexist", !.todo = @ \ {p},
                           !.new = [i \in Ids |-> IF i[1] = p THEN op[w].events[p][i[2]]
                                                              ELSE NoChunk]], {})
      PROVE  NInv'
  <2> DEFINE rows == [i \in Ids |-> IF i[1] = p THEN op[w].events[p][i[2]] ELSE NoChunk]
             todo == op[w].todo \ {p}
             o == [op[w] EXCEPT !.pc = "preexist", !.todo = todo, !.new = rows]
  <2>1. p \in Papers /\ op[w].events[p] = log[p] /\ log[p] # NoRow /\ Logged(log, p) = log[p]
    BY <1>a, <1>o DEF Shape, Order, Logged
  <2>2. \A i \in Ids : rows[i] = IF i[1] = p THEN Logged(log, p)[i[2]] ELSE NoChunk
    BY <2>1
  <2>3. /\ o.scope = op[w].scope /\ o.pc = "preexist" /\ o.kind = "replay" /\ o.todo = todo
        /\ o.prep = op[w].prep /\ o.dels = {} /\ o.new = rows /\ o.events = op[w].events
    BY <1>a, <1>o DEF Op
  <2>4. Proceed(w, o, {})
    BY <1>2
  <2>t. todo = op[w].todo \ {p}
    OBVIOUS
  <2> HIDE DEF o, rows, todo
  <2>p. \A i \in Ids : i \in Present(rows) <=> rows[i] # NoChunk
    BY DEF Present
  <2>5. Order(o, log')
    <3>1. \A i \in Present(rows) : rows[i] = Logged(log, i[1])[i[2]]
      BY <2>2 DEF Present
    <3> QED BY <1>a, <1>o, <1>u, <2>3, <3>1 DEF Order
  <2>6. ASSUME NEW q \in op[w].scope, q \notin reported \cup {} \cup Suspects
        PROVE  Story(o, chroma', log', q)
    <3>1. q \in Papers /\ Replaying(op[w], chroma, log, q)
      BY <1>a, <1>o, <1>u, <2>6 DEF Trusted
    <3>2. \A s \in Slots : /\ chroma[<<q, s>>] # NoChunk => Same(chroma[<<q, s>>], Logged(log, q)[s])
                           /\ q \notin op[w].todo => Same(chroma[<<q, s>>], Logged(log, q)[s])
      BY <1>a, <3>1 DEF Replaying
    <3>3. ASSUME NEW s \in Slots, q \notin todo, <<q, s>> \notin Present(rows)
          PROVE  Same(chroma[<<q, s>>], Logged(log, q)[s])
      <4>1. CASE q = p
        <5>1. <<q, s>> \in Ids /\ <<q, s>>[1] = q /\ <<q, s>>[2] = s
          BY <3>1, IdOf
        <5>2. Logged(log, q)[s] = NoChunk
          BY <2>2, <2>p, <3>3, <4>1, <5>1
        <5> QED BY <3>2, <5>2 DEF Same
      <4>2. CASE q # p
        BY <2>t, <3>2, <3>3, <4>2
      <4> QED BY <4>1, <4>2
    <3>4. Replaying(o, chroma', log', q)
      BY <1>u, <2>3, <3>2, <3>3 DEF Replaying
    <3> QED BY <2>3, <3>4 DEF Story
  <2> QED BY <1>e, <1>u, <2>3, <2>4, <2>5, <2>6, ProceedTold
<1> QED BY <1>1, <1>2 DEF ReplayPaper

LEMMA BackfillTold ==
  ASSUME TInv, SInv, NInv, NEW w \in Workers, BackfillWrite(w)
  PROVE  NInv'
<1>a. /\ op[w].pc = "backfill" /\ op[w].new \in Rows /\ chroma \in Rows /\ log \in Logs
      /\ UNCHANGED <<chroma, late>> /\ (NoFault \/ Refused) /\ Finish(w, {})
  BY OwnFacts DEF BackfillWrite
<1>o. /\ op[w].scope = Papers
      /\ \A p \in Papers : Trusted(p) =>
           Agrees(chroma, log, p) /\ \A s \in Slots : chroma[<<p, s>>] # NoChunk => op[w].new[<<p, s>>] # NoChunk
  BY <1>a, OwnStory DEF Order, Story
<1>1. \/ log' = [p \in Papers |-> IF ChunksOf(op[w].new, p) # NoChunks
                                  THEN ChunksOf(op[w].new, p) ELSE log[p]]
      \/ log' = log
  BY DEF BackfillWrite
<1>2. log' \in Logs
  <2>1. \A p \in Papers : ChunksOf(op[w].new, p) \in Content
    BY <1>a, ContentOfRows
  <2> QED BY <1>1, <1>a, <2>1 DEF Logs
<1>3. Effect(w) /\ LogEffect(w)
  BY <1>2, <1>a, <1>o, ReadEffect DEF LogEffect, BackfillWrite
<1>4. ASSUME NEW p \in op[w].scope, p \notin reported \cup {} \cup Suspects
      PROVE  Agrees(chroma', log', p)
  <2>1. p \in Papers /\ Trusted(p) /\ p \notin suspect
    BY <1>o, <1>4 DEF Trusted, Suspects
  <2>2. CASE log'[p] = log[p]
    BY <1>a, <1>o, <2>1, <2>2, StorySame
  <2>3. CASE log'[p] = ChunksOf(op[w].new, p)
    <3>1. \A s \in Slots : op[w].new[<<p, s>>] # NoChunk => chroma[<<p, s>>] = op[w].new[<<p, s>>]
      BY <1>a, <2>1, IdOf DEF SInv, Kept, Backed, Present
    <3> QED BY <1>a, <1>o, <2>1, <2>3, <3>1, LoggedRows
  <2> QED BY <1>1, <2>1, <2>2, <2>3
<1> QED BY <1>a, <1>3, <1>4, FinishTold

LEMMA PurgeTold ==
  ASSUME TInv, SInv, NInv, NEW w \in Workers, Purge(w)
  PROVE  NInv'
<1>a. /\ op[w] \in Op /\ op[w].pc = "purge" /\ op[w].scope = Papers
      /\ log' = log /\ LogEffect(w)
  BY OwnFacts DEF Purge, Shape, LogEffect
<1>e. Effect(w)
  BY <1>a, ResetEffect DEF Purge
<1>o. /\ Order(op[w], log) /\ op[w].kind = "purgeCli"
      /\ \A p \in Papers : Trusted(p) => Agrees(chroma, log, p)
  BY <1>a, OwnStory DEF Order, Story
<1>1. \/ chroma' = Empty /\ Proceed(w, [op[w] EXCEPT !.pc = "clearLog"], {})
      \/ chroma' = chroma /\ Finish(w, {})
  BY <1>o DEF Purge
<1>2. Suspects = suspect
  BY FewerLate DEF Purge
<1>3. CASE chroma' = chroma /\ Finish(w, {})
  <2>1. \A p \in op[w].scope : p \notin reported \cup {} \cup Suspects => Agrees(chroma', log', p)
    BY <1>a, <1>o, <1>2, <1>3 DEF Trusted
  <2> QED BY <1>a, <1>e, <1>3, <2>1, FinishTold
<1>4. CASE chroma' = Empty /\ Proceed(w, [op[w] EXCEPT !.pc = "clearLog"], {})
  <2> DEFINE o == [op[w] EXCEPT !.pc = "clearLog"]
  <2>1. /\ o.scope = op[w].scope /\ o.pc = "clearLog" /\ o.kind = "purgeCli"
        /\ o.prep = op[w].prep /\ o.dels = op[w].dels /\ o.new = op[w].new
    BY <1>a, <1>o DEF Op
  <2>2. Proceed(w, o, {})
    BY <1>4
  <2> HIDE DEF o
  <2>3. Order(o, log')
    BY <1>a, <2>1 DEF Order
  <2>4. ASSUME NEW p \in op[w].scope PROVE Story(o, chroma', log', p)
    <3>1. Bare(chroma', p)
      BY <1>a, <1>4, <2>4, IdOf DEF Bare, Empty
    <3> QED BY <2>1, <3>1 DEF Story
  <2> QED BY <1>a, <1>e, <2>1, <2>2, <2>3, <2>4, ProceedTold
<1> QED BY <1>1, <1>3, <1>4

LEMMA ClearLogTold ==
  ASSUME TInv, SInv, NInv, NEW w \in Workers, ClearLog(w)
  PROVE  NInv'
<1>a. op[w].pc = "clearLog" /\ UNCHANGED <<chroma, late>>
  BY DEF ClearLog
<1>o. op[w].scope = Papers /\ \A p \in Papers : Trusted(p) => Bare(chroma, p)
  BY <1>a, OwnStory DEF Order, Story
<1>1. log' \in Logs
  BY OwnFacts DEF Logs, ClearLog
<1>2. Effect(w) /\ LogEffect(w)
  BY <1>1, <1>o, ReadEffect DEF ClearLog, LogEffect
<1>3. CASE log' = [p \in Papers |-> NoRow] /\ Finish(w, {})
  <2>1. ASSUME NEW p \in op[w].scope, p \notin reported \cup {} \cup Suspects
        PROVE  Agrees(chroma', log', p)
    <3>1. p \in Papers /\ Bare(chroma, p)
      BY <1>o, <2>1 DEF Trusted, Suspects
    <3>2. Logged(log', p) = NoChunks
      BY <1>3, <3>1 DEF Logged
    <3> QED BY <1>a, <3>1, <3>2 DEF Agrees, Bare, Same, NoChunks
  <2> QED BY <1>2, <1>3, <2>1, FinishTold
<1>4. CASE Finish(w, Papers)
  <2>1. \A p \in op[w].scope : p \notin reported \cup Papers \cup Suspects => Agrees(chroma', log', p)
    BY <1>o
  <2> QED BY <1>2, <1>4, <2>1, FinishTold
<1> QED BY <1>3, <1>4 DEF ClearLog

\* A change of metadata leaves the text.
LEMMA PatchedRows ==
  ASSUME NEW ch \in Rows, NEW ids \in SUBSET Ids, NEW i \in Ids, NEW b
  PROVE  Same(ch[i], b) => Same(After(ch, Update(ids))[i], b)
<1>1. Update(ids).put = Empty /\ Update(ids).drop = {} /\ Update(ids).edit = ids
  BY DEF Update
<1>2. \A j \in Ids : Overlay(ch, Empty)[j] = ch[j]
  BY DEF Overlay, Empty
<1>3. \A j \in Ids : Without(Overlay(ch, Empty), {})[j] = ch[j]
  BY <1>2 DEF Without
<1> DEFINE d == Without(Overlay(ch, Empty), {})
<1>4. After(ch, Update(ids)) = Edited(d, ids)
  BY <1>1 DEF After
<1> HIDE DEF d
<1>5. d[i] = ch[i]
  BY <1>3 DEF d
<1>6. Edited(d, ids)[i] = IF i \in ids /\ ch[i] # NoChunk THEN [ch[i] EXCEPT !.edited = TRUE] ELSE ch[i]
  BY <1>5 DEF Edited
<1>7. ASSUME ch[i] # NoChunk
      PROVE  [ch[i] EXCEPT !.edited = TRUE] # NoChunk /\ [ch[i] EXCEPT !.edited = TRUE].ver = ch[i].ver
  <2>1. ch[i] \in Chunk
    BY <1>7 DEF Rows
  <2>2. [ch[i] EXCEPT !.edited = TRUE] \in Chunk /\ [ch[i] EXCEPT !.edited = TRUE].ver = ch[i].ver
    BY <2>1 DEF Chunk
  <2> QED BY <2>2, CorpusAssumption
<1> QED BY <1>4, <1>6, <1>7 DEF Same

LEMMA PatchTold ==
  ASSUME TInv, SInv, NInv, NEW w \in Workers, PatchWrite(w)
  PROVE  NInv'
<1> DEFINE ids == op[w].ids
<1>a. /\ ids \in SUBSET Ids /\ (\A i \in ids : i[1] \in op[w].scope) /\ op[w].scope \subseteq Papers
      /\ op[w].pc = "patch" /\ log' = log /\ LogEffect(w) /\ chroma \in Rows
  BY OwnFacts DEF Op, Shape, PatchWrite, LogEffect
<1>o. \A p \in op[w].scope : Trusted(p) => Agrees(chroma, log, p)
  BY <1>a, OwnStory DEF Story
<1>1. (Done(Update(ids)) \/ Raised(Update(ids))) /\ Finish(w, {})
  BY DEF PatchWrite
<1> HIDE DEF ids
<1>2. Update(ids) \in Call /\ \A i \in RowsOf(Update(ids)) : i[1] \in op[w].scope
  BY <1>a, UpdateCall
<1>3. Effect(w) /\ chroma' \in {chroma, After(chroma, Update(ids))}
  BY <1>1, <1>2, <1>a, DoneEffect, RaisedEffect
<1>4. ASSUME NEW p \in op[w].scope, p \notin reported \cup {} \cup Suspects
      PROVE  Agrees(chroma', log', p)
  <2>1. p \in Papers /\ Agrees(chroma, log, p)
    BY <1>a, <1>o, <1>4 DEF Trusted, Suspects
  <2>2. \A s \in Slots : Same(chroma[<<p, s>>], Logged(log, p)[s])
    BY <2>1 DEF Agrees
  <2>3. \A s \in Slots : Same(chroma'[<<p, s>>], Logged(log, p)[s])
    BY <1>3, <1>a, <2>1, <2>2, IdOf, PatchedRows
  <2> QED BY <1>a, <2>3 DEF Agrees
<1> QED BY <1>a, <1>1, <1>3, <1>4, FinishTold

-----------------------------------------------------------------------------
(* Late calls, crashes, and every step. *)

LEMMA LandTold ==
  ASSUME TInv, SInv, NInv, Land
  PROVE  NInv'
<1>1. PICK c \in late :
        /\ chroma' = After(chroma, c)
        /\ UNCHANGED <<log, op, reported, suspect, budget>>
  BY DEF Land
<1>2. c \in Call /\ chroma \in Rows
  BY DEF TInv, Typed
<1>3. \A i \in Ids : i[1] \notin suspect => chroma'[i] = chroma[i]
  BY <1>1, <1>2, AfterRows, CallTouches DEF SInv, LateSuspect
<1>4. \A w \in Workers : Order(op[w], log)
  BY DEF NInv
<1>5. ASSUME NEW p \in Papers, Trusted(p)
      PROVE  \A s \in Slots : chroma'[<<p, s>>] = chroma[<<p, s>>]
  BY <1>3, <1>5, IdOf DEF Trusted
<1>6. ASSUME NEW p \in Papers, Trusted(p), \A w \in Workers : p \notin op[w].scope
      PROVE  Agrees(chroma', log, p)
  <2>1. Agrees(chroma, log, p)
    BY <1>6 DEF NInv, Told
  <2> QED BY <1>5, <1>6, <2>1, StorySame
<1>7. ASSUME NEW p \in Papers, Trusted(p), NEW w \in Workers, p \in op[w].scope
      PROVE  Story(op[w], chroma', log, p)
  <2>1. Story(op[w], chroma, log, p)
    BY <1>7 DEF NInv, Told
  <2> QED BY <1>5, <1>7, <2>1, StorySame
<1>8. Told'
  BY <1>1, <1>6, <1>7 DEF Told, Trusted
<1> QED BY <1>1, <1>4, <1>8 DEF NInv

LEMMA SameTold ==
  ASSUME NInv, UNCHANGED <<chroma, log, op, reported, suspect>>
  PROVE  NInv'
  BY DEF NInv, Told, Trusted

LEMMA IdleOrder == \A lg : Idle.scope = {} /\ Order(Idle, lg)
<1>1. Idle.kind = "none" /\ Idle.pc = "idle" /\ Idle.scope = {}
  BY DEF Idle
<1> QED BY <1>1 DEF Order

LEMMA CrashTold ==
  ASSUME TInv, SInv, NInv, Crash
  PROVE  NInv'
<1>1. /\ op' = [w \in Workers |-> Idle]
      /\ suspect' = suspect \cup UNION {op[w].scope : w \in Workers}
      /\ UNCHANGED <<chroma, log, reported>>
  BY DEF Crash
<1>2. \A w \in Workers : op'[w].scope = {} /\ Order(op'[w], log')
  BY <1>1, IdleOrder
<1>3. ASSUME NEW p \in Papers, Trusted(p)' PROVE Agrees(chroma', log', p)
  <2>1. Trusted(p) /\ \A w \in Workers : p \notin op[w].scope
    BY <1>1, <1>3 DEF Trusted
  <2> QED BY <1>1, <2>1 DEF NInv, Told
<1>4. Told'
  BY <1>2, <1>3 DEF Told
<1> QED BY <1>2, <1>4 DEF NInv

LEMMA NextTold ==
  ASSUME TInv, SInv, NInv, "purgeRoute" \notin Kinds, [Next]_vars
  PROVE  NInv'
<1>1. ASSUME NEW w \in Workers, Step(w) PROVE NInv'
  <2>1. CASE \/ StartIngest(w) \/ StartDelete(w) \/ StartReindexRoute(w)
             \/ StartReplay(w) \/ StartBackfill(w) \/ StartPurge(w) \/ StartPatch(w)
    BY <2>1, StartTold
  <2>2. CASE Check(w) \/ Embed(w)
    BY <2>2, CheckTold, EmbedTold
  <2>3. CASE DelGet(w) \/ DelDo(w) \/ Cascade(w)
    BY <2>3, DelGetTold, DelDoTold, CascadeTold
  <2>4. CASE Preexist(w) \/ UpsertBatch(w) \/ Rollback(w) \/ Record(w)
    BY <2>4, PreexistTold, UpsertTold, RollbackTold, RecordTold
  <2>5. CASE ReplayReset(w) \/ ReplayPaper(w) \/ BackfillWrite(w)
    BY <2>5, ReplayResetTold, ReplayPaperTold, BackfillTold
  <2>6. CASE Purge(w) \/ ClearLog(w) \/ PatchWrite(w)
    BY <2>6, PurgeTold, ClearLogTold, PatchTold
  <2> QED BY <1>1, <2>1, <2>2, <2>3, <2>4, <2>5, <2>6 DEF Step
<1>2. CASE Vanish \/ UNCHANGED vars
  <2>1. UNCHANGED <<chroma, log, op, reported, suspect>>
    BY <1>2 DEF Vanish, vars
  <2> QED BY <2>1, SameTold
<1> QED BY <1>1, <1>2, LandTold, CrashTold DEF Next

LEMMA InitTold ==
  ASSUME Init
  PROVE  NInv
<1>1. /\ \A w \in Workers : op[w].scope = {} /\ Order(op[w], log)
      /\ chroma = Empty /\ log = [p \in Papers |-> NoRow]
  BY IdleOrder DEF Init
<1>2. ASSUME NEW p \in Papers PROVE Agrees(chroma, log, p)
  <2>1. Logged(log, p) = NoChunks
    BY <1>1 DEF Logged
  <2> QED BY <1>1, <2>1, IdOf DEF Agrees, Same, NoChunks, Empty
<1> QED BY <1>1, <1>2 DEF NInv, Told

\* No operation that returns leaves a divergence unsaid: while operations keep to papers of
\* their own and no purge goes through the API, a paper whose chunks are not what the log
\* says, once nothing runs, is one an operation logged an ERROR about or raised over without
\* undoing what it had done, or a crash or a call that timed out concerned it.
THEOREM NoSilentDivergenceAlways ==
  ~Overlap /\ "purgeRoute" \notin Kinds => (Spec => []NoSilentDivergence)
<1>1. SUFFICES ASSUME ~Overlap, "purgeRoute" \notin Kinds PROVE Spec => []NoSilentDivergence
  OBVIOUS
<1>2. Init => TInv /\ SInv /\ NInv
  BY <1>1, Initially, InitTold
<1>3. TInv /\ SInv /\ NInv /\ [Next]_vars => (TInv /\ SInv /\ NInv)'
  BY <1>1, NextKeeps, NextTold
<1>4. TInv /\ NInv => NoSilentDivergence
  <2> SUFFICES ASSUME TInv, NInv, Resting, NEW p \in Papers, Diverges(chroma, log, p),
                      p \notin reported \cup suspect
               PROVE  FALSE
    BY DEF NoSilentDivergence
  <2>1. \A w \in Workers : p \notin op[w].scope
    BY IdleOrder DEF Resting
  <2>2. Agrees(chroma, log, p)
    BY <2>1 DEF NInv, Told, Trusted
  <2> QED BY <2>2, Agreement DEF TInv, Typed
<1> QED BY <1>2, <1>3, <1>4, PTL DEF Spec
=============================================================================
