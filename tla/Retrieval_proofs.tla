-------------------------- MODULE Retrieval_proofs --------------------------
(***************************************************************************)
(* Proofs about module Retrieval.  The inductive invariant IInv says of    *)
(* every passage a query holds or a cache keeps how current it still is    *)
(* (Fresh, Alive), for as long as its cache was not invalidated since the  *)
(* query looked there (Held), and of every result that it is in scope and  *)
(* honest about the missing dense leg.  A query's step changes what one    *)
(* query knows (QueryStep) and at most one cache (CacheStep); an           *)
(* operation on the corpus keeps what was read current (WriterStep) or     *)
(* empties a cache (WipeStep).                                             *)
(***************************************************************************)
EXTENDS Retrieval, FiniteSetTheorems, TLAPS

-----------------------------------------------------------------------------
(* The inductive invariant. *)

Names == {"retrieval", "tool"}
Places == {"new", "look", "scoped", "embed", "sparse", "lexical", "fetch", "store",
           "toolput", "prompt", "over", "failed"}
Entries == [key : {Key(q) : q \in Queries}, result : Results]

\* What the filter f lets through.
InScope(f, ps) ==
  \A p \in Range(ps) : (f.papers # {} => PaperOf[p.id] \in f.papers) /\ (f.tags => p.tag)

\* A result is for this filter, and says whether the dense leg is missing.
Honest(f, r) == InScope(f, r.passages) /\ r.degraded = ~r.dense

\* A passage need not be what the collection has as long as a refresh may still drop what was
\* made of it, or if its paper was changed without one: Fresh for what the retrieval cache
\* keeps, Alive for the tool cache.
Alive(p) ==
  \/ p.id \in stored
  \/ writer.at \in {"index", "retrieval", "tool"} /\ PaperOf[p.id] = writer.paper
  \/ PaperOf[p.id] \in skipped["tool"]
Fresh(p) ==
  \/ p.id \in stored /\ (p = ReadNow(p.id) \/ (writer.at = "patched" /\ PaperOf[p.id] = writer.paper))
  \/ writer.at \in {"index", "retrieval"} /\ PaperOf[p.id] = writer.paper
  \/ PaperOf[p.id] \in skipped["retrieval"]

\* What was read since then: a cache not invalidated meanwhile may keep it.
Held(then, ps) ==
  \A p \in Range(ps) :
    /\ then["retrieval"] = wipes["retrieval"] => Fresh(p)
    /\ then["tool"] = wipes["tool"] => Alive(p)

Types ==
  /\ stored \subseteq Chunks /\ tagged \subseteq Papers
  /\ index = NoIndex \/ index \subseteq Chunks
  /\ writer \in [at : {"idle", "index", "retrieval", "tool", "patched"}, paper : Papers \cup {NoPaper}]
  /\ writes \in 0..MaxWrites
  /\ skipped \in [Names -> SUBSET Papers] /\ skipped["retrieval"] \subseteq skipped["tool"]
  /\ wipes \in [Names -> Nat]
  /\ pc \in [Queries -> Places]
  /\ leg \in [Queries -> Seq(Passages)]
  /\ ids \in [Queries -> Seq(Chunks)]
  /\ found \in [Queries -> Results]
  /\ since \in [Queries -> [Names -> Nat]]

\* A cache has its size and one entry per key.
WellKept(c) ==
  /\ Len(c) <= CacheSize
  /\ \A i, j \in DOMAIN c : c[i].key = c[j].key => i = j

\* An entry is honest, and as current as its cache promises.
EntryOK(name, e) ==
  /\ Honest(e.key.filter, e.result)
  /\ name = "retrieval" => e.result.dense
  /\ e.result.raced \/ \A p \in Range(e.result.passages) : IF name = "retrieval" THEN Fresh(p) ELSE Alive(p)

CachesOK(cs) ==
  /\ cs \in [Names -> Seq(Entries)]
  /\ \A name \in Names : WellKept(cs[name]) /\ \A e \in Range(cs[name]) : EntryOK(name, e)

QueryOK(q) ==
  /\ \A name \in Names : since[q][name] <= wipes[name]
  /\ Honest(FilterOf[q], found[q])
  /\ pc[q] \in {"embed", "sparse", "lexical", "fetch"} => FilterOf[q].papers = {}
  /\ pc[q] = "store" => found[q].dense
  /\ pc[q] \in {"lexical", "fetch"} => Held(since[q], leg[q])
  /\ pc[q] \in {"store", "toolput"} => found[q].raced \/ Held(since[q], found[q].passages)

IInv == Types /\ CachesOK(caches) /\ \A q \in Queries : QueryOK(q)

-----------------------------------------------------------------------------
(* Picked. *)

\* The position that is the k-th of these, and the number of a position among these.
Upto(at, i) == {j \in at : j <= i}
Number(at, i) == Cardinality(Upto(at, i))
Position(at, k) == CHOOSE i \in at : Number(at, i) = k

\* Positions are numbered from 1 on without a gap, in their order.
LEMMA Numbering ==
  ASSUME NEW at, IsFiniteSet(at), at \subseteq Nat
  PROVE  /\ Cardinality(at) \in Nat
         /\ \A i \in at : Number(at, i) \in 1..Cardinality(at)
         /\ \A i, j \in at : i < j => Number(at, i) < Number(at, j)
         /\ \A k \in 1..Cardinality(at) : \E i \in at : Number(at, i) = k
<1>1. Cardinality(at) \in Nat
  BY FS_CardinalityType
<1>2. ASSUME NEW i \in at
      PROVE  IsFiniteSet(Upto(at, i)) /\ Number(at, i) \in 1..Cardinality(at)
  <2>1. Upto(at, i) \subseteq at /\ i \in Upto(at, i)
    BY DEF Upto
  <2>2. /\ IsFiniteSet(Upto(at, i)) /\ Cardinality(Upto(at, i)) <= Cardinality(at)
        /\ Cardinality(Upto(at, i)) \in Nat
    BY <2>1, FS_Subset, FS_CardinalityType
  <2>3. Cardinality(Upto(at, i)) # 0
    BY <2>1, <2>2, FS_EmptySet
  <2> QED
    BY <1>1, <2>2, <2>3 DEF Number
<1>3. ASSUME NEW i \in at, NEW j \in at, i < j
      PROVE  Number(at, i) < Number(at, j)
  <2>1. Upto(at, i) \subseteq Upto(at, j) /\ j \in Upto(at, j) /\ j \notin Upto(at, i)
    <3>1. i \in Nat /\ j \in Nat /\ ~(j <= i)
      BY <1>3
    <3>2. ASSUME NEW k \in at, k <= i PROVE k <= j
      <4>1. k \in Nat
        OBVIOUS
      <4> QED
        BY <1>3, <3>1, <3>2, <4>1
    <3>3. j \in Upto(at, j) /\ j \notin Upto(at, i)
      BY <3>1 DEF Upto
    <3>4. \A k \in Upto(at, i) : k \in at /\ k <= i
      BY DEF Upto
    <3>5. \A k \in Upto(at, i) : k \in Upto(at, j)
      BY <3>2, <3>4 DEF Upto
    <3> QED
      BY <3>3, <3>5
  <2>2. Number(at, i) <= Number(at, j) /\ Number(at, i) # Number(at, j)
    BY <1>2, <2>1, FS_Subset DEF Number
  <2> QED
    BY <1>2, <2>2
<1>4. ASSUME NEW i \in at, NEW j \in at, Number(at, i) = Number(at, j)
      PROVE  i = j
  <2>1. Number(at, i) \in Nat
    BY <1>2
  <2>2. ~(i < j) /\ ~(j < i)
    BY <1>3, <1>4, <2>1
  <2> QED
    BY <2>2
<1> DEFINE f == [i \in at |-> Number(at, i)]
           n == Cardinality(at)
<1>5. f \in Injection(at, 1..n)
  BY <1>2, <1>4 DEF Injection, IsInjective
<1>6. f \in Surjection(at, 1..n)
  <2>1. IsFiniteSet(1..n) /\ Cardinality(1..n) = n
    BY <1>1, FS_Interval
  <2> HIDE DEF f, n
  <2> QED
    BY <1>5, <2>1, FS_Injection DEF n
<1> QED
  BY <1>1, <1>2, <1>3, <1>6 DEF Surjection

LEMMA DomainOf ==
  ASSUME NEW S, NEW s \in Seq(S)
  PROVE  /\ Len(s) \in Nat /\ DOMAIN s = 1..Len(s)
         /\ IsFiniteSet(DOMAIN s) /\ Cardinality(DOMAIN s) = Len(s)
<1>1. Len(s) \in Nat /\ DOMAIN s = 1..Len(s)
  OBVIOUS
<1> QED
  BY <1>1, FS_Interval

\* What Picked gives: as many entries as positions, each of one of these, in their order.
LEMMA Picks ==
  ASSUME NEW S, NEW s \in Seq(S), NEW at \in SUBSET DOMAIN s
  PROVE  /\ IsFiniteSet(at) /\ Cardinality(at) \in 0..Len(s)
         /\ Picked(s, at) \in Seq(S)
         /\ DOMAIN Picked(s, at) = 1..Cardinality(at)
         /\ Len(Picked(s, at)) = Cardinality(at)
         /\ \A k \in 1..Cardinality(at) :
              /\ Position(at, k) \in at
              /\ Picked(s, at)[k] = s[Position(at, k)]
              /\ Number(at, Position(at, k)) = k
         /\ \A i \in at : Number(at, i) \in 1..Cardinality(at) /\ Position(at, Number(at, i)) = i
<1> DEFINE n == Cardinality(at)
<1>1. Len(s) \in Nat /\ DOMAIN s = 1..Len(s) /\ IsFiniteSet(DOMAIN s)
      /\ Cardinality(DOMAIN s) = Len(s) /\ at \subseteq Nat
  BY DomainOf
<1>2. IsFiniteSet(at) /\ n \in 0..Len(s)
  BY <1>1, FS_Subset, FS_CardinalityType
<1>3. \A k \in 1..n : Position(at, k) \in at /\ Number(at, Position(at, k)) = k
  BY <1>1, <1>2, Numbering DEF Position
<1>4. Picked(s, at) = [k \in 1..n |-> s[Position(at, k)]]
  BY DEF Picked, Position, Number, Upto
<1>5. ASSUME NEW k \in 1..n
      PROVE  s[Position(at, k)] \in S
  BY <1>3
<1>6. ASSUME NEW i \in at
      PROVE  Number(at, i) \in 1..n /\ Position(at, Number(at, i)) = i
  <2>1. Number(at, i) \in 1..n
    BY <1>1, <1>2, Numbering
  <2>2. Position(at, Number(at, i)) \in at /\ Number(at, Position(at, Number(at, i))) = Number(at, i)
    BY <1>3, <2>1
  <2>3. \A j \in at : Number(at, j) = Number(at, i) => j = i
    <3>1. ASSUME NEW j \in at, Number(at, j) = Number(at, i) PROVE j = i
      <4>1. ~(i < j) /\ ~(j < i)
        BY <1>1, <1>2, <3>1, <2>1, Numbering
      <4> QED
        BY <1>1, <4>1
    <3> QED
      BY <3>1
  <2> QED
    BY <2>1, <2>2, <2>3
<1> HIDE DEF n
<1>7. Picked(s, at) \in Seq(S) /\ DOMAIN Picked(s, at) = 1..n /\ Len(Picked(s, at)) = n
  BY <1>2, <1>4, <1>5
<1> QED
  BY <1>2, <1>3, <1>4, <1>6, <1>7 DEF n

LEMMA PicksFrom ==
  ASSUME NEW S, NEW s \in Seq(S), NEW at \in SUBSET DOMAIN s
  PROVE  Range(Picked(s, at)) = {s[i] : i \in at}
<1>1. \A x \in Range(Picked(s, at)) : \E i \in at : x = s[i]
  <2>1. ASSUME NEW k \in DOMAIN Picked(s, at)
        PROVE  \E i \in at : Picked(s, at)[k] = s[i]
    BY Picks
  <2> QED
    BY <2>1 DEF Range
<1>2. ASSUME NEW i \in at
      PROVE  s[i] \in Range(Picked(s, at))
  <2>1. Number(at, i) \in DOMAIN Picked(s, at) /\ Picked(s, at)[Number(at, i)] = s[i]
    BY Picks
  <2> QED
    BY <2>1 DEF Range
<1> QED
  BY <1>1, <1>2

\* Entries that were apart stay apart.
LEMMA PicksApart ==
  ASSUME NEW S, NEW s \in Seq(S), NEW at \in SUBSET DOMAIN s,
         NEW k \in DOMAIN Picked(s, at), NEW l \in DOMAIN Picked(s, at), k # l
  PROVE  \E i, j \in at : i # j /\ Picked(s, at)[k] = s[i] /\ Picked(s, at)[l] = s[j]
<1>1. /\ Position(at, k) \in at /\ Picked(s, at)[k] = s[Position(at, k)] /\ Number(at, Position(at, k)) = k
      /\ Position(at, l) \in at /\ Picked(s, at)[l] = s[Position(at, l)] /\ Number(at, Position(at, l)) = l
  BY Picks
<1> QED
  BY <1>1

-----------------------------------------------------------------------------
(* Passages. *)

LEMMA Constants ==
  /\ {TopK, Overfetched, MaxChunks, CacheSize} \subseteq Nat \ {0} /\ MaxWrites \in Nat
  /\ \A q \in Queries : /\ FilterOf[q] \in [papers : SUBSET Papers, tags : BOOLEAN]
                        /\ Width(q) \in Nat \ {0}
  /\ \A c \in Chunks : PaperOf[c] \in Papers
  /\ IsFiniteSet(Chunks)
BY RetrievalAssumption DEF Width, Papers, Range

LEMMA Orders ==
  /\ DenseOrder \in Seq(Chunks) /\ LexicalOrder \in Seq(Chunks) /\ RerankOrder \in Seq(Chunks)
  /\ SetToSeq(Chunks) \in Seq(Chunks)
<1>1. Cardinality(Chunks) \in Nat
  BY Constants, FS_CardinalityType
<1>2. ASSUME NEW r \in SetToSeqs(Chunks) PROVE r \in Seq(Chunks)
  BY <1>1 DEF SetToSeqs
<1>3. PICK f \in Bijection(1..Cardinality(Chunks), Chunks) : TRUE
  BY Constants, FS_CardinalityType DEF ExistsBijection
<1>4. f \in [1..Cardinality(Chunks) -> Chunks] /\ IsInjective(f)
  BY <1>3 DEF Bijection, Injection
<1>5. SetToSeq(Chunks) \in [1..Cardinality(Chunks) -> Chunks]
  BY <1>4 DEF SetToSeq
<1>6. SetToSeq(Chunks) \in Seq(Chunks)
  BY <1>1, <1>5
<1>7. {DenseOrder, LexicalOrder, RerankOrder} \subseteq SetToSeqs(Chunks)
  BY RetrievalAssumption
<1> QED
  BY <1>2, <1>6, <1>7

LEMMA FirstIs ==
  ASSUME NEW S, NEW s \in Seq(S), NEW n \in Nat
  PROVE  /\ First(s, n) \in Seq(S) /\ Len(First(s, n)) <= Len(s)
         /\ \A i \in DOMAIN First(s, n) : i \in DOMAIN s /\ First(s, n)[i] = s[i]
         /\ Range(First(s, n)) \subseteq Range(s)
<1>1. /\ First(s, n) \in Seq(S) /\ Len(First(s, n)) <= Len(s)
      /\ \A i \in DOMAIN First(s, n) : i \in DOMAIN s /\ First(s, n)[i] = s[i]
  BY DEF First
<1> QED
  BY <1>1 DEF Range

LEMMA AmongIs ==
  ASSUME NEW order \in Seq(Chunks), NEW S
  PROVE  Among(order, S) \in Seq(Chunks) /\ Range(Among(order, S)) \subseteq S
<1> DEFINE at == {i \in DOMAIN order : order[i] \in S}
<1>1. at \in SUBSET DOMAIN order
  OBVIOUS
<1>2. Picked(order, at) \in Seq(Chunks)
  BY <1>1, Picks
<1>3. Range(Picked(order, at)) = {order[i] : i \in at}
  BY <1>1, PicksFrom
<1> QED
  BY <1>2, <1>3 DEF Among

LEMMA ReadAllIs ==
  ASSUME NEW s \in Seq(Chunks)
  PROVE  /\ ReadAll(s) \in Seq(Passages)
         /\ \A p \in Range(ReadAll(s)) : p.id \in Range(s) /\ p = ReadNow(p.id)
<1>1. \A i \in DOMAIN s : ReadNow(s[i]) \in Passages /\ ReadNow(s[i]).id = s[i]
  BY DEF ReadNow, Passages
<1>2. ReadAll(s) \in Seq(Passages)
  BY <1>1 DEF ReadAll
<1>3. DOMAIN ReadAll(s) = DOMAIN s /\ \A i \in DOMAIN s : ReadAll(s)[i] = ReadNow(s[i])
  BY DEF ReadAll
<1> QED
  BY <1>1, <1>2, <1>3 DEF Range

LEMMA TaggedIs ==
  ASSUME NEW q \in Queries, NEW ps \in Seq(Passages)
  PROVE  /\ Tagged(q, ps) \in Seq(Passages) /\ Range(Tagged(q, ps)) \subseteq Range(ps)
         /\ FilterOf[q].tags => \A p \in Range(Tagged(q, ps)) : p.tag
<1> DEFINE at == {i \in DOMAIN ps : ps[i].tag}
<1>1. at \in SUBSET DOMAIN ps
  OBVIOUS
<1>2. Picked(ps, at) \in Seq(Passages) /\ Range(Picked(ps, at)) = {ps[i] : i \in at}
  BY <1>1, Picks, PicksFrom
<1>3. {ps[i] : i \in at} \subseteq Range(ps) /\ \A p \in {ps[i] : i \in at} : p.tag
  BY DEF Range
<1> HIDE DEF at
<1> QED
  BY <1>2, <1>3 DEF Tagged, at

LEMMA RerankedIs ==
  ASSUME NEW ps \in Seq(Passages)
  PROVE  Reranked(ps) \in Seq(Passages) /\ Range(Reranked(ps)) \subseteq Range(ps)
<1> DEFINE order == Among(RerankOrder, IdsOf(ps))
           all == [i \in DOMAIN order |-> CHOOSE p \in Range(ps) : p.id = order[i]]
<1>1. order \in Seq(Chunks) /\ Range(order) \subseteq IdsOf(ps)
  BY AmongIs, Orders
<1>2. ASSUME NEW i \in DOMAIN order
      PROVE  (CHOOSE p \in Range(ps) : p.id = order[i]) \in Range(ps)
  <2>1. order[i] \in IdsOf(ps)
    BY <1>1 DEF Range
  <2> QED
    BY <2>1 DEF IdsOf
<1>3. Range(ps) \subseteq Passages
  BY DEF Range
<1>4. all \in Seq(Passages) /\ Range(all) \subseteq Range(ps)
  <2> HIDE DEF order
  <2>1. DOMAIN all = 1..Len(order) /\ Len(order) \in Nat
    BY <1>1
  <2>2. \A i \in DOMAIN all : all[i] \in Range(ps)
    BY <1>2
  <2>3. all \in Seq(Passages)
    BY <1>2, <1>3, <2>1
  <2> HIDE DEF all
  <2> QED
    BY <2>2, <2>3 DEF Range
<1> HIDE DEF order, all
<1>5. Reranked(ps) = First(all, MaxChunks)
  BY DEF Reranked, order, all
<1> QED
  BY <1>4, <1>5, FirstIs, Constants

-----------------------------------------------------------------------------
(* The caches. *)

\* What is left of a cache without some of its entries.
LEMMA KeepsSome ==
  ASSUME NEW c \in Seq(Entries), WellKept(c), NEW at \in SUBSET DOMAIN c
  PROVE  /\ Picked(c, at) \in Seq(Entries) /\ WellKept(Picked(c, at))
         /\ Len(Picked(c, at)) <= Len(c)
         /\ at # DOMAIN c => Len(Picked(c, at)) < Len(c)
         /\ Range(Picked(c, at)) = {c[i] : i \in at}
         /\ Range(Picked(c, at)) \subseteq Range(c)
<1> DEFINE d == Picked(c, at)
<1>1. d \in Seq(Entries) /\ Len(d) = Cardinality(at) /\ Cardinality(at) \in 0..Len(c)
  BY Picks
<1>2. ASSUME NEW i \in DOMAIN d, NEW j \in DOMAIN d, d[i].key = d[j].key
      PROVE  i = j
  <2>1. CASE i # j
    <3>1. PICK k, l \in at : k # l /\ d[i] = c[k] /\ d[j] = c[l]
      BY <2>1, PicksApart
    <3>2. k \in DOMAIN c /\ l \in DOMAIN c /\ c[k].key = c[l].key
      BY <1>2, <3>1
    <3> QED
      BY <3>1, <3>2 DEF WellKept
  <2> QED
    BY <2>1
<1>3. at # DOMAIN c => Cardinality(at) # Len(c)
  <2>1. IsFiniteSet(DOMAIN c) /\ Cardinality(DOMAIN c) = Len(c)
    BY DomainOf
  <2> QED
    BY <2>1, FS_Subset
<1>4. Range(d) = {c[i] : i \in at}
  BY PicksFrom
<1>5. Len(c) \in Nat /\ Len(c) <= CacheSize /\ CacheSize \in Nat
  BY Constants DEF WellKept
<1>6. {c[i] : i \in at} \subseteq Range(c)
  BY DEF Range
<1>7. WellKept(d)
  <2> HIDE DEF d
  <2> QED
    BY <1>1, <1>2, <1>5 DEF WellKept
<1> HIDE DEF d
<1>8. Len(d) <= Len(c) /\ (at # DOMAIN c => Len(d) < Len(c))
  BY <1>1, <1>3, <1>5
<1> QED
  BY <1>1, <1>4, <1>6, <1>7, <1>8 DEF d

LEMMA DroppedIs ==
  ASSUME NEW name, NEW q \in Queries, caches[name] \in Seq(Entries), WellKept(caches[name])
  PROVE  /\ Dropped(name, q) \in Seq(Entries) /\ WellKept(Dropped(name, q))
         /\ Range(Dropped(name, q)) \subseteq Range(caches[name])
         /\ \A e \in Range(Dropped(name, q)) : e.key # Key(q)
         /\ Hits(name, q) # {} => Len(Dropped(name, q)) < CacheSize
<1> DEFINE c == caches[name]
           at == {i \in DOMAIN c : c[i].key # Key(q)}
<1>1. at \in SUBSET DOMAIN c
  OBVIOUS
<1>2. Dropped(name, q) = Picked(c, at)
  BY DEF Dropped, KeyOf
<1>3. \A x \in {c[i] : i \in at} : x.key # Key(q)
  OBVIOUS
<1>4. Hits(name, q) # {} => at # DOMAIN c
  BY DEF Hits, KeyOf, Range
<1>5. Len(c) \in Nat /\ Len(c) <= CacheSize /\ CacheSize \in Nat
  BY Constants DEF WellKept
<1> HIDE DEF c, at
<1>6. /\ Picked(c, at) \in Seq(Entries) /\ WellKept(Picked(c, at))
      /\ at # DOMAIN c => Len(Picked(c, at)) < Len(c)
      /\ Range(Picked(c, at)) = {c[i] : i \in at} /\ Range(Picked(c, at)) \subseteq Range(c)
  BY <1>1, KeepsSome DEF c
<1>7. Len(Picked(c, at)) \in Nat
  BY <1>6
<1> QED
  BY <1>2, <1>3, <1>4, <1>5, <1>6, <1>7 DEF c

\* A key that is not there yet may be added where there is room.
LEMMA AppendKept ==
  ASSUME NEW c \in Seq(Entries), WellKept(c), Len(c) < CacheSize, NEW e \in Entries,
         \A x \in Range(c) : x.key # e.key
  PROVE  /\ Append(c, e) \in Seq(Entries) /\ WellKept(Append(c, e))
         /\ Range(Append(c, e)) \subseteq Range(c) \cup {e}
<1> DEFINE d == Append(c, e)
<1>1. /\ d \in Seq(Entries) /\ Len(c) \in Nat /\ Len(d) = Len(c) + 1
      /\ DOMAIN d = 1..Len(c) + 1 /\ DOMAIN c = 1..Len(c)
      /\ d[Len(c) + 1] = e /\ \A i \in 1..Len(c) : d[i] = c[i]
  OBVIOUS
<1> HIDE DEF d
<1>2. \A i \in 1..Len(c) : c[i] \in Range(c)
  BY <1>1 DEF Range
<1>3. \A x \in Range(d) : x \in Range(c) \cup {e}
  <2>1. ASSUME NEW i \in DOMAIN d PROVE d[i] \in Range(c) \cup {e}
    <3>1. i \in 1..Len(c) \/ i = Len(c) + 1
      BY <1>1
    <3> QED
      BY <1>1, <1>2, <3>1
  <2> QED
    BY <2>1 DEF Range
<1>4. Len(d) <= CacheSize
  BY <1>1, Constants
<1>5. ASSUME NEW i \in DOMAIN d, NEW j \in DOMAIN d, d[i].key = d[j].key
      PROVE  i = j
  <2>1. (i \in 1..Len(c) \/ i = Len(c) + 1) /\ (j \in 1..Len(c) \/ j = Len(c) + 1)
    BY <1>1
  <2>2. \A k \in 1..Len(c) : d[k].key # e.key
    BY <1>1, <1>2
  <2>3. CASE i \in 1..Len(c) /\ j \in 1..Len(c)
    BY <1>1, <1>5, <2>3 DEF WellKept
  <2> QED
    BY <1>1, <1>5, <2>1, <2>2, <2>3
<1> QED
  BY <1>1, <1>3, <1>4, <1>5 DEF WellKept, d

LEMMA TouchedIs ==
  ASSUME NEW name, NEW q \in Queries, caches[name] \in Seq(Entries), WellKept(caches[name]),
         NEW e \in Hits(name, q)
  PROVE  LET c == Append(Dropped(name, q), e) IN
         c \in Seq(Entries) /\ WellKept(c) /\ Range(c) \subseteq Range(caches[name])
<1>1. e \in Range(caches[name]) /\ e.key = Key(q)
  BY DEF Hits, KeyOf
<1>2. e \in Entries
  BY <1>1 DEF Range
<1>3. /\ Dropped(name, q) \in Seq(Entries) /\ WellKept(Dropped(name, q))
      /\ Range(Dropped(name, q)) \subseteq Range(caches[name])
      /\ \A x \in Range(Dropped(name, q)) : x.key # e.key
      /\ Len(Dropped(name, q)) < CacheSize
  BY <1>1, DroppedIs
<1> QED
  BY <1>1, <1>2, <1>3, AppendKept

\* The least recently used entry is the first.
LEMMA RoomIs ==
  ASSUME NEW c \in Seq(Entries), WellKept(c), NEW new \in BOOLEAN, new \/ Len(c) < CacheSize
  PROVE  /\ Room(c, new) \in Seq(Entries) /\ WellKept(Room(c, new))
         /\ Len(Room(c, new)) < CacheSize /\ Range(Room(c, new)) \subseteq Range(c)
<1>1. Len(c) \in Nat /\ CacheSize \in Nat \ {0} /\ Len(c) <= CacheSize
  BY Constants DEF WellKept
<1>2. CASE new /\ Len(c) >= CacheSize
  <2> DEFINE d == Tail(c)
  <2>1. c # <<>>
    BY <1>1, <1>2
  <2>2. /\ d \in Seq(Entries) /\ Len(d) = Len(c) - 1 /\ DOMAIN d = 1..Len(c) - 1
        /\ DOMAIN c = 1..Len(c) /\ \A i \in 1..Len(c) - 1 : d[i] = c[i + 1]
    BY <2>1
  <2> HIDE DEF d
  <2>3. ASSUME NEW i \in DOMAIN d, NEW j \in DOMAIN d, d[i].key = d[j].key
        PROVE  i = j
    <3>1. i + 1 \in DOMAIN c /\ j + 1 \in DOMAIN c /\ c[i + 1].key = c[j + 1].key
      BY <1>1, <2>2, <2>3
    <3>2. i + 1 = j + 1
      BY <3>1 DEF WellKept
    <3> QED
      BY <1>1, <2>2, <3>2
  <2>4. Range(d) \subseteq Range(c)
    <3>1. \A i \in DOMAIN d : i + 1 \in DOMAIN c /\ d[i] = c[i + 1]
      BY <1>1, <2>2
    <3> QED
      BY <3>1 DEF Range
  <2>5. Room(c, new) = d
    BY <1>2 DEF Room, d
  <2> QED
    BY <1>1, <2>2, <2>3, <2>4, <2>5 DEF WellKept
<1>3. CASE ~(new /\ Len(c) >= CacheSize)
  BY <1>1, <1>3 DEF Room
<1> QED
  BY <1>2, <1>3

LEMMA PutIs ==
  ASSUME NEW name, NEW q \in Queries, caches[name] \in Seq(Entries), WellKept(caches[name]),
         NEW r \in Results
  PROVE  LET e == [key |-> Key(q), result |-> r]
             c == Append(Room(Dropped(name, q), Hits(name, q) = {}), e)
         IN  c \in Seq(Entries) /\ WellKept(c) /\ Range(c) \subseteq Range(caches[name]) \cup {e}
<1> DEFINE e == [key |-> Key(q), result |-> r]
           rest == Dropped(name, q)
           room == Room(rest, Hits(name, q) = {})
<1>1. e \in Entries /\ e.key = Key(q)
  BY DEF Entries
<1>2. /\ rest \in Seq(Entries) /\ WellKept(rest) /\ Range(rest) \subseteq Range(caches[name])
      /\ \A x \in Range(rest) : x.key # Key(q)
      /\ Hits(name, q) = {} \/ Len(rest) < CacheSize
  BY DroppedIs
<1> HIDE DEF rest
<1>3. room \in Seq(Entries) /\ WellKept(room) /\ Len(room) < CacheSize /\ Range(room) \subseteq Range(rest)
  BY <1>2, RoomIs
<1> HIDE DEF e, room
<1>4. /\ Append(room, e) \in Seq(Entries) /\ WellKept(Append(room, e))
      /\ Range(Append(room, e)) \subseteq Range(room) \cup {e}
  BY <1>1, <1>2, <1>3, AppendKept
<1> QED
  BY <1>2, <1>3, <1>4 DEF e, rest, room

-----------------------------------------------------------------------------
(* Steps. *)

LEMMA NothingIs == Nothing \in Results /\ \A f : Honest(f, Nothing)
<1>1. <<>> \in Seq(Passages) /\ Range(<<>>) = {}
  BY DEF Range
<1> QED
  BY <1>1 DEF Nothing, Results, Honest, InScope

LEMMA InitInv == Init => IInv
<1> SUFFICES ASSUME Init PROVE IInv
  OBVIOUS
<1>1. Types
  <2>1. <<>> \in Seq(Passages) /\ <<>> \in Seq(Chunks)
    OBVIOUS
  <2>2. Unread \in [Names -> Nat]
    BY DEF Unread, Names
  <2>3. stored \subseteq Chunks
    BY DEF Init
  <2> QED
    BY <2>1, <2>2, <2>3, NothingIs, Constants, RetrievalAssumption DEF Types, Init, Places, Names
<1>2. CachesOK(caches)
  <2>1. caches = [name \in Names |-> <<>>]
    BY DEF Init, Names
  <2>2. <<>> \in Seq(Entries) /\ Len(<<>>) = 0 /\ DOMAIN <<>> = {} /\ Range(<<>>) = {}
    BY DEF Range
  <2> QED
    BY <2>1, <2>2, Constants DEF CachesOK, WellKept
<1>3. ASSUME NEW q \in Queries
      PROVE  QueryOK(q)
  <2>1. since[q] = Unread /\ pc[q] = "new" /\ found[q] = Nothing
    BY DEF Init
  <2>2. \A name \in Names : since[q][name] <= wipes[name]
    BY <2>1 DEF Init, Unread, Names
  <2> QED
    BY <2>1, <2>2, NothingIs DEF QueryOK
<1> QED
  BY <1>1, <1>2, <1>3 DEF IInv

\* While the corpus stays as it is, so does what is said of passages.
LEMMA SameCorpus ==
  ASSUME UNCHANGED corpus
  PROVE  /\ \A p : (Fresh(p)' <=> Fresh(p)) /\ (Alive(p)' <=> Alive(p))
         /\ \A name, e : EntryOK(name, e)' <=> EntryOK(name, e)
         /\ wipes' = wipes => \A then, ps : Held(then, ps)' <=> Held(then, ps)
<1>1. \A p : (Fresh(p)' <=> Fresh(p)) /\ (Alive(p)' <=> Alive(p))
  BY DEF Fresh, Alive, ReadNow, corpus
<1> QED
  BY <1>1 DEF EntryOK, Held, Honest, InScope

\* A step of a query keeps the invariant if what it finds is right for this query.
LEMMA QueryStep ==
  ASSUME IInv, NEW q \in Queries, UNCHANGED <<corpus, wipes>>,
         index' = NoIndex \/ index' \subseteq Chunks,
         NEW there \in Places, pc' = [pc EXCEPT ![q] = there],
         NEW l \in Seq(Passages), leg' = [leg EXCEPT ![q] = l],
         NEW i \in Seq(Chunks), ids' = [ids EXCEPT ![q] = i],
         NEW f \in Results, found' = [found EXCEPT ![q] = f],
         NEW then \in [Names -> Nat], since' = [since EXCEPT ![q] = then],
         CachesOK(caches'),
         \A name \in Names : then[name] <= wipes[name],
         Honest(FilterOf[q], f),
         there \in {"embed", "sparse", "lexical", "fetch"} => FilterOf[q].papers = {},
         there = "store" => f.dense,
         there \in {"lexical", "fetch"} => Held(then, l),
         there \in {"store", "toolput"} => f.raced \/ Held(then, f.passages)
  PROVE  IInv'
<1>1. Types'
  BY DEF IInv, Types, corpus
<1>2. CachesOK(caches)'
  BY SameCorpus DEF CachesOK
<1>3. ASSUME NEW r \in Queries
      PROVE  QueryOK(r)'
  <2>1. CASE r = q
    <3>1. /\ pc'[r] = there /\ leg'[r] = l /\ found'[r] = f /\ since'[r] = then
      BY <2>1 DEF IInv, Types
    <3>2. Held(then, l)' <=> Held(then, l)
      BY SameCorpus
    <3>3. Held(then, f.passages)' <=> Held(then, f.passages)
      BY SameCorpus
    <3> QED
      BY <2>1, <3>1, <3>2, <3>3 DEF QueryOK, Honest, InScope
  <2>2. CASE r # q
    <3>1. /\ pc'[r] = pc[r] /\ leg'[r] = leg[r] /\ found'[r] = found[r] /\ since'[r] = since[r]
      BY <2>2 DEF IInv, Types
    <3>2. QueryOK(r)
      BY DEF IInv
    <3> QED
      BY <3>1, <3>2, SameCorpus DEF QueryOK, Honest, InScope
  <2> QED
    BY <2>1, <2>2
<1> QED
  BY <1>1, <1>2, <1>3 DEF IInv

\* What IInv says of one query.
LEMMA Now ==
  ASSUME IInv, NEW q \in Queries
  PROVE  /\ pc[q] \in Places /\ leg[q] \in Seq(Passages) /\ ids[q] \in Seq(Chunks)
         /\ found[q] \in Results /\ since[q] \in [Names -> Nat] /\ QueryOK(q)
         /\ pc = [pc EXCEPT ![q] = pc[q]] /\ leg = [leg EXCEPT ![q] = leg[q]]
         /\ ids = [ids EXCEPT ![q] = ids[q]] /\ found = [found EXCEPT ![q] = found[q]]
         /\ since = [since EXCEPT ![q] = since[q]]
         /\ CachesOK(caches) /\ (index = NoIndex \/ index \subseteq Chunks)
         /\ \A name \in Names : wipes[name] \in Nat
BY DEF IInv, Types

\* One cache changes, and what it holds then is right.
LEMMA CacheStep ==
  ASSUME IInv, NEW name \in Names, NEW c \in Seq(Entries), WellKept(c),
         \A e \in Range(c) : EntryOK(name, e),
         caches' = [caches EXCEPT ![name] = c]
  PROVE  CachesOK(caches')
BY DEF IInv, CachesOK

LEMMA HitIs ==
  ASSUME IInv, NEW q \in Queries, NEW name \in Names, NEW e \in Hits(name, q)
  PROVE  /\ e \in Entries /\ EntryOK(name, e) /\ e.key = Key(q)
         /\ e.result \in Results /\ Honest(FilterOf[q], e.result)
         /\ caches' = Touched(name, q, e) => CachesOK(caches')
<1>1. caches[name] \in Seq(Entries) /\ WellKept(caches[name]) /\ \A x \in Range(caches[name]) : EntryOK(name, x)
  BY DEF IInv, CachesOK
<1>2. e \in Range(caches[name]) /\ e.key = Key(q)
  BY DEF Hits, KeyOf
<1>3. e \in Entries /\ EntryOK(name, e)
  BY <1>1, <1>2 DEF Range
<1>4. Honest(FilterOf[q], e.result) /\ e.result \in Results
  BY <1>2, <1>3 DEF EntryOK, Key, Entries
<1>5. ASSUME caches' = Touched(name, q, e)
      PROVE  CachesOK(caches')
  <2> DEFINE c == Append(Dropped(name, q), e)
  <2>1. c \in Seq(Entries) /\ WellKept(c) /\ Range(c) \subseteq Range(caches[name])
    BY <1>1, TouchedIs
  <2> HIDE DEF c
  <2>2. caches' = [caches EXCEPT ![name] = c]
    BY <1>5 DEF Touched, c
  <2> QED
    BY <1>1, <2>1, <2>2, CacheStep
<1> QED
  BY <1>2, <1>3, <1>4, <1>5

\* A query that looks in a cache has looked just now.
LEMMA LooksIs ==
  ASSUME IInv, NEW q \in Queries, NEW name \in Names, Looks(q, name)
  PROVE  LET then == [since[q] EXCEPT ![name] = wipes[name]] IN
         /\ then \in [Names -> Nat] /\ since' = [since EXCEPT ![q] = then]
         /\ \A n \in Names : then[n] <= wipes[n]
<1> DEFINE then == [since[q] EXCEPT ![name] = wipes[name]]
<1>1. since[q] \in [Names -> Nat] /\ \A n \in Names : wipes[n] \in Nat /\ since[q][n] <= wipes[n]
  BY Now DEF QueryOK
<1>2. then \in [Names -> Nat] /\ since' = [since EXCEPT ![q] = then]
  BY <1>1 DEF Looks
<1>3. \A n \in Names : then[n] <= wipes[n]
  BY <1>1
<1> QED
  BY <1>2, <1>3

LEMMA LookToolStep ==
  ASSUME IInv, NEW q \in Queries, LookTool(q)
  PROVE  IInv'
<1> DEFINE then == [since[q] EXCEPT !["tool"] = wipes["tool"]]
<1>1. /\ then \in [Names -> Nat] /\ since' = [since EXCEPT ![q] = then]
      /\ \A n \in Names : then[n] <= wipes[n]
  BY LooksIs DEF LookTool, Names
<1> HIDE DEF then
<1>2. UNCHANGED <<corpus, wipes>> /\ UNCHANGED <<index, leg, ids>>
  BY DEF LookTool
<1>3. CASE Hits("tool", q) = {}
  <2>1. pc' = [pc EXCEPT ![q] = "look"] /\ UNCHANGED <<caches, found>>
    BY <1>3 DEF LookTool, Goes
  <2>2. /\ leg' = [leg EXCEPT ![q] = leg[q]] /\ ids' = [ids EXCEPT ![q] = ids[q]]
        /\ found' = [found EXCEPT ![q] = found[q]]
    BY <1>2, <2>1, Now
  <2>3. "look" \in Places /\ Honest(FilterOf[q], found[q])
    BY Now DEF Places, QueryOK
  <2> QED
    BY <1>1, <1>2, <2>1, <2>2, <2>3, Now, QueryStep
<1>4. CASE Hits("tool", q) # {}
  <2>1. PICK e \in Hits("tool", q) :
          /\ pc' = [pc EXCEPT ![q] = "over"]
          /\ caches' = Touched("tool", q, e) /\ found' = [found EXCEPT ![q] = e.result]
    BY <1>4 DEF LookTool, Goes, Finds
  <2>2. "tool" \in Names /\ "over" \in Places
    BY DEF Names, Places
  <2>3. e.result \in Results /\ Honest(FilterOf[q], e.result) /\ CachesOK(caches')
    BY <2>1, <2>2, HitIs
  <2> QED
    BY <1>1, <1>2, <2>1, <2>2, <2>3, Now, QueryStep
<1> QED
  BY <1>3, <1>4

LEMMA AfterIs == \A q : After(q) \in {"toolput", "prompt"}
BY DEF After

LEMMA LookStep ==
  ASSUME IInv, NEW q \in Queries, Look(q)
  PROVE  IInv'
<1> DEFINE then == [since[q] EXCEPT !["retrieval"] = wipes["retrieval"]]
<1>1. /\ then \in [Names -> Nat] /\ since' = [since EXCEPT ![q] = then]
      /\ \A n \in Names : then[n] <= wipes[n]
  BY LooksIs DEF Look, Names
<1> HIDE DEF then
<1>2. UNCHANGED <<corpus, wipes>> /\ UNCHANGED <<index, leg, ids>>
  BY DEF Look
<1>3. CASE Hits("retrieval", q) = {}
  <2> DEFINE there == IF FilterOf[q].papers = {} THEN "embed" ELSE "scoped"
  <2>1. pc' = [pc EXCEPT ![q] = there] /\ UNCHANGED <<caches, found>>
    BY <1>3 DEF Look, Goes
  <2>2. there \in Places /\ there \in {"embed", "scoped"} /\ (there = "embed" => FilterOf[q].papers = {})
    BY DEF Places
  <2> HIDE DEF there
  <2> QED
    BY <1>1, <1>2, <2>1, <2>2, Now, QueryStep DEF QueryOK
<1>4. CASE Hits("retrieval", q) # {}
  <2>1. PICK e \in Hits("retrieval", q) :
          /\ pc' = [pc EXCEPT ![q] = After(q)]
          /\ caches' = Touched("retrieval", q, e) /\ found' = [found EXCEPT ![q] = e.result]
    BY <1>4 DEF Look, Goes, Finds
  <2>2. "retrieval" \in Names /\ After(q) \in Places /\ After(q) \in {"toolput", "prompt"}
    BY AfterIs DEF Names, Places
  <2>3. /\ e.result \in Results /\ Honest(FilterOf[q], e.result) /\ CachesOK(caches')
        /\ EntryOK("retrieval", e)
    BY <2>1, <2>2, HitIs
  <2>4. \A p : Fresh(p) => Alive(p)
    BY DEF IInv, Types, Fresh, Alive
  <2>5. e.result.raced \/ Held(then, e.result.passages)
    BY <2>3, <2>4 DEF EntryOK, Held
  <2> QED
    BY <1>1, <1>2, <2>1, <2>2, <2>3, <2>5, Now, QueryStep
<1> QED
  BY <1>3, <1>4

\* What is read from the collection is what it has.
LEMMA ReadsFresh ==
  ASSUME NEW ps, \A p \in Range(ps) : p.id \in stored /\ p = ReadNow(p.id)
  PROVE  \A then : Held(then, ps)
BY DEF Held, Fresh, Alive

LEMMA ResultIs ==
  ASSUME NEW ps \in Seq(Passages)
  PROVE  LET r == [Nothing EXCEPT !.passages = ps] IN
         /\ r \in Results /\ r.passages = ps /\ r.dense /\ ~r.degraded
         /\ \A f : InScope(f, ps) => Honest(f, r)
BY NothingIs DEF Nothing, Results, Honest

LEMMA ScopedStep ==
  ASSUME IInv, NEW q \in Queries, Scoped(q)
  PROVE  IInv'
<1> DEFINE here == {c \in stored : PaperOf[c] \in FilterOf[q].papers}
           all == ReadAll(Among(SetToSeq(Chunks), here))
           ps == Tagged(q, all)
           r == [Nothing EXCEPT !.passages = ps]
<1>1. all \in Seq(Passages) /\ \A p \in Range(all) : p.id \in here /\ p = ReadNow(p.id)
  <2> HIDE DEF here
  <2>1. Among(SetToSeq(Chunks), here) \in Seq(Chunks) /\ Range(Among(SetToSeq(Chunks), here)) \subseteq here
    BY Orders, AmongIs
  <2> QED
    BY <2>1, ReadAllIs
<1> HIDE DEF all
<1>2. ps \in Seq(Passages) /\ Range(ps) \subseteq Range(all) /\ (FilterOf[q].tags => \A p \in Range(ps) : p.tag)
  BY <1>1, TaggedIs
<1>3. /\ pc' = [pc EXCEPT ![q] = "store"] /\ found' = [found EXCEPT ![q] = r]
      /\ UNCHANGED <<corpus, wipes>> /\ UNCHANGED <<index, caches, leg, ids, since>>
  BY DEF Scoped, Goes, Finds, all, here
<1> HIDE DEF ps
<1>4. InScope(FilterOf[q], ps)
  BY <1>1, <1>2 DEF InScope
<1>5. r \in Results /\ r.passages = ps /\ r.dense /\ Honest(FilterOf[q], r)
  BY <1>2, <1>4, ResultIs
<1>6. Held(since[q], r.passages)
  BY <1>1, <1>2, <1>5, ReadsFresh
<1> HIDE DEF r
<1>7. /\ leg' = [leg EXCEPT ![q] = leg[q]] /\ ids' = [ids EXCEPT ![q] = ids[q]]
      /\ since' = [since EXCEPT ![q] = since[q]]
  BY <1>3, Now
<1>8. "store" \in Places /\ \A n \in Names : since[q][n] <= wipes[n]
  BY Now DEF Places, QueryOK
<1> HIDE DEF here
<1> QED
  BY <1>3, <1>5, <1>6, <1>7, <1>8, Now, QueryStep

LEMMA EmbedFailsStep ==
  ASSUME IInv, NEW q \in Queries, EmbedFails(q)
  PROVE  IInv'
<1>1. /\ pc[q] = "embed" /\ pc' = [pc EXCEPT ![q] = "sparse"]
      /\ UNCHANGED <<corpus, wipes>> /\ UNCHANGED <<index, caches, leg, ids, found, since>>
  BY DEF EmbedFails, Goes
<1>2. /\ leg' = [leg EXCEPT ![q] = leg[q]] /\ ids' = [ids EXCEPT ![q] = ids[q]]
      /\ found' = [found EXCEPT ![q] = found[q]] /\ since' = [since EXCEPT ![q] = since[q]]
  BY <1>1, Now
<1>3. /\ "sparse" \in Places /\ Honest(FilterOf[q], found[q]) /\ FilterOf[q].papers = {}
      /\ \A n \in Names : since[q][n] <= wipes[n]
  BY <1>1, Now DEF Places, QueryOK
<1> QED
  BY <1>1, <1>2, <1>3, Now, QueryStep

LEMMA DenseStep ==
  ASSUME IInv, NEW q \in Queries, Dense(q)
  PROVE  IInv'
<1> DEFINE near == Among(DenseOrder, stored)
           hits == ReadAll(First(near, Width(q)))
           there == IF hits = <<>> THEN After(q) ELSE "lexical"
<1>1. near \in Seq(Chunks) /\ Range(near) \subseteq stored
  BY Orders, AmongIs
<1> HIDE DEF near
<1>2. First(near, Width(q)) \in Seq(Chunks) /\ Range(First(near, Width(q))) \subseteq stored
  BY <1>1, Constants, FirstIs
<1>3. hits \in Seq(Passages) /\ \A p \in Range(hits) : p.id \in stored /\ p = ReadNow(p.id)
  BY <1>2, ReadAllIs
<1>4. /\ pc[q] = "embed" /\ pc' = [pc EXCEPT ![q] = there] /\ leg' = [leg EXCEPT ![q] = hits]
      /\ found' = [found EXCEPT ![q] = Nothing]
      /\ UNCHANGED <<corpus, wipes>> /\ UNCHANGED <<index, caches, ids, since>>
  BY DEF Dense, Goes, Finds, near
<1> HIDE DEF hits
<1>5. there \in {"toolput", "prompt", "lexical"} /\ there \in Places
  BY AfterIs DEF Places
<1>6. Held(since[q], hits)
  BY <1>3, ReadsFresh
<1>7. Held(since[q], Nothing.passages)
  BY DEF Held, Nothing, Range
<1> HIDE DEF there
<1>8. ids' = [ids EXCEPT ![q] = ids[q]] /\ since' = [since EXCEPT ![q] = since[q]]
  BY <1>4, Now
<1>9. FilterOf[q].papers = {} /\ \A n \in Names : since[q][n] <= wipes[n]
  BY <1>4, Now DEF QueryOK
<1> QED
  BY <1>3, <1>4, <1>5, <1>6, <1>7, <1>8, <1>9, Now, NothingIs, QueryStep

\* A fusion is a list of chunks.
LEMMA FusedIs ==
  ASSUME NEW d \in Seq(Chunks), NEW s \in Seq(Chunks), NEW order \in Fused(d, s)
  PROVE  order \in Seq(Chunks)
<1> DEFINE all == Range(d) \cup Range(s)
<1>1. all \subseteq Chunks
  BY DEF Range
<1>2. IsFiniteSet(all) /\ Cardinality(all) \in Nat
  BY <1>1, Constants, FS_Subset, FS_CardinalityType
<1> HIDE DEF all
<1>3. order \in [1..Cardinality(all) -> all]
  BY DEF Fused, SetToSeqs, all
<1> QED
  BY <1>1, <1>2, <1>3

LEMMA LexicalIdsIs ==
  ASSUME IInv, NEW q \in Queries
  PROVE  LexicalIds(q) \in Seq(Chunks) /\ (Built = NoIndex \/ Built \subseteq Chunks)
<1>1. Built = NoIndex \/ Built \subseteq Chunks
  BY DEF IInv, Types, Built
<1>2. Among(LexicalOrder, Built) \in Seq(Chunks)
  BY Orders, AmongIs
<1>3. First(Among(LexicalOrder, Built), Width(q)) \in Seq(Chunks)
  BY <1>2, Constants, FirstIs
<1> QED
  BY <1>1, <1>3 DEF LexicalIds

LEMMA LexicalStep ==
  ASSUME IInv, NEW q \in Queries, Lexical(q)
  PROVE  IInv'
<1> DEFINE near == [i \in DOMAIN leg[q] |-> leg[q][i].id]
<1>1. leg[q] \in Seq(Passages)
  BY Now
<1>2. near \in Seq(Chunks)
  <2>1. \A i \in DOMAIN leg[q] : leg[q][i] \in Passages
    BY <1>1
  <2>3. \A p \in Passages : p.id \in Chunks
    BY DEF Passages
  <2>2. DOMAIN leg[q] = 1..Len(leg[q]) /\ Len(leg[q]) \in Nat
    BY <1>1
  <2> QED
    BY <2>1, <2>2, <2>3
<1>3. PICK order \in Fused(near, LexicalIds(q)) : ids' = [ids EXCEPT ![q] = order]
  BY DEF Lexical
<1> HIDE DEF near
<1>4. order \in Seq(Chunks) /\ (Built = NoIndex \/ Built \subseteq Chunks)
  BY <1>2, LexicalIdsIs, FusedIs
<1>5. /\ pc[q] = "lexical" /\ pc' = [pc EXCEPT ![q] = "fetch"] /\ index' = Built
      /\ UNCHANGED <<corpus, wipes>> /\ UNCHANGED <<caches, leg, found, since>>
  BY DEF Lexical, Goes
<1>6. /\ leg' = [leg EXCEPT ![q] = leg[q]] /\ found' = [found EXCEPT ![q] = found[q]]
      /\ since' = [since EXCEPT ![q] = since[q]]
  BY <1>5, Now
<1>7. /\ "fetch" \in Places /\ Honest(FilterOf[q], found[q]) /\ FilterOf[q].papers = {}
      /\ Held(since[q], leg[q]) /\ \A n \in Names : since[q][n] <= wipes[n]
  BY <1>5, Now DEF Places, QueryOK
<1> QED
  BY <1>3, <1>4, <1>5, <1>6, <1>7, Now, QueryStep

\* The dense leg's result or what of it was found again: tagged, reranked, and kept.
LEMMA RanksStep ==
  ASSUME IInv, NEW q \in Queries, NEW ps \in Seq(Passages), Held(since[q], ps), Ranks(q, ps)
  PROVE  IInv'
<1> DEFINE wide == First(ps, Width(q))
           kept == First(Tagged(q, wide), TopK)
           there == IF kept = <<>> THEN After(q) ELSE "store"
           r == [Nothing EXCEPT !.passages = Reranked(kept)]
<1>1. wide \in Seq(Passages) /\ Range(wide) \subseteq Range(ps)
  BY Constants, FirstIs
<1>2. /\ pc[q] = "fetch" /\ pc' = [pc EXCEPT ![q] = there] /\ found' = [found EXCEPT ![q] = r]
      /\ leg' = [leg EXCEPT ![q] = <<>>] /\ ids' = [ids EXCEPT ![q] = <<>>]
      /\ UNCHANGED <<corpus, wipes>> /\ UNCHANGED <<index, caches, since>>
  BY DEF Ranks, Goes, Finds
<1> HIDE DEF wide
<1>3. /\ Tagged(q, wide) \in Seq(Passages) /\ Range(Tagged(q, wide)) \subseteq Range(wide)
      /\ FilterOf[q].tags => \A p \in Range(Tagged(q, wide)) : p.tag
  BY <1>1, TaggedIs
<1>4. kept \in Seq(Passages) /\ Range(kept) \subseteq Range(Tagged(q, wide))
  BY <1>3, Constants, FirstIs
<1> HIDE DEF kept
<1>5. Reranked(kept) \in Seq(Passages) /\ Range(Reranked(kept)) \subseteq Range(kept)
  BY <1>4, RerankedIs
<1>6. /\ FilterOf[q].papers = {} /\ "store" \in Places /\ After(q) \in Places
      /\ \A n \in Names : since[q][n] <= wipes[n]
  BY <1>2, Now, AfterIs DEF QueryOK, Places
<1>7. InScope(FilterOf[q], Reranked(kept))
  BY <1>3, <1>4, <1>5, <1>6 DEF InScope
<1>8. r \in Results /\ r.passages = Reranked(kept) /\ r.dense /\ Honest(FilterOf[q], r)
  BY <1>5, <1>7, ResultIs
<1> HIDE DEF r
<1>9. Held(since[q], r.passages)
  BY <1>1, <1>3, <1>4, <1>5, <1>8 DEF Held
<1>10. since' = [since EXCEPT ![q] = since[q]]
  BY <1>2, Now
<1>12. PICK l \in Seq(Passages), i \in Seq(Chunks) : leg' = [leg EXCEPT ![q] = l] /\ ids' = [ids EXCEPT ![q] = i]
  <2>1. <<>> \in Seq(Passages) /\ <<>> \in Seq(Chunks)
    OBVIOUS
  <2> DEFINE nil == <<>>
  <2>2. leg' = [leg EXCEPT ![q] = nil] /\ ids' = [ids EXCEPT ![q] = nil]
    BY <1>2
  <2> HIDE DEF nil
  <2> QED
    BY <2>1, <2>2 DEF nil
<1>11. there \in Places /\ there \notin {"embed", "sparse", "lexical", "fetch"}
  BY <1>6, AfterIs
<1> HIDE DEF there
<1>13. there \notin {"lexical", "fetch"} /\ since[q] \in [Names -> Nat]
  BY <1>11, Now
<1>14. pc' = [pc EXCEPT ![q] = there] /\ found' = [found EXCEPT ![q] = r] /\ UNCHANGED <<corpus, wipes>>
  BY <1>2
<1>15. CachesOK(caches') /\ (index' = NoIndex \/ index' \subseteq Chunks)
  BY <1>2, Now
<1>16. \A n \in Names : since[q][n] <= wipes[n]
  BY <1>6
<1> QED
  BY <1>8, <1>9, <1>10, <1>11, <1>12, <1>13, <1>14, <1>15, <1>16, QueryStep

LEMMA FetchStep ==
  ASSUME IInv, NEW q \in Queries, Fetch(q)
  PROVE  IInv'
<1> DEFINE ours == IdsOf(leg[q])
           again == Among(ids[q], stored \cup ours)
           read(c) == IF c \in ours THEN Known(q)[c] ELSE ReadNow(c)
           ps == [i \in DOMAIN again |-> read(again[i])]
<1>1. leg[q] \in Seq(Passages) /\ ids[q] \in Seq(Chunks)
  BY Now
<1>2. again \in Seq(Chunks) /\ Range(again) \subseteq stored \cup ours
  BY <1>1, AmongIs
<1>3. pc[q] = "fetch" /\ Ranks(q, ps)
  BY DEF Fetch, Ranks, Goes
<1>4. Held(since[q], leg[q])
  BY <1>3, Now DEF QueryOK
<1>5. ASSUME NEW c \in ours
      PROVE  read(c) \in Range(leg[q]) /\ read(c) \in Passages
  <2>1. \E p \in Range(leg[q]) : p.id = c
    BY DEF IdsOf
  <2>2. (CHOOSE p \in Range(leg[q]) : p.id = c) \in Range(leg[q])
    BY <2>1
  <2>3. read(c) \in Range(leg[q])
    BY <2>2 DEF Known
  <2>4. Range(leg[q]) \subseteq Passages
    BY <1>1 DEF Range
  <2> QED
    BY <2>3, <2>4
<1>6. ASSUME NEW c \in Chunks, c \in stored, c \notin ours
      PROVE  read(c) \in Passages /\ read(c).id \in stored /\ read(c) = ReadNow(read(c).id)
  BY <1>6 DEF ReadNow, Passages
<1> HIDE DEF ours, again, read
<1>7. ASSUME NEW i \in DOMAIN again
      PROVE  /\ ps[i] \in Passages
             /\ ps[i] \in Range(leg[q]) \/ (ps[i].id \in stored /\ ps[i] = ReadNow(ps[i].id))
  <2>1. again[i] \in Chunks /\ again[i] \in stored \cup ours /\ ps[i] = read(again[i])
    BY <1>2 DEF Range
  <2> QED
    BY <2>1, <1>5, <1>6
<1>8. ps \in Seq(Passages)
  <2>1. DOMAIN again = 1..Len(again) /\ Len(again) \in Nat
    BY <1>2
  <2> QED
    BY <1>7, <2>1
<1>9. Held(since[q], ps)
  <2>1. ASSUME NEW p \in Range(ps)
        PROVE  p \in Range(leg[q]) \/ (p.id \in stored /\ p = ReadNow(p.id))
    BY <1>7 DEF Range
  <2> HIDE DEF ps
  <2> QED
    BY <1>4, <2>1 DEF Held, Fresh, Alive
<1> HIDE DEF ps
<1> QED
  BY <1>3, <1>8, <1>9, RanksStep

LEMMA FetchFailsStep ==
  ASSUME IInv, NEW q \in Queries, FetchFails(q)
  PROVE  IInv'
<1>1. Ranks(q, leg[q]) /\ pc[q] = "fetch"
  BY DEF FetchFails, Ranks, Goes
<1>2. leg[q] \in Seq(Passages) /\ Held(since[q], leg[q])
  BY <1>1, Now DEF QueryOK
<1> QED
  BY <1>1, <1>2, RanksStep

\* What a query puts in a cache is marked when the cache was invalidated since it looked.
LEMMA PutStep ==
  ASSUME IInv, NEW q \in Queries, NEW name \in Names, Put(name, q, found[q]),
         pc[q] \in {"store", "toolput"}, name = "retrieval" => found[q].dense
  PROVE  CachesOK(caches')
<1> DEFINE r == [found[q] EXCEPT !.raced = @ \/ since[q][name] # wipes[name]]
           e == [key |-> Key(q), result |-> r]
           c == Append(Room(Dropped(name, q), Hits(name, q) = {}), e)
<1>1. found[q] \in Results /\ Honest(FilterOf[q], found[q]) /\ (found[q].raced \/ Held(since[q], found[q].passages))
  BY Now DEF QueryOK
<1>2. /\ r \in Results /\ r.passages = found[q].passages /\ r.degraded = found[q].degraded
      /\ r.dense = found[q].dense
      /\ ~r.raced => ~found[q].raced /\ since[q][name] = wipes[name]
  BY <1>1 DEF Results
<1> HIDE DEF r
<1>3. Honest(FilterOf[q], r)
  BY <1>1, <1>2 DEF Honest
<1>4. r.raced \/ \A p \in Range(r.passages) : IF name = "retrieval" THEN Fresh(p) ELSE Alive(p)
  BY <1>1, <1>2 DEF Held, Names
<1>5. EntryOK(name, e)
  BY <1>2, <1>3, <1>4 DEF EntryOK, Key
<1>6. caches[name] \in Seq(Entries) /\ WellKept(caches[name]) /\ \A x \in Range(caches[name]) : EntryOK(name, x)
  BY DEF IInv, CachesOK
<1>7. c \in Seq(Entries) /\ WellKept(c) /\ Range(c) \subseteq Range(caches[name]) \cup {e}
  BY <1>2, <1>6, PutIs
<1>8. caches' = [caches EXCEPT ![name] = c]
  BY DEF Put, KeyOf, r
<1> HIDE DEF c, e
<1> QED
  BY <1>5, <1>6, <1>7, <1>8, CacheStep

LEMMA StoreStep ==
  ASSUME IInv, NEW q \in Queries, Store(q)
  PROVE  IInv'
<1>1. /\ pc[q] = "store" /\ pc' = [pc EXCEPT ![q] = After(q)] /\ Put("retrieval", q, found[q])
      /\ UNCHANGED <<corpus, wipes>> /\ UNCHANGED <<index, leg, ids, found, since>>
  BY DEF Store, Goes
<1>2. /\ leg' = [leg EXCEPT ![q] = leg[q]] /\ ids' = [ids EXCEPT ![q] = ids[q]]
      /\ found' = [found EXCEPT ![q] = found[q]] /\ since' = [since EXCEPT ![q] = since[q]]
  BY <1>1, Now
<1>3. /\ Honest(FilterOf[q], found[q]) /\ found[q].dense
      /\ found[q].raced \/ Held(since[q], found[q].passages)
      /\ \A n \in Names : since[q][n] <= wipes[n]
  BY <1>1, Now DEF QueryOK
<1>4. CachesOK(caches')
  BY <1>1, <1>3, PutStep DEF Names
<1>5. After(q) \in {"toolput", "prompt"} /\ After(q) \in Places
  BY AfterIs DEF Places
<1> QED
  BY <1>1, <1>2, <1>3, <1>4, <1>5, Now, QueryStep

\* A query that ends holds nothing.
LEMMA EndStep ==
  ASSUME IInv, NEW q \in Queries, NEW there \in {"over", "failed"}, pc' = [pc EXCEPT ![q] = there],
         Ends(q), CachesOK(caches'), UNCHANGED <<corpus, wipes>>, UNCHANGED <<index, leg, ids>>
  PROVE  IInv'
<1>1. /\ leg' = [leg EXCEPT ![q] = leg[q]] /\ ids' = [ids EXCEPT ![q] = ids[q]]
      /\ found' = [found EXCEPT ![q] = Nothing] /\ since' = [since EXCEPT ![q] = Unread]
  BY Now DEF Ends
<1>2. Unread \in [Names -> Nat] /\ \A n \in Names : Unread[n] <= wipes[n]
  BY Now DEF Unread, Names
<1>3. there \in Places
  BY DEF Places
<1> QED
  BY <1>1, <1>2, <1>3, NothingIs, Now, QueryStep

LEMMA StoreToolStep ==
  ASSUME IInv, NEW q \in Queries, StoreTool(q)
  PROVE  IInv'
<1>1. /\ pc[q] = "toolput" /\ pc' = [pc EXCEPT ![q] = "over"] /\ Put("tool", q, found[q]) /\ Ends(q)
      /\ UNCHANGED <<corpus, wipes>> /\ UNCHANGED <<index, leg, ids>>
  BY DEF StoreTool, Goes
<1>2. CachesOK(caches')
  BY <1>1, PutStep DEF Names
<1> QED
  BY <1>1, <1>2, EndStep

LEMMA RaisesStep ==
  ASSUME IInv, NEW q \in Queries, Raises(q)
  PROVE  IInv'
BY Now, EndStep DEF Raises

LEMMA AnswerStep ==
  ASSUME IInv, NEW q \in Queries, Answer(q)
  PROVE  IInv'
BY Now, EndStep DEF Answer, Goes

LEMMA SparseStep ==
  ASSUME IInv, NEW q \in Queries, Sparse(q)
  PROVE  IInv'
<1> DEFINE again == Among(LexicalIds(q), stored)
           hits == ReadAll(again)
           ps == First(Tagged(q, hits), TopK)
           r == [Nothing EXCEPT !.passages = ps, !.degraded = TRUE, !.dense = FALSE]
<1>1. LexicalIds(q) \in Seq(Chunks) /\ (Built = NoIndex \/ Built \subseteq Chunks)
  BY LexicalIdsIs
<1>2. again \in Seq(Chunks) /\ Range(again) \subseteq stored
  BY <1>1, AmongIs
<1>3. /\ pc[q] = "sparse" /\ pc' = [pc EXCEPT ![q] = After(q)] /\ index' = Built
      /\ found' = [found EXCEPT ![q] = r]
      /\ UNCHANGED <<corpus, wipes>> /\ UNCHANGED <<caches, leg, ids, since>>
  BY DEF Sparse, Goes, SparseTo, Finds
<1> HIDE DEF again
<1>4. hits \in Seq(Passages) /\ \A p \in Range(hits) : p.id \in stored /\ p = ReadNow(p.id)
  BY <1>2, ReadAllIs
<1> HIDE DEF hits
<1>5. /\ Tagged(q, hits) \in Seq(Passages) /\ Range(Tagged(q, hits)) \subseteq Range(hits)
      /\ FilterOf[q].tags => \A p \in Range(Tagged(q, hits)) : p.tag
  BY <1>4, TaggedIs
<1>6. ps \in Seq(Passages) /\ Range(ps) \subseteq Range(Tagged(q, hits))
  BY <1>5, Constants, FirstIs
<1> HIDE DEF ps
<1>7. FilterOf[q].papers = {} /\ \A n \in Names : since[q][n] <= wipes[n]
  BY <1>3, Now DEF QueryOK
<1>8. InScope(FilterOf[q], ps)
  BY <1>5, <1>6, <1>7 DEF InScope
<1>9. r \in Results /\ r.passages = ps /\ r.degraded /\ ~r.dense
  BY <1>6, NothingIs DEF Nothing, Results
<1> HIDE DEF r
<1>10. Honest(FilterOf[q], r)
  BY <1>8, <1>9 DEF Honest
<1>11. Held(since[q], r.passages)
  BY <1>4, <1>5, <1>6, <1>9, ReadsFresh
<1>12. After(q) \in {"toolput", "prompt"} /\ After(q) \in Places
  BY AfterIs DEF Places
<1>13. /\ leg' = [leg EXCEPT ![q] = leg[q]] /\ ids' = [ids EXCEPT ![q] = ids[q]]
       /\ since' = [since EXCEPT ![q] = since[q]]
       /\ leg[q] \in Seq(Passages) /\ ids[q] \in Seq(Chunks) /\ since[q] \in [Names -> Nat]
  BY <1>3, Now
<1>14. (index' = NoIndex \/ index' \subseteq Chunks) /\ CachesOK(caches')
  BY <1>1, <1>3, Now
<1>15. pc' = [pc EXCEPT ![q] = After(q)] /\ found' = [found EXCEPT ![q] = r] /\ UNCHANGED <<corpus, wipes>>
  BY <1>3
<1> QED
  BY <1>7, <1>9, <1>10, <1>11, <1>12, <1>13, <1>14, <1>15, QueryStep

\* An operation that leaves caches and queries alone keeps the invariant if it leaves what is
\* said of passages true.
LEMMA WriterStep ==
  ASSUME IInv, Types', UNCHANGED <<caches, wipes>>, UNCHANGED query,
         \A p : (Fresh(p) => Fresh(p)') /\ (Alive(p) => Alive(p)')
  PROVE  IInv'
<1>1. CachesOK(caches)'
  <2>1. \A name, e : EntryOK(name, e) => EntryOK(name, e)'
    BY DEF EntryOK, Honest, InScope
  <2> QED
    BY <2>1 DEF IInv, CachesOK
<1>2. ASSUME NEW q \in Queries
      PROVE  QueryOK(q)'
  <2>1. \A then, ps : Held(then, ps) => Held(then, ps)'
    BY DEF Held
  <2>2. /\ pc'[q] = pc[q] /\ leg'[q] = leg[q] /\ found'[q] = found[q] /\ since'[q] = since[q]
        /\ QueryOK(q)
    BY DEF IInv, query
  <2> QED
    BY <2>1, <2>2 DEF QueryOK, Honest, InScope
<1> QED
  BY <1>1, <1>2 DEF IInv

LEMMA DeleteStep ==
  ASSUME IInv, NEW p \in Papers, Delete(p)
  PROVE  IInv'
<1>1. /\ writer.at = "idle" /\ writes < MaxWrites /\ writes' = writes + 1
      /\ UNCHANGED <<index, caches, wipes, skipped>> /\ UNCHANGED query /\ tagged' = tagged
      /\ stored' = {c \in stored : PaperOf[c] # p} /\ writer' = [at |-> "index", paper |-> p]
  BY DEF Delete, Writes, Changes, RefreshFrom
<1>2. Types'
  <2>1. stored' \subseteq Chunks /\ writes' \in 0..MaxWrites
    BY <1>1, Constants DEF IInv, Types
  <2> QED
    BY <1>1, <2>1 DEF IInv, Types, query
<1>3. \A x : (Fresh(x) => Fresh(x)') /\ (Alive(x) => Alive(x)')
  BY <1>1 DEF Fresh, Alive, ReadNow
<1> QED
  BY <1>1, <1>2, <1>3, WriterStep

LEMMA IngestStep ==
  ASSUME IInv, NEW p \in Papers, Ingest(p)
  PROVE  IInv'
<1>1. /\ writer.at = "idle" /\ writes < MaxWrites /\ writes' = writes + 1
      /\ UNCHANGED <<index, caches, wipes, skipped>> /\ UNCHANGED query /\ tagged' = tagged
      /\ stored' = stored \cup {c \in Chunks : PaperOf[c] = p} /\ writer' = [at |-> "index", paper |-> p]
  BY DEF Ingest, Writes, Changes, RefreshFrom
<1>2. Types'
  <2>1. stored' \subseteq Chunks /\ writes' \in 0..MaxWrites
    BY <1>1, Constants DEF IInv, Types
  <2> QED
    BY <1>1, <2>1 DEF IInv, Types, query
<1>3. \A x : (Fresh(x) => Fresh(x)') /\ (Alive(x) => Alive(x)')
  BY <1>1 DEF Fresh, Alive, ReadNow
<1> QED
  BY <1>1, <1>2, <1>3, WriterStep

LEMMA PatchStep ==
  ASSUME IInv, NEW p \in Papers, Patch(p)
  PROVE  IInv'
<1>1. /\ writer.at = "idle" /\ writes < MaxWrites /\ writes' = writes + 1
      /\ UNCHANGED <<index, caches, wipes, skipped>> /\ UNCHANGED query /\ stored' = stored
      /\ tagged' = (IF p \in tagged THEN tagged \ {p} ELSE tagged \cup {p})
      /\ writer' = [at |-> "patched", paper |-> p]
  BY DEF Patch, Writes, Changes, Toggles
<1>2. Types'
  <2>1. tagged' \subseteq Papers /\ writes' \in 0..MaxWrites
    BY <1>1, Constants DEF IInv, Types
  <2> QED
    BY <1>1, <2>1 DEF IInv, Types, query
<1>3. ASSUME NEW x
      PROVE  (Fresh(x) => Fresh(x)') /\ (Alive(x) => Alive(x)')
  <2>1. Alive(x) => Alive(x)'
    BY <1>1 DEF Alive
  <2> DEFINE read(T) == [id |-> x.id, tag |-> PaperOf[x.id] \in T]
  <2>4. Fresh(x) => (x.id \in stored /\ x = read(tagged)) \/ PaperOf[x.id] \in skipped["retrieval"]
    BY <1>1 DEF Fresh, ReadNow
  <2>6. PaperOf[x.id] \in skipped["retrieval"] => Fresh(x)'
    BY <1>1 DEF Fresh
  <2>5. x.id \in stored /\ (x = read(tagged') \/ PaperOf[x.id] = p) => Fresh(x)'
    BY <1>1 DEF Fresh, ReadNow
  <2>2. CASE PaperOf[x.id] = p
    BY <2>1, <2>2, <2>4, <2>5, <2>6
  <2>3. CASE PaperOf[x.id] # p
    <3>1. (PaperOf[x.id] \in tagged') = (PaperOf[x.id] \in tagged)
      BY <1>1, <2>3
    <3>2. read(tagged') = read(tagged)
      BY <3>1
    <3> QED
      BY <2>1, <2>4, <2>5, <2>6, <3>2
  <2> QED
    BY <2>1, <2>2, <2>3
<1> QED
  BY <1>1, <1>2, <1>3, WriterStep

\* Whatever happens to a paper without a refresh, the other papers stay as they are.
LEMMA UnrefreshedStep ==
  ASSUME IInv, NEW p \in Papers, Unrefreshed(p)
  PROVE  IInv'
<1>1. /\ writes < MaxWrites /\ writes' = writes + 1
      /\ UNCHANGED <<index, caches, wipes, writer>> /\ UNCHANGED query
  BY DEF Unrefreshed, Changes
<1>2. /\ stored \subseteq Chunks /\ tagged \subseteq Papers /\ writes \in 0..MaxWrites
      /\ skipped \in [Names -> SUBSET Papers] /\ skipped["retrieval"] \subseteq skipped["tool"]
  BY DEF IInv, Types
<1>3. /\ stored' \subseteq Chunks /\ tagged' \subseteq Papers
      /\ \A c : PaperOf[c] # p => (c \in stored' <=> c \in stored)
      /\ \A r : r # p => (r \in tagged' <=> r \in tagged)
  <2>1. CASE Toggles(p)
    BY <1>2, <2>1 DEF Toggles
  <2>2. CASE ~Toggles(p)
    <3>1. /\ UNCHANGED tagged
          /\ \E left \in SUBSET {c \in Chunks : PaperOf[c] = p} :
               stored' = {c \in stored : PaperOf[c] # p} \cup left
      BY <2>2 DEF Unrefreshed
    <3>2. PICK left \in SUBSET {c \in Chunks : PaperOf[c] = p} :
            stored' = {c \in stored : PaperOf[c] # p} \cup left
      BY <3>1
    <3> QED
      BY <1>2, <3>1, <3>2
  <2> QED
    BY <2>1, <2>2
<1>4. \A name \in Names : skipped'[name] = skipped[name] \cup {p}
  BY <1>2 DEF Unrefreshed, Names
<1>5. skipped' \in [Names -> SUBSET Papers] /\ skipped'["retrieval"] \subseteq skipped'["tool"]
  <2>1. skipped' = [name \in Names |-> skipped[name] \cup {p}]
    BY <1>2 DEF Unrefreshed
  <2> QED
    BY <1>2, <2>1 DEF Names
<1>6. writes' \in 0..MaxWrites
  BY <1>1, <1>2, Constants
<1>7. Types'
  BY <1>1, <1>3, <1>5, <1>6 DEF IInv, Types, query
<1>8. ASSUME NEW x
      PROVE  (Fresh(x) => Fresh(x)') /\ (Alive(x) => Alive(x)')
  <2>1. CASE PaperOf[x.id] = p
    BY <1>4, <2>1 DEF Fresh, Alive, Names
  <2>2. CASE PaperOf[x.id] # p
    <3>1. (x.id \in stored' <=> x.id \in stored) /\ (PaperOf[x.id] \in tagged' <=> PaperOf[x.id] \in tagged)
      BY <1>3, <2>2
    <3>2. (PaperOf[x.id] \in tagged') = (PaperOf[x.id] \in tagged)
      BY <3>1
    <3>3. \A name \in Names : PaperOf[x.id] \in skipped[name] => PaperOf[x.id] \in skipped'[name]
      BY <1>4
    <3>4. Alive(x) => Alive(x)'
      BY <1>1, <3>1, <3>3 DEF Alive, Names
    <3>5. Fresh(x) => Fresh(x)'
      BY <1>1, <3>1, <3>2, <3>3 DEF Fresh, ReadNow, Names
    <3> QED
      BY <3>4, <3>5
  <2> QED
    BY <2>1, <2>2
<1> QED
  BY <1>1, <1>7, <1>8, WriterStep

LEMMA RefreshIndexStep ==
  ASSUME IInv, RefreshIndex
  PROVE  IInv'
<1>1. /\ writer.at = "index" /\ index' = NoIndex /\ writer' = [writer EXCEPT !.at = "retrieval"]
      /\ UNCHANGED <<stored, tagged, skipped, writes>> /\ UNCHANGED <<caches, wipes>> /\ UNCHANGED query
  BY DEF RefreshIndex
<1>2. writer'.at = "retrieval" /\ writer'.paper = writer.paper
  BY <1>1 DEF IInv, Types
<1>3. Types'
  BY <1>1 DEF IInv, Types, query
<1>4. \A x : (Fresh(x) => Fresh(x)') /\ (Alive(x) => Alive(x)')
  BY <1>1, <1>2 DEF Fresh, Alive, ReadNow
<1> QED
  BY <1>1, <1>3, <1>4, WriterStep

\* A wipe empties its cache, and no query that looked in it before may keep what it read.
LEMMA WipeStep ==
  ASSUME IInv, NEW name \in Names, NEW here, NEW there, Wipe(name, here, there),
         <<name, here, there>> \in {<<"retrieval", "retrieval", "tool">>, <<"retrieval", "patched", "idle">>,
                                    <<"tool", "tool", "idle">>}
  PROVE  IInv'
<1>1. /\ writer.at = here /\ caches' = [caches EXCEPT ![name] = <<>>]
      /\ wipes' = [wipes EXCEPT ![name] = @ + 1]
      /\ writer' = IF there = "idle" THEN [at |-> "idle", paper |-> NoPaper] ELSE [writer EXCEPT !.at = there]
      /\ skipped' = [skipped EXCEPT ![name] = Feeds(name)]
      /\ UNCHANGED <<stored, tagged, writes, index>> /\ UNCHANGED query
  BY DEF Wipe, Clears
<1>2. /\ wipes \in [Names -> Nat] /\ wipes' \in [Names -> Nat]
      /\ writer \in [at : {"idle", "index", "retrieval", "tool", "patched"}, paper : Papers \cup {NoPaper}]
      /\ skipped \in [Names -> SUBSET Papers] /\ skipped["retrieval"] \subseteq skipped["tool"]
  BY <1>1 DEF IInv, Types
<1>3. writer'.at = there /\ (there = "tool" => writer'.paper = writer.paper)
  BY <1>1, <1>2
<1>4. writer' \in [at : {"idle", "index", "retrieval", "tool", "patched"}, paper : Papers \cup {NoPaper}]
  BY <1>1, <1>2
<1>10. /\ skipped' \in [Names -> SUBSET Papers] /\ skipped'["retrieval"] \subseteq skipped'["tool"]
       /\ \A n \in Names : n # name => skipped'[n] = skipped[n]
  BY <1>1, <1>2 DEF Feeds, Names
<1>5. Types'
  BY <1>1, <1>2, <1>4, <1>10 DEF IInv, Types, query
<1>6. \A x : /\ name # "retrieval" => (Fresh(x) => Fresh(x)')
             /\ name # "tool" => (Alive(x) => Alive(x)')
  BY <1>1, <1>3, <1>10 DEF Fresh, Alive, ReadNow, Names
<1>7. ASSUME NEW n \in Names
      PROVE  /\ caches'[n] \in Seq(Entries) /\ WellKept(caches'[n])
             /\ \A e \in Range(caches'[n]) : EntryOK(n, e)'
  <2>1. caches \in [Names -> Seq(Entries)]
    BY DEF IInv, CachesOK
  <2>2. CASE n = name
    <3>1. caches'[n] = <<>>
      BY <1>1, <2>1, <2>2
    <3>2. <<>> \in Seq(Entries) /\ Len(<<>>) = 0 /\ DOMAIN <<>> = {} /\ Range(<<>>) = {}
      BY DEF Range
    <3> QED
      BY <3>1, <3>2, Constants DEF WellKept
  <2>3. CASE n # name
    <3>1. caches'[n] = caches[n]
      BY <1>1, <2>1, <2>3
    <3>2. WellKept(caches[n]) /\ \A e \in Range(caches[n]) : EntryOK(n, e)
      BY DEF IInv, CachesOK
    <3>3. \A e : EntryOK(n, e) => EntryOK(n, e)'
      BY <1>6, <2>3 DEF EntryOK, Honest, InScope, Names
    <3> QED
      BY <2>1, <3>1, <3>2, <3>3
  <2> QED
    BY <2>2, <2>3
<1>8. CachesOK(caches)'
  <2>1. caches' \in [Names -> Seq(Entries)]
    BY <1>1, <1>7 DEF IInv, CachesOK
  <2> QED
    BY <1>7, <2>1 DEF CachesOK, WellKept
<1>9. ASSUME NEW q \in Queries
      PROVE  QueryOK(q)'
  <2>1. /\ pc'[q] = pc[q] /\ leg'[q] = leg[q] /\ found'[q] = found[q] /\ since'[q] = since[q]
        /\ QueryOK(q) /\ since[q] \in [Names -> Nat]
    BY <1>1 DEF IInv, Types, query
  <2>2. \A n \in Names : wipes[n] \in Nat /\ wipes'[n] = (IF n = name THEN wipes[n] + 1 ELSE wipes[n])
    BY <1>1, <1>2
  <2>3. /\ \A n \in Names : since[q][n] <= wipes'[n]
        /\ since[q][name] # wipes'[name]
    BY <2>1, <2>2 DEF QueryOK
  <2>4. ASSUME NEW ps, Held(since[q], ps)
        PROVE  Held(since[q], ps)'
    <3>1. ASSUME NEW p \in Range(ps)
          PROVE  /\ since[q]["retrieval"] = wipes'["retrieval"] => Fresh(p)'
                 /\ since[q]["tool"] = wipes'["tool"] => Alive(p)'
      <4>1. CASE name = "retrieval"
        BY <1>6, <2>2, <2>3, <2>4, <4>1 DEF Held, Names
      <4>2. CASE name = "tool"
        BY <1>6, <2>2, <2>3, <2>4, <4>2 DEF Held, Names
      <4> QED
        BY <4>1, <4>2 DEF Names
    <3> QED
      BY <2>1, <3>1 DEF Held
  <2> QED
    BY <2>1, <2>3, <2>4 DEF QueryOK, Honest, InScope
<1> QED
  BY <1>5, <1>8, <1>9 DEF IInv

\* An entry that is too old goes.
LEMMA ExpireStep ==
  ASSUME IInv, NEW name \in Names, Expire(name)
  PROVE  IInv'
<1>1. PICK i \in DOMAIN caches[name] :
        caches' = [caches EXCEPT ![name] = Picked(caches[name], DOMAIN caches[name] \ {i})]
  BY DEF Expire, IInv, CachesOK
<1>2. UNCHANGED <<corpus, index, wipes>> /\ UNCHANGED query
  BY DEF Expire
<1> DEFINE at == DOMAIN caches[name] \ {i}
           c == Picked(caches[name], at)
<1>3. caches[name] \in Seq(Entries) /\ WellKept(caches[name]) /\ \A x \in Range(caches[name]) : EntryOK(name, x)
  BY DEF IInv, CachesOK
<1>4. at \in SUBSET DOMAIN caches[name] /\ caches' = [caches EXCEPT ![name] = c]
  BY <1>1
<1> HIDE DEF at
<1>5. c \in Seq(Entries) /\ WellKept(c) /\ Range(c) \subseteq Range(caches[name])
  BY <1>3, <1>4, KeepsSome
<1> HIDE DEF c
<1>6. CachesOK(caches')
  BY <1>3, <1>4, <1>5, CacheStep
<1>7. CachesOK(caches)'
  BY <1>2, <1>6, SameCorpus DEF CachesOK
<1>8. ASSUME NEW q \in Queries
      PROVE  QueryOK(q)'
  <2>1. /\ pc'[q] = pc[q] /\ leg'[q] = leg[q] /\ found'[q] = found[q] /\ since'[q] = since[q]
        /\ QueryOK(q)
    BY <1>2 DEF IInv, query
  <2> QED
    BY <1>2, <2>1, SameCorpus DEF QueryOK, Honest, InScope
<1>9. Types'
  BY <1>2 DEF IInv, Types, corpus, query
<1> QED
  BY <1>7, <1>8, <1>9 DEF IInv

LEMMA NextInv == IInv /\ [Next]_vars => IInv'
<1> SUFFICES ASSUME IInv, [Next]_vars
             PROVE  IInv'
  OBVIOUS
<1>1. ASSUME NEW q \in Queries,
             \/ LookTool(q) \/ Look(q) \/ Scoped(q) \/ EmbedFails(q) \/ Dense(q) \/ Lexical(q)
             \/ Fetch(q) \/ FetchFails(q) \/ Store(q) \/ Sparse(q) \/ Raises(q) \/ StoreTool(q)
             \/ Answer(q)
      PROVE  IInv'
  BY <1>1, LookToolStep, LookStep, ScopedStep, EmbedFailsStep, DenseStep, LexicalStep, FetchStep,
     FetchFailsStep, StoreStep, SparseStep, RaisesStep, StoreToolStep, AnswerStep
<1>2. ASSUME NEW p \in Papers, Delete(p) \/ Ingest(p) \/ Patch(p) \/ Unrefreshed(p)
      PROVE  IInv'
  BY <1>2, DeleteStep, IngestStep, PatchStep, UnrefreshedStep
<1>3. CASE RefreshIndex
  BY <1>3, RefreshIndexStep
<1>4. CASE WipeRetrieval
  BY <1>4, WipeStep DEF WipeRetrieval, Names
<1>5. CASE WipeTool
  BY <1>5, WipeStep DEF WipeTool, Names
<1>6. ASSUME NEW name \in {"retrieval", "tool"}, Expire(name)
      PROVE  IInv'
  BY <1>6, ExpireStep DEF Names
<1>7. CASE UNCHANGED vars
  <2>1. UNCHANGED <<corpus, index, caches, wipes>> /\ UNCHANGED query
    BY <1>7 DEF vars
  <2>2. Types'
    BY <2>1 DEF IInv, Types, corpus, query
  <2>3. \A x : (Fresh(x) => Fresh(x)') /\ (Alive(x) => Alive(x)')
    BY <2>1, SameCorpus
  <2> QED
    BY <2>1, <2>2, <2>3, WriterStep
<1> QED
  BY <1>1, <1>2, <1>3, <1>4, <1>5, <1>6, <1>7 DEF Next

\* The inductive invariant holds in every state.
THEOREM IInvAlways == Spec => []IInv
BY InitInv, NextInv, PTL DEF Spec

-----------------------------------------------------------------------------
(* The invariants. *)

\* Every variable has its type, and a cache has its size and one entry per key: nothing a
\* hit, an expiry or a put does to a cache leaves two entries for one question (TTLCache).
THEOREM TypeSafety == Spec => []TypeOK
<1>1. IInv => TypeOK
  <2> SUFFICES ASSUME IInv PROVE TypeOK
    OBVIOUS
  <2>1. ASSUME NEW name \in {"retrieval", "tool"}
        PROVE  /\ Len(caches[name]) <= CacheSize
               /\ \A i, j \in DOMAIN caches[name] : caches[name][i].key = caches[name][j].key => i = j
               /\ \A e \in Range(caches[name]) : e.result \in Results
               /\ wipes[name] \in Nat
    <3>1. caches[name] \in Seq(Entries) /\ WellKept(caches[name]) /\ wipes[name] \in Nat
      BY DEF IInv, CachesOK, Types, Names
    <3>2. \A e \in Range(caches[name]) : e \in Entries
      BY <3>1 DEF Range
    <3> QED
      BY <3>1, <3>2 DEF WellKept, Entries
  <2> QED
    BY <2>1 DEF IInv, Types, Places, Names, TypeOK
<1> QED
  BY <1>1, IInvAlways, PTL

\* Whoever filled the cache that answers, and whichever leg found them, the passages of a
\* result are of the papers and the tag its own query asked for (retrieve_context, _run_tool).
THEOREM Scope == Spec => []ScopeKept
<1>1. IInv => ScopeKept
  BY DEF IInv, QueryOK, Honest, InScope, ScopeKept
<1> QED
  BY <1>1, IInvAlways, PTL

\* A result found without the dense leg says so until the query is over, and the retrieval
\* cache never has one (_sparse_only_retrieval returns before the put).
THEOREM Degraded == Spec => []DegradedTold
<1>1. IInv => DegradedTold
  <2> SUFFICES ASSUME IInv PROVE DegradedTold
    OBVIOUS
  <2>1. \A q \in Queries : found[q].degraded = ~found[q].dense
    BY DEF IInv, QueryOK, Honest
  <2>2. \A e \in Range(caches["retrieval"]) : e.result.dense
    BY DEF IInv, CachesOK, EntryOK, Names
  <2> QED
    BY <2>1, <2>2 DEF DegradedTold
<1> QED
  BY <1>1, IInvAlways, PTL

\* However reads, puts and refreshes interleave, a cache has a passage the collection no
\* longer has (or has otherwise) only while the refresh that drops it is under way, when its
\* paper was changed by an operation that raised before its refresh or ran elsewhere, or
\* when it was put by a query that was reading across an invalidation (TTLCache.put).
THEOREM Freshness == Spec => []FreshUnlessRaced
<1>1. IInv => FreshUnlessRaced
  <2> SUFFICES ASSUME IInv PROVE FreshUnlessRaced
    OBVIOUS
  <2>1. ASSUME NEW e \in Range(caches["retrieval"])
        PROVE  e.result.raced \/ Current(e, writer.at \in {"index", "retrieval", "patched"})
    <3>1. EntryOK("retrieval", e)
      BY DEF IInv, CachesOK, Names
    <3> QED
      BY <3>1 DEF EntryOK, Fresh, Current
  <2>2. ASSUME NEW e \in Range(caches["tool"])
        PROVE  e.result.raced \/ IdsOf(e.result.passages) \subseteq
                 stored \cup {c \in Chunks : \/ PaperOf[c] \in skipped["tool"]
                                          \/ /\ writer.at \in {"index", "retrieval", "tool"}
                                             /\ PaperOf[c] = writer.paper}
    <3>1. EntryOK("tool", e) /\ caches["tool"] \in Seq(Entries)
      BY DEF IInv, CachesOK, Names
    <3>2. e \in Entries
      BY <3>1 DEF Range
    <3>3. e.result.passages \in Seq(Passages)
      BY <3>2 DEF Entries, Results
    <3>4. \A p \in Range(e.result.passages) : p \in Passages
      BY <3>3 DEF Range
    <3>5. \A p \in Range(e.result.passages) : p.id \in Chunks
      BY <3>4 DEF Passages
    <3> QED
      BY <3>1, <3>5 DEF EntryOK, Alive, IdsOf
  <2> QED
    BY <2>1, <2>2 DEF FreshUnlessRaced
<1> QED
  BY <1>1, IInvAlways, PTL

\* The titles of the passages, numbered: a list of titles.
LEMMA NumberedIs ==
  ASSUME NEW ps \in Seq(Passages)
  PROVE  Numbered(ps) \in Seq(Titles)
<1> DEFINE of == [i \in DOMAIN ps |-> Title(ps[i])]
           at == {i \in DOMAIN ps : \A j \in 1..i-1 : Title(ps[j]) # Title(ps[i])}
<1>1. \A i \in DOMAIN ps : ps[i] \in Passages
  OBVIOUS
<1>2. \A p \in Passages : Title(p) \in Titles
  <2>1. \A p \in Passages : PaperOf[p.id] \in DOMAIN TitleOf
    BY Constants, RetrievalAssumption DEF Passages
  <2> QED
    BY <2>1 DEF Title, Titles, Range
<1>3. of \in Seq(Titles) /\ DOMAIN of = DOMAIN ps
  <2>1. DOMAIN ps = 1..Len(ps) /\ Len(ps) \in Nat
    OBVIOUS
  <2> QED
    BY <1>1, <1>2, <2>1
<1>4. at \in SUBSET DOMAIN of
  BY <1>3
<1>5. Numbered(ps) = Picked(of, at)
  BY DEF Numbered
<1> HIDE DEF of, at
<1> QED
  BY <1>3, <1>4, <1>5, Picks

\* What extract_citations keeps of the numbers meant: exactly those that stand for a title
\* of the passages shown.
LEMMA KeptIs ==
  ASSUME NEW ps \in Seq(Passages), NEW n \in Nat, NEW meant
  PROVE  Range(Kept(ps, n, meant)) = meant \cap DOMAIN Numbered(First(ps, n))
<1> DEFINE numbers == DOMAIN Numbered(First(ps, n))
           same == [i \in numbers |-> i]
<1>1. Numbered(First(ps, n)) \in Seq(Titles)
  BY FirstIs, NumberedIs
<1>2. PICK m \in Nat : numbers = 1..m
  BY <1>1
<1> HIDE DEF numbers
<1>3. same \in Seq(Nat) /\ DOMAIN same = numbers
  BY <1>2
<1>4. numbers \cap meant \in SUBSET DOMAIN same
  BY <1>3
<1>5. Range(Picked(same, numbers \cap meant)) = {same[i] : i \in numbers \cap meant}
  BY <1>3, <1>4, PicksFrom
<1>6. {same[i] : i \in numbers \cap meant} = meant \cap numbers
  OBVIOUS
<1> QED
  BY <1>5, <1>6 DEF Kept, Visible, numbers

\* Whatever numbers the model writes, invented ones included, an answer's marks are 1..M for
\* its M citations and these are the titles meant that were shown (compact_citations).
THEOREM Cited == Spec => []CitedWasShown
<1>1. ASSUME NEW ps \in Seq(Passages), NEW n \in Nat, NEW meant
      PROVE  LET reply == Reply(ps, n, meant) IN
             /\ reply.marks = DOMAIN reply.cites
             /\ \A k \in DOMAIN reply.cites : \E m \in reply.meant \cap DOMAIN reply.shown :
                  reply.cites[k] = reply.shown[m]
             /\ \A m \in reply.meant \cap DOMAIN reply.shown : reply.shown[m] \in Range(reply.cites)
  <2> DEFINE kept == Kept(ps, n, meant)
             shown == Numbered(First(ps, n))
             cites == [i \in DOMAIN kept |-> shown[kept[i]]]
             reply == Reply(ps, n, meant)
  <2>1. /\ reply.marks = DOMAIN kept /\ reply.cites = cites /\ reply.meant = meant
        /\ reply.shown = shown
    BY DEF Reply, Compacted, Cites, Visible
  <2>2. Range(kept) = meant \cap DOMAIN shown
    BY KeptIs
  <2> HIDE DEF kept, shown, reply
  <2>3. \A k \in DOMAIN kept : kept[k] \in meant \cap DOMAIN shown
    BY <2>2 DEF Range
  <2>4. ASSUME NEW m \in meant \cap DOMAIN shown
        PROVE  shown[m] \in Range(cites)
    <3>1. PICK k \in DOMAIN kept : kept[k] = m
      BY <2>2 DEF Range
    <3>2. cites[k] = shown[m] /\ k \in DOMAIN cites
      BY <3>1
    <3> QED
      BY <3>2 DEF Range
  <2> QED
    BY <2>1, <2>3, <2>4 DEF reply
<1>2. IInv => CitedWasShown
  <2> SUFFICES ASSUME IInv PROVE CitedWasShown
    OBVIOUS
  <2>1. \A q \in Queries : found[q].passages \in Seq(Passages)
    BY Now DEF Results
  <2>2. ASSUME NEW ps \in Seq(Passages), NEW reply \in Replies(ps)
        PROVE  \E n \in Nat : \E meant : reply = Reply(ps, n, meant)
    <3>1. PICK n \in 1..Len(ps), meant \in SUBSET (1..Cardinality(Titles) + 1) : reply = Reply(ps, n, meant)
      BY DEF Replies
    <3>2. n \in Nat
      OBVIOUS
    <3> QED
      BY <3>1, <3>2
  <2>3. ASSUME NEW q \in Queries, NEW reply \in Replies(found[q].passages)
        PROVE  /\ reply.marks = DOMAIN reply.cites
               /\ \A k \in DOMAIN reply.cites : \E m \in reply.meant \cap DOMAIN reply.shown :
                    reply.cites[k] = reply.shown[m]
               /\ \A m \in reply.meant \cap DOMAIN reply.shown : reply.shown[m] \in Range(reply.cites)
    <3> DEFINE ps == found[q].passages
    <3>1. ps \in Seq(Passages)
      BY <2>1
    <3>2. PICK n \in Nat : \E meant : reply = Reply(ps, n, meant)
      BY <2>2, <3>1
    <3>3. PICK meant : reply = Reply(ps, n, meant)
      BY <3>2
    <3> HIDE DEF ps
    <3> QED
      BY <1>1, <3>1, <3>3
  <2> QED
    BY <2>3 DEF CitedWasShown
<1> QED
  BY <1>2, IInvAlways, PTL
=============================================================================
