--------------------------- MODULE Bm25Index_proofs ---------------------------
(***************************************************************************)
(* For any chunk ids, texts, writers and searchers: the types,             *)
(* CountersExact, SearchSound, SearchExact, and that the index implements  *)
(* the dictionary Bm25Dict.                                                *)
(*                                                                         *)
(* The index: the counters are what a count would give and the postings    *)
(* are the slots that hold the term (IndexOK), at each stage of compaction *)
(* as far as it has got: from CompactIds on slots are renumbered and none  *)
(* counts as tombstoned, and until CompactPostings the lists keep the old  *)
(* numbers, of which Renumber makes the new ones.  This needs that the     *)
(* slots that live are numbered without a gap (Numbering).                 *)
(*                                                                         *)
(* The searches: one that no compaction tears is at the current lists, and *)
(* one that nobody disturbs has scored exactly the live slots that hold a  *)
(* term it has been through (Scores).  SearchOK says both.                 *)
(*                                                                         *)
(* The dictionary: a tombstone drops one chunk (TombstoneDrops), an entry  *)
(* puts one (AppendPuts), and every other step leaves Content as it is.    *)
(***************************************************************************)
EXTENDS Bm25Index, FiniteSetTheorems, WellFoundedInduction, TLAPS

-----------------------------------------------------------------------------
(* The inductive invariant. *)

Holding == {"add", "remove", "postings", "tombstones"}   \* where a writer has the lock
Moving == \E w \in Writers : writer[w].pc = "postings"

Records == [pc : {"idle", "terms", "postings", "rank", "done", "raised"}, query : SUBSET Terms,
            todo : SUBSET Terms, table : Nat, term : SUBSET Terms, at : Nat,
            scored : SUBSET Nat, found : SUBSET Docs, quiet : BOOLEAN, torn : BOOLEAN]

Tasks == [pc : {"idle", "ratio", "compact"} \cup Holding, todo : (SUBSET (Docs \X Texts)) \cup (SUBSET Docs)]

Types ==
  /\ ids \in Seq(Docs) /\ texts \in Seq(Texts) /\ Len(ids) = Len(texts)
  /\ tables \in Seq([Terms -> SUBSET Nat]) /\ tables # <<>>
  /\ deleted \in SUBSET Nat
  /\ df \in [Terms -> Nat] /\ totalLen \in Nat
  /\ lock \in Writers \cup {NoWriter}
  /\ writer \in [Writers -> Tasks]
  /\ search \in [Searchers -> Records]
  /\ ops \in 0..MaxOps /\ searches \in 0..MaxSearches

Locking ==
  \A w \in Writers :
    /\ writer[w].pc \in Holding <=> lock = w
    /\ writer[w].pc = "add" => writer[w].todo \subseteq Docs \X Texts

\* The parts of the index fit together, at each stage of compaction as far as it is done.
Unique == \A i, k \in Standing : ids[i] = ids[k] => i = k
Tombs == ~Renumbered => deleted \subseteq Slots
Summed == ~Renumbered => totalLen = SumOfLens(Live)
Having(t) == {i \in Slots : t \in texts[i]}
Listed ==
  \A t \in Terms : IF Moving THEN Renumber(Postings[t] \ deleted) = Having(t) ELSE Postings[t] = Having(t)
Counted == ~Moving => \A t \in Terms : df[t] = Cardinality({i \in Standing : t \in texts[i]})
IndexOK == Unique /\ Tombs /\ Summed /\ Listed /\ Counted

\* What a search that nobody disturbs has scored: the live slots that hold a term it has
\* been through, and those up to here that hold the term it is at.
Scores(r) ==
  r.scored = {i \in Live :
                \/ texts[i] \cap (r.query \ (r.todo \cup (IF r.pc = "postings" THEN r.term ELSE {}))) # {}
                \/ r.pc = "postings" /\ texts[i] \cap r.term # {} /\ i <= r.at}

SearchOK(r) ==
  /\ r.term \subseteq r.query /\ r.todo \subseteq r.query /\ r.table \in 1..Len(tables)
  /\ r.quiet => \A w \in Writers : writer[w].pc \notin {"add", "remove"}
  /\ ~r.torn =>
       /\ ~Renumbered
       /\ \A i \in r.scored : i \in Slots /\ texts[i] \cap r.query # {}
       /\ r.pc = "postings" => r.table = Len(tables)
       /\ r.quiet /\ r.pc \in {"terms", "postings", "rank"} =>
            /\ Scores(r)
            /\ r.pc = "rank" => r.todo = {} \/ Live = {}
            /\ r.pc = "postings" => r.todo \cap r.term = {}

IInv == Types /\ Locking /\ IndexOK /\ \A s \in Searchers : SearchOK(search[s])

-----------------------------------------------------------------------------
(* Sets of slots. *)

LEMMA NatOrder == IsWellFoundedOn({ss \in Nat \X Nat : ss[1] < ss[2]}, Nat)
BY NatLessThanWellFounded, Zenon DEF OpToRel

\* A set of numbers has a least one.
LEMMA Least ==
  ASSUME NEW S \in SUBSET Nat, S # {}
  PROVE  \E m \in S : \A n \in S : m <= n
<1> DEFINE R == {ss \in Nat \X Nat : ss[1] < ss[2]}
<1>1. PICK m \in S : \A n \in S : ~(<<n, m>> \in R)
  <2>1. IsWellFoundedOn(R, Nat)
    BY NatOrder
  <2> HIDE DEF R
  <2> QED
    BY <2>1, WFMin, Zenon
<1>2. \A n \in S : ~(n < m)
  BY <1>1
<1> HIDE DEF R
<1> QED
  BY <1>2

\* The number of a slot among these.
Upto(at, i) == {j \in at : j <= i}
Number(at, i) == Cardinality(Upto(at, i))

\* Positions are numbered from 1 on without a gap, in their order.
LEMMA Numbering ==
  ASSUME NEW at, IsFiniteSet(at), at \subseteq Nat
  PROVE  /\ Cardinality(at) \in Nat
         /\ \A i \in at : Number(at, i) \in 1..Cardinality(at)
         /\ \A i, j \in at : i < j => Number(at, i) < Number(at, j)
         /\ \A k \in 1..Cardinality(at) : \E i \in at : Number(at, i) = k
<1>1. Cardinality(at) \in Nat
  BY FS_CardinalityType
<1>2. ASSUME NEW i \in at
      PROVE  IsFiniteSet(Upto(at, i)) /\ Number(at, i) \in 1..Cardinality(at)
  <2>1. Upto(at, i) \subseteq at /\ i \in Upto(at, i)
    BY DEF Upto
  <2>2. /\ IsFiniteSet(Upto(at, i)) /\ Cardinality(Upto(at, i)) <= Cardinality(at)
        /\ Cardinality(Upto(at, i)) \in Nat
    BY <2>1, FS_Subset, FS_CardinalityType
  <2>3. Cardinality(Upto(at, i)) # 0
    BY <2>1, <2>2, FS_EmptySet
  <2> QED
    BY <1>1, <2>2, <2>3 DEF Number
<1>3. ASSUME NEW i \in at, NEW j \in at, i < j
      PROVE  Number(at, i) < Number(at, j)
  <2>1. Upto(at, i) \subseteq Upto(at, j) /\ j \in Upto(at, j) /\ j \notin Upto(at, i)
    <3>1. i \in Nat /\ j \in Nat /\ ~(j <= i)
      BY <1>3
    <3>2. ASSUME NEW k \in at, k <= i PROVE k <= j
      <4>1. k \in Nat
        OBVIOUS
      <4> QED
        BY <1>3, <3>1, <3>2, <4>1
    <3>3. j \in Upto(at, j) /\ j \notin Upto(at, i)
      BY <3>1 DEF Upto
    <3>4. \A k \in Upto(at, i) : k \in at /\ k <= i
      BY DEF Upto
    <3>5. \A k \in Upto(at, i) : k \in Upto(at, j)
      BY <3>2, <3>4 DEF Upto
    <3> QED
      BY <3>3, <3>5
  <2>2. Number(at, i) <= Number(at, j) /\ Number(at, i) # Number(at, j)
    BY <1>2, <2>1, FS_Subset DEF Number
  <2> QED
    BY <1>2, <2>2
<1>4. ASSUME NEW i \in at, NEW j \in at, Number(at, i) = Number(at, j)
      PROVE  i = j
  <2>1. Number(at, i) \in Nat
    BY <1>2
  <2>2. ~(i < j) /\ ~(j < i)
    BY <1>3, <1>4, <2>1
  <2> QED
    BY <2>2
<1> DEFINE f == [i \in at |-> Number(at, i)]
           n == Cardinality(at)
<1>5. f \in Injection(at, 1..n)
  BY <1>2, <1>4 DEF Injection, IsInjective
<1>6. f \in Surjection(at, 1..n)
  <2>1. IsFiniteSet(1..n) /\ Cardinality(1..n) = n
    BY <1>1, FS_Interval
  <2> HIDE DEF f, n
  <2> QED
    BY <1>5, <2>1, FS_Injection DEF n
<1> QED
  BY <1>1, <1>2, <1>3, <1>6 DEF Surjection

-----------------------------------------------------------------------------
(* The constants and the lists. *)

LEMMA Constants ==
  /\ Texts \subseteq SUBSET Terms /\ Queries \subseteq SUBSET Terms
  /\ NoText \notin Texts /\ NoWriter \notin Writers
  /\ IsFiniteSet(Terms) /\ {CompactOver, MaxOps, MaxSearches} \subseteq Nat
BY Bm25Assumption

LEMMA SlotsAre ==
  ASSUME Types
  PROVE  /\ Len(ids) \in Nat /\ Slots = 1..Len(ids) /\ IsFiniteSet(Slots) /\ Slots \subseteq Nat
         /\ DOMAIN ids = Slots /\ DOMAIN texts = Slots
         /\ IsFiniteSet(Live) /\ Live \subseteq Slots
         /\ \A i \in Slots : ids[i] \in Docs /\ texts[i] \in Texts /\ texts[i] \subseteq Terms
         /\ Postings \in [Terms -> SUBSET Nat] /\ Len(tables) \in Nat \ {0} /\ DOMAIN tables = 1..Len(tables)
<1>1. Len(ids) \in Nat /\ Slots = 1..Len(ids) /\ Slots \subseteq Nat /\ DOMAIN ids = Slots /\ DOMAIN texts = Slots
  BY DEF Types, Slots
<1>2. IsFiniteSet(Slots)
  BY <1>1, FS_Interval
<1>3. IsFiniteSet(Live) /\ Live \subseteq Slots
  BY <1>2, FS_Subset DEF Live
<1>4. \A i \in Slots : ids[i] \in Docs /\ texts[i] \in Texts
  BY <1>1 DEF Types
<1>5. Postings \in [Terms -> SUBSET Nat] /\ Len(tables) \in Nat \ {0} /\ DOMAIN tables = 1..Len(tables)
  BY DEF Types, Postings
<1> QED
  BY <1>1, <1>2, <1>3, <1>4, <1>5, Constants

\* The pairs of a slot of S and a term of its text, which SumOfLens counts.
Pairs(f, S) == {p \in S \X Terms : p[2] \in f[p[1]]}

LEMMA PairsFinite ==
  ASSUME NEW f, NEW S, IsFiniteSet(S)
  PROVE  IsFiniteSet(Pairs(f, S)) /\ Cardinality(Pairs(f, S)) \in Nat
<1>1. IsFiniteSet(S \X Terms) /\ Pairs(f, S) \subseteq S \X Terms
  BY Constants, FS_Product DEF Pairs
<1> QED
  BY <1>1, FS_Subset, FS_CardinalityType

\* A slot more adds the length of its text.
LEMMA PairsSplit ==
  ASSUME NEW f, NEW S, IsFiniteSet(S), NEW i, i \notin S, NEW x \in SUBSET Terms, f[i] = x
  PROVE  /\ Cardinality(Pairs(f, S \cup {i})) = Cardinality(Pairs(f, S)) + Cardinality(x)
         /\ Cardinality(x) \in Nat
<1> DEFINE one == {i} \X x
<1>1. IsFiniteSet(x) /\ Cardinality(x) \in Nat
  BY Constants, FS_Subset, FS_CardinalityType
<1>2. IsFiniteSet({i}) /\ Cardinality({i}) = 1
  BY FS_Singleton
<1>3. IsFiniteSet(one) /\ Cardinality(one) = Cardinality(x)
  BY <1>1, <1>2, FS_Product
<1>4. Pairs(f, S \cup {i}) = Pairs(f, S) \cup one
  BY DEF Pairs
<1>5. Pairs(f, S) \cap one = {}
  BY DEF Pairs
<1> HIDE DEF one
<1>6. IsFiniteSet(Pairs(f, S)) /\ Cardinality(Pairs(f, S)) \in Nat
  BY PairsFinite
<1>7. Cardinality(Pairs(f, S) \cup one) = Cardinality(Pairs(f, S)) + Cardinality(one) - Cardinality({})
  BY <1>3, <1>5, <1>6, FS_Union
<1>8. Cardinality({}) = 0
  BY FS_EmptySet
<1>9. Cardinality(Pairs(f, S \cup {i})) = Cardinality(Pairs(f, S) \cup one)
  BY <1>4
<1> QED
  BY <1>1, <1>3, <1>6, <1>7, <1>8, <1>9

LEMMA SumIs == \A S : SumOfLens(S) = Cardinality(Pairs(texts, S))
BY DEF SumOfLens, Pairs

-----------------------------------------------------------------------------
(* What a step does to the index. *)

LEMMA Phases ==
  /\ Moving => Renumbered
  /\ ~Renumbered => Standing = Live
  /\ Renumbered => Standing = Slots
BY DEF Moving, Renumbered, Standing

IndexTypes ==
  /\ ids \in Seq(Docs) /\ texts \in Seq(Texts) /\ Len(ids) = Len(texts)
  /\ tables \in Seq([Terms -> SUBSET Nat]) /\ tables # <<>>
  /\ deleted \in SUBSET Nat
  /\ df \in [Terms -> Nat] /\ totalLen \in Nat

\* What was in a slot stays there.
Grows ==
  /\ Len(tables') = Len(tables)
  /\ Slots \subseteq Slots' /\ \A i \in Slots : texts'[i] = texts[i]

\* A tombstone takes its slot out of the counts.
LEMMA TombstoneOK ==
  ASSUME Types, IndexOK, ~Renumbered, ~Renumbered', NEW i \in Live, Tombstone(i)
  PROVE  IndexOK' /\ IndexTypes' /\ Grows
<1>1. /\ deleted' = deleted \cup {i} /\ totalLen' = totalLen - Cardinality(texts[i])
      /\ df' = [t \in Terms |-> IF t \in texts[i] /\ df[t] > 0 THEN df[t] - 1 ELSE df[t]]
      /\ UNCHANGED <<ids, texts, tables>>
  BY DEF Tombstone
<1>2. /\ Slots' = Slots /\ Postings' = Postings /\ Live' = Live \ {i} /\ ~Moving /\ ~Moving'
      /\ Standing = Live /\ Standing' = Live'
  <2>1. Slots' = Slots /\ Postings' = Postings
    BY <1>1 DEF Slots, Postings
  <2>2. Live' = Live \ {i}
    BY <1>1, <2>1 DEF Live
  <2> QED
    BY <2>1, <2>2 DEF Moving, Renumbered, Standing
<1>3. /\ IsFiniteSet(Live) /\ Live \subseteq Slots /\ texts[i] \in SUBSET Terms /\ i \in Slots
      /\ Slots \subseteq Nat
  BY SlotsAre
<1>4. Unique' /\ Tombs' /\ Listed'
  BY <1>1, <1>2, <1>3 DEF IndexOK, Unique, Tombs, Listed, Having
<1>5. Summed' /\ totalLen' \in Nat
  <2> DEFINE S == Live \ {i}
  <2>1. IsFiniteSet(S) /\ i \notin S /\ S \cup {i} = Live
    BY <1>3, FS_Subset
  <2> HIDE DEF S
  <2>2. /\ Cardinality(Pairs(texts, Live)) = Cardinality(Pairs(texts, S)) + Cardinality(texts[i])
        /\ Cardinality(texts[i]) \in Nat /\ Cardinality(Pairs(texts, S)) \in Nat
    BY <1>3, <2>1, PairsSplit, PairsFinite
  <2>3. totalLen = Cardinality(Pairs(texts, Live))
    BY SumIs DEF IndexOK, Summed
  <2>4. totalLen' = Cardinality(Pairs(texts, S))
    BY <1>1, <2>2, <2>3
  <2>5. SumOfLens(Live)' = Cardinality(Pairs(texts', Live'))
    BY DEF SumOfLens, Pairs
  <2>6. texts' = texts /\ Live' = S
    BY <1>1, <1>2 DEF S
  <2> QED
    BY <2>2, <2>4, <2>5, <2>6 DEF Summed
<1>6. ASSUME NEW t \in Terms
      PROVE  df'[t] = Cardinality({k \in Live' : t \in texts'[k]}) /\ df'[t] \in Nat
  <2> DEFINE H == {k \in Live : t \in texts[k]}
  <2>1. IsFiniteSet(H) /\ H \subseteq Live
    BY <1>3, FS_Subset
  <2>2. df[t] = Cardinality(H) /\ df[t] \in Nat
    BY <1>2, <2>1, FS_CardinalityType DEF IndexOK, Counted
  <2>3. {k \in Live' : t \in texts'[k]} = H \ {i} /\ (i \in H <=> t \in texts[i])
    BY <1>1, <1>2
  <2>4. df'[t] = IF t \in texts[i] /\ df[t] > 0 THEN df[t] - 1 ELSE df[t]
    BY <1>1
  <2> HIDE DEF H
  <2>5. Cardinality(H \ {i}) = (IF i \in H THEN Cardinality(H) - 1 ELSE Cardinality(H))
        /\ IsFiniteSet(H \ {i})
    BY <2>1, FS_RemoveElement
  <2>6. Cardinality(H \ {i}) \in Nat
    BY <2>5, FS_CardinalityType
  <2>7. i \in H => df[t] > 0
    BY <2>2, <2>5, <2>6
  <2> QED
    BY <2>2, <2>3, <2>4, <2>5, <2>6, <2>7
<1>7. Counted' /\ df' \in [Terms -> Nat]
  BY <1>1, <1>2, <1>6 DEF Counted
<1>8. IndexTypes'
  <2>1. deleted' \in SUBSET Nat
    BY <1>1, <1>3 DEF Types
  <2> QED
    BY <1>1, <1>5, <1>7, <2>1 DEF Types, IndexTypes
<1> QED
  BY <1>1, <1>2, <1>4, <1>5, <1>7, <1>8 DEF IndexOK, Grows

\* A document enters the next slot, its postings and the counts.
LEMMA AppendOK ==
  ASSUME Types, IndexOK, ~Renumbered, ~Renumbered', NEW d \in Docs, NEW x \in Texts,
         \A i \in Live : ids[i] # d, AppendDoc(d, x)
  PROVE  IndexOK' /\ IndexTypes' /\ Grows
<1> DEFINE n == Len(ids) + 1
           m == Len(tables)
<1>1. /\ ids' = Append(ids, d) /\ texts' = Append(texts, x)
      /\ tables' = [tables EXCEPT ![m] = [t \in Terms |-> IF t \in x THEN tables[m][t] \cup {n} ELSE tables[m][t]]]
      /\ df' = [t \in Terms |-> IF t \in x THEN df[t] + 1 ELSE df[t]]
      /\ totalLen' = totalLen + Cardinality(x) /\ deleted' = deleted
  <2>1. m \in DOMAIN tables
    BY SlotsAre
  <2> QED
    BY <2>1 DEF AppendDoc
<1>2. /\ Len(ids) \in Nat /\ Slots = 1..Len(ids) /\ Live \subseteq Slots /\ IsFiniteSet(Live)
      /\ x \in SUBSET Terms /\ m \in Nat \ {0} /\ m \in DOMAIN tables /\ Postings \in [Terms -> SUBSET Nat]
      /\ n \in Nat /\ n \notin Slots
  BY SlotsAre, Constants
<1>3. /\ ids' \in Seq(Docs) /\ texts' \in Seq(Texts) /\ Len(ids') = n /\ Len(texts') = n
      /\ ids'[n] = d /\ texts'[n] = x
      /\ \A i \in Slots : ids'[i] = ids[i] /\ texts'[i] = texts[i]
  BY <1>1, <1>2 DEF Types
<1>4. Slots' = Slots \cup {n}
  BY <1>2, <1>3 DEF Slots
<1>5. Live' = Live \cup {n}
  BY <1>1, <1>2, <1>4 DEF IndexOK, Tombs, Live
<1>6. ~Moving /\ ~Moving' /\ Standing = Live /\ Standing' = Live'
  BY DEF Moving, Renumbered, Standing
<1>7. /\ tables' \in Seq([Terms -> SUBSET Nat]) /\ Len(tables') = m
      /\ Postings' = [t \in Terms |-> IF t \in x THEN Postings[t] \cup {n} ELSE Postings[t]]
  <2> DEFINE new == [t \in Terms |-> IF t \in x THEN tables[m][t] \cup {n} ELSE tables[m][t]]
  <2>1. new \in [Terms -> SUBSET Nat]
    BY <1>2 DEF Postings
  <2>2. tables' = [tables EXCEPT ![m] = new]
    BY <1>1
  <2> HIDE DEF new
  <2>3. tables' \in Seq([Terms -> SUBSET Nat]) /\ Len(tables') = m /\ tables'[m] = new
    BY <1>2, <2>1, <2>2 DEF Types
  <2>4. Postings' = new
    BY <2>3 DEF Postings
  <2> QED
    BY <2>3, <2>4 DEF new, Postings
<1> HIDE DEF n, m
<1>8. Unique'
  <2>1. ASSUME NEW i \in Live', NEW k \in Live', ids'[i] = ids'[k]
        PROVE  i = k
    <3>1. CASE i \in Live /\ k \in Live
      BY <1>2, <1>3, <1>6, <2>1, <3>1 DEF IndexOK, Unique
    <3>2. \A j \in Live : ids'[j] # d
      BY <1>2, <1>3
    <3> QED
      BY <1>3, <1>5, <2>1, <3>1, <3>2
  <2> QED
    BY <1>6, <2>1 DEF Unique
<1>9. Tombs'
  BY <1>1, <1>4 DEF IndexOK, Tombs
<1>10. Summed' /\ totalLen' \in Nat
  <2>1. n \notin Live
    BY <1>2
  <2>6. PICK f : f = texts'
    OBVIOUS
  <2>2. /\ Cardinality(Pairs(f, Live \cup {n})) = Cardinality(Pairs(f, Live)) + Cardinality(x)
        /\ Cardinality(x) \in Nat /\ Cardinality(Pairs(f, Live)) \in Nat
    <3>1. IsFiniteSet(Live) /\ x \in SUBSET Terms /\ f[n] = x
      BY <1>2, <1>3, <2>6, Constants
    <3>2. PICK S, k : S = Live /\ k = n
      OBVIOUS
    <3>3. IsFiniteSet(S) /\ k \notin S /\ f[k] = x
      BY <2>1, <3>1, <3>2
    <3>4. /\ Cardinality(Pairs(f, S \cup {k})) = Cardinality(Pairs(f, S)) + Cardinality(x)
          /\ Cardinality(x) \in Nat
      BY <3>1, <3>3, PairsSplit
    <3>5. Cardinality(Pairs(f, S)) \in Nat
      BY <3>3, PairsFinite
    <3> QED
      BY <3>2, <3>4, <3>5
  <2>3. Pairs(f, Live) = Pairs(texts, Live)
    BY <1>2, <1>3, <2>6 DEF Pairs
  <2>4. totalLen = Cardinality(Pairs(texts, Live))
    BY SumIs DEF IndexOK, Summed
  <2>5. SumOfLens(Live)' = Cardinality(Pairs(texts', Live'))
    BY DEF SumOfLens, Pairs
  <2> QED
    BY <1>1, <1>5, <2>2, <2>3, <2>4, <2>5, <2>6 DEF Summed
<1>11. ASSUME NEW t \in Terms
       PROVE  /\ Postings'[t] = Having(t)'
              /\ df'[t] = Cardinality({k \in Live' : t \in texts'[k]}) /\ df'[t] \in Nat
  <2> DEFINE H == {k \in Live : t \in texts[k]}
  <2>1. Postings[t] = {k \in Slots : t \in texts[k]}
    BY <1>6 DEF IndexOK, Listed, Having
  <2>2. Postings'[t] = Having(t)'
    BY <1>2, <1>3, <1>4, <1>7, <2>1 DEF Having
  <2>3. IsFiniteSet(H) /\ n \notin H
    BY <1>2, FS_Subset
  <2>4. {k \in Live' : t \in texts'[k]} = IF t \in x THEN H \cup {n} ELSE H
    BY <1>2, <1>3, <1>5
  <2>5. df[t] = Cardinality(H)
    BY <1>6 DEF IndexOK, Counted
  <2> HIDE DEF H
  <2>6. Cardinality(H \cup {n}) = Cardinality(H) + 1 /\ Cardinality(H) \in Nat
    BY <2>3, FS_AddElement, FS_CardinalityType
  <2>7. df'[t] = IF t \in x THEN df[t] + 1 ELSE df[t]
    BY <1>1
  <2>8. df'[t] = Cardinality(IF t \in x THEN H \cup {n} ELSE H) /\ df'[t] \in Nat
    BY <2>5, <2>6, <2>7
  <2> QED
    BY <2>2, <2>4, <2>8
<1>12. Listed' /\ Counted' /\ df' \in [Terms -> Nat]
  BY <1>1, <1>6, <1>11 DEF Listed, Counted
<1>13. IndexTypes'
  <2>1. tables' # <<>>
    BY <1>2, <1>7
  <2> QED
    BY <1>1, <1>3, <1>7, <1>10, <1>12, <2>1 DEF Types, IndexTypes
<1> QED
  BY <1>3, <1>4, <1>7, <1>8, <1>9, <1>10, <1>12, <1>13 DEF IndexOK, Grows, m

\* The old number of what compaction gives the number k.
Before(k) == CHOOSE i \in Live : Remap(i) = k

LEMMA RemapIs ==
  ASSUME Types
  PROVE  /\ Cardinality(Live) \in Nat
         /\ \A i \in Live : Remap(i) \in 1..Cardinality(Live) /\ Before(Remap(i)) = i
         /\ \A k \in 1..Cardinality(Live) : Before(k) \in Live /\ Remap(Before(k)) = k
<1>1. /\ Slots = 1..Len(ids) /\ Len(ids) \in Nat /\ IsFiniteSet(Live) /\ Live \subseteq Slots /\ Live \subseteq Nat
  BY SlotsAre
<1>2. \A i \in Live : Remap(i) = Number(Live, i)
  <2>1. ASSUME NEW i \in Live
        PROVE  {k \in 1..i : k \notin deleted} = Upto(Live, i)
    <3>1. i \in 1..Len(ids)
      BY <1>1
    <3>2. \A k : k \in 1..i /\ k \notin deleted <=> k \in Live /\ k <= i
      BY <1>1, <3>1 DEF Live
    <3> QED
      BY <3>2 DEF Upto
  <2> QED
    BY <2>1 DEF Remap, Number
<1>3. /\ Cardinality(Live) \in Nat
      /\ \A i \in Live : Remap(i) \in 1..Cardinality(Live)
      /\ \A i, j \in Live : i < j => Remap(i) < Remap(j)
      /\ \A k \in 1..Cardinality(Live) : \E i \in Live : Remap(i) = k
  BY <1>1, <1>2, Numbering
<1>4. \A i, j \in Live : Remap(i) = Remap(j) => i = j
  <2>1. ASSUME NEW i \in Live, NEW j \in Live, Remap(i) = Remap(j)
        PROVE  i = j
    <3>1. ~(i < j) /\ ~(j < i) /\ i \in Nat /\ j \in Nat
      BY <1>1, <1>3, <2>1
    <3> QED
      BY <3>1
  <2> QED
    BY <2>1
<1>5. \A k \in 1..Cardinality(Live) : Before(k) \in Live /\ Remap(Before(k)) = k
  BY <1>3 DEF Before
<1> QED
  BY <1>3, <1>4, <1>5

ContentOf(is, ts, S) ==
  [d \in Docs |-> IF \E i \in S : is[i] = d THEN ts[CHOOSE i \in S : is[i] = d] ELSE NoText]

LEMMA ContentIs ==
  ASSUME NEW is, NEW ts, NEW S, \A i, k \in S : is[i] = is[k] => i = k, \A i \in S : is[i] \in Docs
  PROVE  /\ \A i \in S : ContentOf(is, ts, S)[is[i]] = ts[i]
         /\ \A d \in Docs : (\A i \in S : is[i] # d) => ContentOf(is, ts, S)[d] = NoText
<1>1. ASSUME NEW i \in S
      PROVE  ContentOf(is, ts, S)[is[i]] = ts[i]
  <2>1. (CHOOSE k \in S : is[k] = is[i]) \in S /\ is[CHOOSE k \in S : is[k] = is[i]] = is[i]
    OBVIOUS
  <2>2. (CHOOSE k \in S : is[k] = is[i]) = i
    BY <2>1
  <2> QED
    BY <2>2 DEF ContentOf
<1> QED
  BY <1>1 DEF ContentOf

\* Two indexes hold the same if every slot of each has its like in the other.
LEMMA SameContent ==
  ASSUME NEW is, NEW ts, NEW S, \A i, k \in S : is[i] = is[k] => i = k, \A i \in S : is[i] \in Docs,
         NEW js, NEW us, NEW T, \A i, k \in T : js[i] = js[k] => i = k, \A i \in T : js[i] \in Docs,
         \A i \in S : \E k \in T : js[k] = is[i] /\ us[k] = ts[i],
         \A k \in T : \E i \in S : is[i] = js[k]
  PROVE  ContentOf(js, us, T) = ContentOf(is, ts, S)
<1>1. ASSUME NEW d \in Docs
      PROVE  ContentOf(js, us, T)[d] = ContentOf(is, ts, S)[d]
  <2>1. CASE \E i \in S : is[i] = d
    <3>1. PICK i \in S : is[i] = d
      BY <2>1
    <3>2. PICK k \in T : js[k] = d /\ us[k] = ts[i]
      BY <3>1
    <3>3. ContentOf(is, ts, S)[d] = ts[i]
      BY <3>1, ContentIs
    <3>4. ContentOf(js, us, T)[d] = us[k]
      BY <3>2, ContentIs
    <3> QED
      BY <3>2, <3>3, <3>4
  <2>2. CASE \A i \in S : is[i] # d
    <3>1. \A k \in T : js[k] # d
      BY <2>2
    <3> QED
      BY <2>2, <3>1, ContentIs
  <2> QED
    BY <2>1, <2>2
<1> QED
  BY <1>1 DEF ContentOf

\* Compaction, first part: what is live moves to the new numbers, with its text.
LEMMA CompactIdsOK ==
  ASSUME Types, IndexOK, ~Renumbered, Moving', NEW w \in Writers, CompactIds(w)
  PROVE  IndexOK' /\ IndexTypes' /\ Content' = Content
<1> DEFINE n == Cardinality(Live)
<1>1. /\ ids' = [k \in 1..n |-> ids[Before(k)]] /\ texts' = [k \in 1..n |-> texts[Before(k)]]
      /\ UNCHANGED <<tables, deleted, df, totalLen>>
  BY DEF CompactIds, Survivors, Before
<1>2. /\ n \in Nat
      /\ \A i \in Live : Remap(i) \in 1..n /\ Before(Remap(i)) = i
      /\ \A k \in 1..n : Before(k) \in Live /\ Remap(Before(k)) = k
  BY RemapIs
<1>3. \A i \in Live : ids[i] \in Docs /\ texts[i] \in Texts /\ i \in Slots
  BY SlotsAre
<1> HIDE DEF n
<1>4. /\ ids' \in Seq(Docs) /\ texts' \in Seq(Texts) /\ Len(ids') = n /\ Len(texts') = n
      /\ \A k \in 1..n : ids'[k] = ids[Before(k)] /\ texts'[k] = texts[Before(k)]
  BY <1>1, <1>2, <1>3
<1>5. Slots' = 1..n /\ Postings' = Postings
  BY <1>1, <1>4 DEF Slots, Postings
<1>6. Renumbered' /\ Standing' = Slots' /\ Standing = Live /\ ~Moving
  BY DEF Moving, Renumbered, Standing
<1>7. Unique'
  BY <1>2, <1>4, <1>5, <1>6 DEF IndexOK, Unique
<1>8. ASSUME NEW t \in Terms
      PROVE  Renumber(Postings[t] \ deleted) = Having(t)'
  <2>1. Postings[t] = Having(t)
    BY <1>6 DEF IndexOK, Listed
  <2>2. \A i : i \in Postings[t] \ deleted <=> i \in Live /\ t \in texts[i]
    BY <2>1 DEF Having, Live
  <2>3. \A i \in Postings[t] \ deleted : Remap(i) \in 1..n /\ t \in texts'[Remap(i)]
    BY <1>2, <1>4, <2>2
  <2>4. \A k \in 1..n : t \in texts'[k] => Before(k) \in Postings[t] \ deleted /\ Remap(Before(k)) = k
    BY <1>2, <1>4, <2>2
  <2>5. Having(t)' = {k \in 1..n : t \in texts'[k]}
    BY <1>5 DEF Having
  <2> QED
    BY <2>3, <2>4, <2>5 DEF Renumber
<1>9. Listed'
  <2>1. \A S : Renumber(S)' = Renumber(S)
    BY <1>1 DEF Renumber, Remap
  <2>2. \A t \in Terms : Renumber(Postings[t] \ deleted)' = Renumber(Postings[t] \ deleted)
    BY <1>1, <1>5 DEF Renumber, Remap
  <2> QED
    BY <1>8, <2>2 DEF Listed
<1>10. Tombs' /\ Summed' /\ Counted'
  BY <1>6 DEF Tombs, Summed, Counted
<1>11. Content' = Content
  <2>1. \A i \in Live : \E k \in 1..n : ids'[k] = ids[i] /\ texts'[k] = texts[i]
    BY <1>2, <1>4
  <2>2. \A k \in 1..n : \E i \in Live : ids[i] = ids'[k]
    BY <1>2, <1>4
  <2>3. \A k \in 1..n : ids'[k] \in Docs
    BY <1>2, <1>3, <1>4
  <2>4. /\ \A i, k \in Live : ids[i] = ids[k] => i = k
        /\ \A i, k \in 1..n : ids'[i] = ids'[k] => i = k
    BY <1>5, <1>6, <1>7 DEF IndexOK, Unique
  <2>5. PICK is, ts : is = ids' /\ ts = texts'
    OBVIOUS
  <2>6. ContentOf(is, ts, 1..n) = ContentOf(ids, texts, Live)
    <3> DEFINE T == 1..n
    <3>1. /\ \A i, k \in T : is[i] = is[k] => i = k
          /\ \A i \in T : is[i] \in Docs
          /\ \A i \in Live : \E k \in T : is[k] = ids[i] /\ ts[k] = texts[i]
          /\ \A k \in T : \E i \in Live : ids[i] = is[k]
      BY <2>1, <2>2, <2>3, <2>4, <2>5
    <3>2. \A i \in Live : ids[i] \in Docs
      BY <1>3
    <3> HIDE DEF T
    <3>3. ContentOf(is, ts, T) = ContentOf(ids, texts, Live)
      BY <2>4, <3>1, <3>2, SameContent
    <3> QED
      BY <3>3 DEF T
  <2>7. Content' = ContentOf(ids', texts', 1..n)
    BY <1>5, <1>6 DEF Content, ContentOf
  <2>8. Content = ContentOf(ids, texts, Live)
    BY <1>6 DEF Content, ContentOf
  <2> QED
    BY <2>5, <2>6, <2>7, <2>8
<1>12. IndexTypes'
  BY <1>1, <1>4 DEF Types, IndexTypes
<1> QED
  BY <1>7, <1>9, <1>10, <1>11, <1>12 DEF IndexOK

\* Second part: the postings are renumbered, and df counted anew.
LEMMA CompactPostingsOK ==
  ASSUME Types, IndexOK, Moving, ~Moving', Renumbered', NEW w \in Writers, CompactPostings(w)
  PROVE  IndexOK' /\ IndexTypes' /\ Content' = Content
<1> DEFINE kept == [t \in Terms |-> Renumber(Postings[t] \ deleted)]
<1>1. /\ tables' = Append(tables, kept) /\ df' = [t \in Terms |-> Cardinality(kept[t])]
      /\ UNCHANGED <<ids, texts, deleted, totalLen>>
  BY DEF CompactPostings
<1>2. /\ Slots' = Slots /\ Standing = Slots /\ Standing' = Slots /\ Slots \subseteq Nat
      /\ IsFiniteSet(Slots)
  BY <1>1, SlotsAre DEF Slots, Standing, Moving, Renumbered
<1>3. \A t \in Terms : kept[t] = Having(t)
  BY DEF IndexOK, Listed
<1>4. \A t \in Terms : Having(t)' = Having(t)
  BY <1>1, <1>2 DEF Having
<1>5. \A t \in Terms : /\ Having(t) \subseteq Slots /\ Cardinality(Having(t)) \in Nat
                       /\ Having(t) = {i \in Standing' : t \in texts'[i]}
  <2>1. \A t \in Terms : Having(t) \subseteq Slots
    BY DEF Having
  <2>2. \A t \in Terms : Cardinality(Having(t)) \in Nat
    BY <1>2, <2>1, FS_Subset, FS_CardinalityType
  <2> QED
    BY <1>1, <1>2, <2>1, <2>2 DEF Having
<1>6. kept \in [Terms -> SUBSET Nat]
  BY <1>2, <1>3, <1>5
<1> HIDE DEF kept
<1>7. tables' \in Seq([Terms -> SUBSET Nat]) /\ tables' # <<>> /\ Postings' = kept
  <2>1. tables \in Seq([Terms -> SUBSET Nat])
    BY DEF Types
  <2>2. /\ tables' \in Seq([Terms -> SUBSET Nat]) /\ Len(tables') = Len(tables) + 1 /\ Len(tables) \in Nat
        /\ tables'[Len(tables) + 1] = kept
    BY <1>1, <1>6, <2>1
  <2>3. tables' # <<>>
    BY <2>2
  <2> QED
    BY <2>2, <2>3 DEF Postings
<1>8. Listed'
  BY <1>3, <1>4, <1>7 DEF Listed
<1>9. Counted' /\ df' \in [Terms -> Nat]
  BY <1>1, <1>3, <1>5 DEF Counted
<1>10. Unique' /\ Tombs' /\ Summed'
  BY <1>1, <1>2 DEF IndexOK, Unique, Tombs, Summed
<1>11. IndexTypes'
  BY <1>1, <1>7, <1>9 DEF Types, IndexTypes
<1>12. Content' = Content
  BY <1>1, <1>2 DEF Content
<1> QED
  BY <1>8, <1>9, <1>10, <1>11, <1>12 DEF IndexOK

\* Last part: no slot is a tombstone any more.
LEMMA CompactDeletedOK ==
  ASSUME Types, IndexOK, Renumbered, ~Moving, ~Renumbered', NEW w \in Writers, CompactDeleted(w)
  PROVE  IndexOK' /\ IndexTypes' /\ Content' = Content
<1>1. deleted' = {} /\ totalLen' = SumOfLens(Slots) /\ UNCHANGED <<ids, texts, tables, df>>
  BY DEF CompactDeleted
<1>2. /\ Slots' = Slots /\ Live' = Slots /\ Standing = Slots /\ Standing' = Slots /\ Postings' = Postings
      /\ IsFiniteSet(Slots) /\ ~Moving'
  BY <1>1, SlotsAre DEF Slots, Standing, Live, Postings, Moving, Renumbered
<1>3. Unique' /\ Tombs' /\ Listed' /\ Counted'
  BY <1>1, <1>2 DEF IndexOK, Unique, Tombs, Listed, Counted, Having
<1>4. Summed' /\ totalLen' \in Nat
  <2>1. totalLen' \in Nat
    BY <1>1, <1>2, PairsFinite, SumIs
  <2>2. SumOfLens(Live)' = Cardinality(Pairs(texts', Live'))
    BY DEF SumOfLens, Pairs
  <2> QED
    BY <1>1, <1>2, <2>1, <2>2, SumIs DEF Summed
<1>5. IndexTypes'
  BY <1>1, <1>3, <1>4 DEF Types, IndexTypes
<1>6. Content' = Content
  BY <1>1, <1>2 DEF Content
<1> QED
  BY <1>3, <1>4, <1>5, <1>6 DEF IndexOK

\* A saved and loaded index is the one that was saved: the texts and the frequencies worked
\* out of the postings are those it had.
LEMMA ReloadOK ==
  ASSUME Types, IndexOK, ~Renumbered, ~Renumbered', Reload
  PROVE  IndexOK' /\ IndexTypes' /\ Content' = Content
<1>1. /\ texts' = [i \in Slots |-> {t \in Terms : i \in Postings[t]}]
      /\ df' = [t \in Terms |-> Cardinality(Postings[t] \ deleted)]
      /\ tables' = <<Postings>> /\ UNCHANGED <<ids, deleted, totalLen>>
  BY DEF Reload, RebuiltDf
<1>2. /\ Slots = DOMAIN texts /\ Postings \in [Terms -> SUBSET Nat]
      /\ \A i \in Slots : texts[i] \subseteq Terms
  BY SlotsAre
<1>3. ~Moving /\ ~Moving' /\ Standing = Live
  BY DEF Moving, Renumbered, Standing
<1>4. texts' = texts
  <2>1. \A t \in Terms : Postings[t] = Having(t)
    BY <1>3 DEF IndexOK, Listed
  <2>2. ASSUME NEW i \in Slots
        PROVE  {t \in Terms : i \in Postings[t]} = texts[i]
    BY <1>2, <2>1 DEF Having
  <2>3. texts = [i \in Slots |-> texts[i]]
    BY <1>2 DEF Types
  <2> QED
    BY <1>1, <2>2, <2>3
<1>5. df' = df
  <2>1. ASSUME NEW t \in Terms
        PROVE  Cardinality(Postings[t] \ deleted) = df[t]
    <3>1. Postings[t] = Having(t)
      BY <1>3 DEF IndexOK, Listed
    <3>2. Postings[t] \ deleted = {i \in Live : t \in texts[i]}
      BY <3>1 DEF Having, Live
    <3> QED
      BY <1>3, <3>2 DEF IndexOK, Counted
  <2>2. df = [t \in Terms |-> df[t]]
    BY DEF Types
  <2> QED
    BY <1>1, <2>1, <2>2
<1>6. Postings' = Postings /\ tables' \in Seq([Terms -> SUBSET Nat]) /\ tables' # <<>>
  BY <1>1, <1>2 DEF Postings
<1>7. Slots' = Slots /\ Live' = Live /\ Standing' = Standing
  BY <1>1, <1>3 DEF Slots, Live, Standing
<1>8. IndexOK'
  <2>1. Unique' /\ Tombs' /\ Counted'
    BY <1>1, <1>3, <1>4, <1>5, <1>7 DEF IndexOK, Unique, Tombs, Counted
  <2>2. \A t \in Terms : Having(t)' = Having(t)
    BY <1>4, <1>7 DEF Having
  <2>3. Listed'
    BY <1>3, <1>6, <2>2 DEF IndexOK, Listed
  <2>4. SumOfLens(Live)' = SumOfLens(Live)
    BY <1>4, <1>7 DEF SumOfLens
  <2>5. Summed'
    BY <1>1, <2>4 DEF IndexOK, Summed
  <2> QED
    BY <2>1, <2>3, <2>5 DEF IndexOK
<1>9. Content' = Content
  BY <1>1, <1>4, <1>7 DEF Content
<1>10. IndexTypes'
  BY <1>1, <1>4, <1>5, <1>6 DEF Types, IndexTypes
<1> QED
  BY <1>8, <1>9, <1>10

LEMMA SameIndex ==
  ASSUME Types, IndexOK, UNCHANGED index, Renumbered' <=> Renumbered, Moving' <=> Moving
  PROVE  IndexOK' /\ IndexTypes' /\ Content' = Content
<1>1. Slots' = Slots /\ Live' = Live /\ Standing' = Standing /\ Postings' = Postings
  BY DEF index, Slots, Live, Standing, Postings
<1>2. \A t : Renumber(Postings[t] \ deleted)' = Renumber(Postings[t] \ deleted)
  BY DEF Renumber, Remap, index, Postings
<1>3. Listed'
  BY <1>1, <1>2 DEF IndexOK, Listed, Having, index
<1> QED
  BY <1>1, <1>3 DEF IndexOK, Unique, Tombs, Summed, Counted, Having, SumOfLens, index, Types, IndexTypes,
     Content

-----------------------------------------------------------------------------
(* The dictionary. *)

DictStep == Dict!Next \/ Content' = Content

LEMMA ContentType ==
  ASSUME Types, IndexOK
  PROVE  /\ Content \in [Docs -> Texts \cup {NoText}] /\ Standing \subseteq Slots
         /\ \A i \in Standing : ids[i] \in Docs /\ texts[i] \in Texts /\ Content[ids[i]] = texts[i]
         /\ \A d \in Docs : (\A i \in Standing : ids[i] # d) => Content[d] = NoText
<1>1. Content = ContentOf(ids, texts, Standing)
  BY DEF Content, ContentOf
<1>2. Standing \subseteq Slots /\ \A i \in Standing : ids[i] \in Docs /\ texts[i] \in Texts
  BY SlotsAre DEF Standing
<1>3. /\ \A i \in Standing : Content[ids[i]] = texts[i]
      /\ \A d \in Docs : (\A i \in Standing : ids[i] # d) => Content[d] = NoText
  BY <1>1, <1>2, ContentIs DEF IndexOK, Unique
<1>4. \A d \in Docs : Content[d] \in Texts \cup {NoText}
  <2>1. ASSUME NEW d \in Docs
        PROVE  Content[d] \in Texts \cup {NoText}
    <3>1. CASE \E i \in Standing : ids[i] = d
      BY <1>2, <1>3, <3>1
    <3> QED
      BY <1>3, <3>1
  <2> QED
    BY <2>1
<1>5. Content = [d \in Docs |-> Content[d]]
  BY DEF Content
<1> QED
  BY <1>2, <1>3, <1>4, <1>5

\* A tombstone drops one chunk.
LEMMA TombstoneDrops ==
  ASSUME Types, IndexOK, ~Renumbered, ~Renumbered', IndexOK', IndexTypes', NEW i \in Live, Tombstone(i)
  PROVE  DictStep
<1>1. UNCHANGED <<ids, texts>> /\ deleted' = deleted \cup {i}
  BY DEF Tombstone
<1>2. Standing = Live /\ Standing' = Live \ {i}
  BY <1>1 DEF Standing, Live, Slots
<1>3. ids[i] \in Docs /\ texts[i] \in Texts /\ Content[ids[i]] = texts[i]
      /\ Content \in [Docs -> Texts \cup {NoText}]
  BY <1>2, ContentType
<1>4. \A k \in Live \ {i} : ids[k] # ids[i]
  BY <1>2 DEF IndexOK, Unique
<1>5. Content' = [Content EXCEPT ![ids[i]] = NoText]
  <2>1. PICK S : S = Live \ {i}
    OBVIOUS
  <2>2. Content' = ContentOf(ids, texts, S) /\ Content = ContentOf(ids, texts, Live)
    BY <1>1, <1>2, <2>1 DEF Content, ContentOf
  <2>3. \A k, l \in Live : ids[k] = ids[l] => k = l
    BY <1>2 DEF IndexOK, Unique
  <2>4. \A k \in Live : ids[k] \in Docs
    BY <1>2, ContentType
  <2>5. ASSUME NEW d \in Docs
        PROVE  ContentOf(ids, texts, S)[d] = IF d = ids[i] THEN NoText ELSE Content[d]
    <3>1. CASE d = ids[i]
      BY <1>4, <2>1, <3>1 DEF ContentOf
    <3>2. CASE d # ids[i] /\ \E k \in S : ids[k] = d
      <4>1. PICK k \in S : ids[k] = d
        BY <3>2
      <4>2. ContentOf(ids, texts, S)[d] = texts[k]
        BY <2>1, <2>3, <2>4, <4>1, ContentIs
      <4>3. Content[d] = texts[k]
        BY <2>1, <2>2, <2>3, <2>4, <4>1, ContentIs
      <4> QED
        BY <3>2, <4>2, <4>3
    <3>3. CASE d # ids[i] /\ \A k \in S : ids[k] # d
      <4>1. \A k \in Live : ids[k] # d
        BY <2>1, <3>3
      <4> QED
        BY <2>2, <3>3, <4>1 DEF ContentOf
    <3> QED
      BY <3>1, <3>2, <3>3
  <2>6. ContentOf(ids, texts, S) = [d \in Docs |-> ContentOf(ids, texts, S)[d]]
    BY DEF ContentOf
  <2> QED
    BY <1>3, <2>2, <2>5, <2>6
<1>6. Content[ids[i]] # NoText
  BY <1>3, Constants
<1> QED
  BY <1>3, <1>5, <1>6 DEF DictStep, Dict!Next, Dict!Drop

\* A document indexed puts one chunk.
LEMMA AppendPuts ==
  ASSUME Types, IndexOK, ~Renumbered, ~Renumbered', IndexOK', NEW d \in Docs, NEW x \in Texts,
         \A i \in Live : ids[i] # d, AppendDoc(d, x)
  PROVE  DictStep
<1> DEFINE n == Len(ids) + 1
<1>1. ids' = Append(ids, d) /\ texts' = Append(texts, x) /\ deleted' = deleted
  BY DEF AppendDoc
<1>2. /\ Len(ids) \in Nat /\ Slots = 1..Len(ids) /\ Live \subseteq Slots /\ n \notin Slots
  BY SlotsAre
<1>3. /\ ids'[n] = d /\ texts'[n] = x /\ Len(ids') = n
      /\ \A i \in Slots : ids'[i] = ids[i] /\ texts'[i] = texts[i]
  BY <1>1, <1>2 DEF Types
<1>4. Slots' = Slots \cup {n}
  BY <1>2, <1>3 DEF Slots
<1> HIDE DEF n
<1>5. Live' = Live \cup {n} /\ Standing = Live /\ Standing' = Live \cup {n}
  BY <1>1, <1>2, <1>4 DEF IndexOK, Tombs, Live, Standing
<1>6. Content \in [Docs -> Texts \cup {NoText}] /\ Content[d] = NoText
  BY <1>5, ContentType
<1>7. Content' = [Content EXCEPT ![d] = x]
  <2>1. PICK is, ts, S : is = ids' /\ ts = texts' /\ S = Live \cup {n}
    OBVIOUS
  <2>2. Content' = ContentOf(is, ts, S) /\ Content = ContentOf(ids, texts, Live)
    BY <1>5, <2>1 DEF Content, ContentOf
  <2>3. \A k, l \in Live : ids[k] = ids[l] => k = l
    BY <1>5 DEF IndexOK, Unique
  <2>4. \A k \in Live : ids[k] \in Docs /\ is[k] = ids[k] /\ ts[k] = texts[k] /\ k \in S
    BY <1>2, <1>3, <1>5, <2>1, ContentType
  <2>5. \A k, l \in S : is[k] = is[l] => k = l
    BY <1>5, <2>1 DEF IndexOK, Unique
  <2>6. is[n] = d /\ ts[n] = x /\ n \in S /\ \A k \in S : k \in Live \/ k = n
    BY <1>3, <2>1
  <2>7. \A k \in S : is[k] \in Docs
    BY <2>4, <2>6
  <2>8. ASSUME NEW e \in Docs
        PROVE  ContentOf(is, ts, S)[e] = IF e = d THEN x ELSE Content[e]
    <3>1. CASE e = d
      BY <2>5, <2>6, <2>7, <3>1, ContentIs
    <3>2. CASE e # d /\ \E k \in Live : ids[k] = e
      <4>1. PICK k \in Live : ids[k] = e
        BY <3>2
      <4>2. ContentOf(is, ts, S)[e] = texts[k]
        BY <2>4, <2>5, <2>7, <4>1, ContentIs
      <4>3. Content[e] = texts[k]
        BY <2>2, <2>3, <2>4, <4>1, ContentIs
      <4> QED
        BY <3>2, <4>2, <4>3
    <3>3. CASE e # d /\ \A k \in Live : ids[k] # e
      <4>1. \A k \in S : is[k] # e
        BY <2>4, <2>6, <3>3
      <4> QED
        BY <2>2, <3>3, <4>1 DEF ContentOf
    <3> QED
      BY <3>1, <3>2, <3>3
  <2>9. ContentOf(is, ts, S) = [e \in Docs |-> ContentOf(is, ts, S)[e]]
    BY DEF ContentOf
  <2> QED
    BY <1>6, <2>2, <2>8, <2>9
<1> QED
  BY <1>6, <1>7 DEF DictStep, Dict!Next, Dict!Put

-----------------------------------------------------------------------------
(* The lock and the searches. *)

Half == {"postings", "tombstones"}   \* where compaction is half done

\* A writer that has the lock, or takes it while nobody does, alone decides how far the
\* index is compacted.
LEMMA WriterStep ==
  ASSUME Types, Locking, NEW w \in Writers, lock \in {w, NoWriter},
         NEW o \in Tasks, o.pc = "add" => o.todo \subseteq Docs \X Texts,
         writer' = [writer EXCEPT ![w] = o], lock' = IF o.pc \in Holding THEN w ELSE NoWriter
  PROVE  /\ Locking' /\ lock' \in Writers \cup {NoWriter} /\ writer' \in [Writers -> Tasks]
         /\ Renumbered <=> writer[w].pc \in Half
         /\ Moving <=> writer[w].pc = "postings"
         /\ Renumbered' <=> o.pc \in Half
         /\ Moving' <=> o.pc = "postings"
         /\ \A v \in Writers \ {w} : writer[v].pc \notin Holding /\ writer'[v].pc \notin Holding
         /\ writer'[w] = o
<1>1. \A v \in Writers : writer'[v] = IF v = w THEN o ELSE writer[v]
  BY DEF Types
<1>2. \A v \in Writers \ {w} : writer[v].pc \notin Holding /\ writer'[v].pc \notin Holding
  BY <1>1, Constants DEF Locking
<1>3. Half \subseteq Holding
  BY DEF Half, Holding
<1>4. Locking'
  BY <1>1, <1>2, Constants DEF Locking
<1>5. (Renumbered <=> writer[w].pc \in Half) /\ (Moving <=> writer[w].pc = "postings")
  BY <1>2 DEF Renumbered, Moving, Half, Holding
<1>6. (Renumbered' <=> o.pc \in Half) /\ (Moving' <=> o.pc = "postings")
  BY <1>1, <1>2 DEF Renumbered, Moving, Half, Holding
<1> QED
  BY <1>1, <1>2, <1>4, <1>5, <1>6 DEF Types

\* Every search learns of an add or a remove; what it scored still has a term of its query.
LEMMA DisturbedOK ==
  ASSUME Types, \A s \in Searchers : SearchOK(search[s]), Disturbed, Grows, ~Renumbered'
  PROVE  search' \in [Searchers -> Records] /\ \A s \in Searchers : SearchOK(search[s])'
<1>1. ASSUME NEW s \in Searchers
      PROVE  search'[s] \in Records /\ SearchOK(search[s])'
  <2> DEFINE r == search[s]
  <2>1. search'[s] = [r EXCEPT !.quiet = FALSE]
    BY DEF Disturbed
  <2>2. r \in Records /\ SearchOK(r)
    BY DEF Types
  <2> HIDE DEF r
  <2>3. PICK z : z = search'[s]
    OBVIOUS
  <2>4. /\ z \in Records /\ z.quiet = FALSE /\ z.torn = r.torn /\ z.pc = r.pc /\ z.scored = r.scored
        /\ z.query = r.query /\ z.term = r.term /\ z.table = r.table /\ z.todo = r.todo
    BY <2>1, <2>2, <2>3 DEF Records
  <2>5. SearchOK(z)'
    BY <2>2, <2>4 DEF SearchOK, Grows
  <2> QED
    BY <2>3, <2>4, <2>5
<1> QED
  BY <1>1 DEF Disturbed

\* A search is torn from compaction on, and then nothing more is asked of it.
LEMMA TornOK ==
  ASSUME Types, \A s \in Searchers : SearchOK(search[s]), Torn, Len(tables') \in {Len(tables), Len(tables) + 1},
         \A w \in Writers : writer'[w].pc \notin {"add", "remove"}
  PROVE  search' \in [Searchers -> Records] /\ \A s \in Searchers : SearchOK(search[s])'
<1>1. ASSUME NEW s \in Searchers
      PROVE  search'[s] \in Records /\ SearchOK(search[s])'
  <2> DEFINE r == search[s]
  <2>1. search'[s] = [r EXCEPT !.torn = TRUE]
    BY DEF Torn
  <2>2. r \in Records /\ SearchOK(r)
    BY DEF Types
  <2> HIDE DEF r
  <2>3. PICK z : z = search'[s]
    OBVIOUS
  <2>4. z \in Records /\ z.torn = TRUE /\ z.query = r.query /\ z.term = r.term /\ z.table = r.table /\ z.todo = r.todo
    BY <2>1, <2>2, <2>3 DEF Records
  <2>5. z.table \in 1..Len(tables')
    BY <2>2, <2>4, SlotsAre DEF SearchOK
  <2>6. SearchOK(z)'
    BY <2>2, <2>4, <2>5 DEF SearchOK
  <2> QED
    BY <2>3, <2>4, <2>6
<1> QED
  BY <1>1 DEF Torn

\* Where the index is as it was, what is known of a search is as it was.
LEMMA SameSearch ==
  ASSUME UNCHANGED index, Renumbered' <=> Renumbered, NEW r, SearchOK(r),
         \A w \in Writers : writer'[w].pc \in {"add", "remove"} => writer[w].pc \in {"add", "remove"}
  PROVE  SearchOK(r)'
<1>1. Slots' = Slots /\ Live' = Live /\ texts' = texts /\ tables' = tables
  BY DEF index, Slots, Live
<1>2. Scores(r)' <=> Scores(r)
  BY <1>1 DEF Scores
<1> QED
  BY <1>1, <1>2 DEF SearchOK

-----------------------------------------------------------------------------
(* Steps of the writers. *)

LEMMA Parts ==
  ASSUME IInv
  PROVE  Types /\ Locking /\ IndexOK /\ \A s \in Searchers : SearchOK(search[s])
BY DEF IInv

LEMMA Together ==
  ASSUME IndexTypes', lock' \in Writers \cup {NoWriter}, writer' \in [Writers -> Tasks],
         search' \in [Searchers -> Records], ops' \in 0..MaxOps, searches' \in 0..MaxSearches,
         Locking', IndexOK', \A s \in Searchers : SearchOK(search[s])'
  PROVE  IInv'
BY DEF IInv, Types, IndexTypes

LEMMA SameGrows == UNCHANGED index => Grows
BY DEF index, Grows, Slots

LEMMA BeginStep ==
  ASSUME IInv, NEW w \in Writers, NEW pc \in {"add", "remove"}, NEW todo, [pc |-> pc, todo |-> todo] \in Tasks,
         pc = "add" => todo \subseteq Docs \X Texts, Begin(w, pc, todo)
  PROVE  IInv' /\ DictStep
<1> DEFINE o == [pc |-> pc, todo |-> todo]
<1>1. /\ writer[w].pc = "idle" /\ lock = NoWriter /\ lock' = w /\ writer' = [writer EXCEPT ![w] = o]
      /\ ops < MaxOps /\ ops' = ops + 1 /\ Disturbed /\ UNCHANGED index /\ searches' = searches
  BY DEF Begin, Acquire
<1>2. o \in Tasks /\ o.pc = pc /\ o.todo = todo /\ o.pc \in Holding
  BY DEF Holding
<1> HIDE DEF o
<1>3. /\ Locking' /\ lock' \in Writers \cup {NoWriter} /\ writer' \in [Writers -> Tasks]
      /\ ~Renumbered /\ ~Renumbered' /\ ~Moving /\ ~Moving'
  BY <1>1, <1>2, Parts, WriterStep DEF Half
<1>4. IndexOK' /\ IndexTypes' /\ Content' = Content
  BY <1>1, <1>3, Parts, SameIndex
<1>5. search' \in [Searchers -> Records] /\ \A s \in Searchers : SearchOK(search[s])'
  BY <1>1, <1>3, Parts, SameGrows, DisturbedOK
<1>6. ops' \in 0..MaxOps /\ searches' \in 0..MaxSearches
  BY <1>1, Parts, Constants DEF Types
<1> QED
  BY <1>3, <1>4, <1>5, <1>6, Together DEF DictStep

LEMMA StartAddStep ==
  ASSUME IInv, NEW w \in Writers, StartAdd(w)
  PROVE  IInv' /\ DictStep
<1>0. PICK S \in SUBSET Docs : \E f \in [S -> Texts] : Begin(w, "add", {<<d, f[d]>> : d \in S})
  BY DEF StartAdd
<1>1. PICK f \in [S -> Texts] : Begin(w, "add", {<<d, f[d]>> : d \in S})
  BY <1>0
<1> DEFINE todo == {<<d, f[d]>> : d \in S}
<1>2. todo \subseteq Docs \X Texts
  OBVIOUS
<1>3. Begin(w, "add", todo)
  BY <1>1
<1> HIDE DEF todo
<1>4. [pc |-> "add", todo |-> todo] \in Tasks
  BY <1>2 DEF Tasks, Holding
<1> QED
  BY <1>2, <1>3, <1>4, BeginStep

LEMMA StartRemoveStep ==
  ASSUME IInv, NEW w \in Writers, StartRemove(w)
  PROVE  IInv' /\ DictStep
<1>1. PICK S \in SUBSET Docs : Begin(w, "remove", S)
  BY DEF StartRemove
<1>2. [pc |-> "remove", todo |-> S] \in Tasks
  BY DEF Tasks, Holding
<1> QED
  BY <1>1, <1>2, BeginStep

\* A writer in the middle of its work tombstones a slot.
LEMMA TombstoneStep ==
  ASSUME IInv, NEW w \in Writers, writer[w].pc \in {"add", "remove"}, NEW i \in Live, Tombstone(i),
         UNCHANGED <<lock, writer>>, Disturbed, UNCHANGED <<ops, searches>>
  PROVE  IInv' /\ DictStep
<1>1. /\ writer[w] \in Tasks /\ writer' = [writer EXCEPT ![w] = writer[w]]
      /\ writer[w].pc \in Holding /\ lock = w
      /\ writer[w].pc = "add" => writer[w].todo \subseteq Docs \X Texts
  BY Parts DEF Types, Locking, Holding
<1>2. /\ Locking' /\ lock' \in Writers \cup {NoWriter} /\ writer' \in [Writers -> Tasks]
      /\ ~Renumbered /\ ~Renumbered'
  BY <1>1, Parts, WriterStep DEF Half
<1>3. IndexOK' /\ IndexTypes' /\ Grows
  BY <1>2, Parts, TombstoneOK
<1>4. DictStep
  BY <1>2, <1>3, Parts, TombstoneDrops
<1>5. search' \in [Searchers -> Records] /\ \A s \in Searchers : SearchOK(search[s])'
  BY <1>2, <1>3, Parts, DisturbedOK
<1>6. ops' \in 0..MaxOps /\ searches' \in 0..MaxSearches
  BY Parts DEF Types
<1> QED
  BY <1>2, <1>3, <1>4, <1>5, <1>6, Together

LEMMA AddDocStep ==
  ASSUME IInv, NEW w \in Writers, AddDoc(w)
  PROVE  IInv' /\ DictStep
<1>1. writer[w].pc = "add" /\ Disturbed /\ UNCHANGED <<ops, searches>>
  BY DEF AddDoc
<1>2. PICK x \in writer[w].todo :
        \/ \E i \in Live : ids[i] = x[1] /\ Tombstone(i) /\ UNCHANGED <<lock, writer>>
        \/ /\ \A i \in Live : ids[i] # x[1]
           /\ AppendDoc(x[1], x[2])
           /\ IF writer[w].todo = {x} THEN Release(w, IdleWriter)
              ELSE writer' = [writer EXCEPT ![w].todo = @ \ {x}] /\ UNCHANGED lock
  BY DEF AddDoc
<1>3. CASE \E i \in Live : ids[i] = x[1] /\ Tombstone(i) /\ UNCHANGED <<lock, writer>>
  BY <1>1, <1>3, TombstoneStep
<1>4. CASE /\ \A i \in Live : ids[i] # x[1]
           /\ AppendDoc(x[1], x[2])
           /\ IF writer[w].todo = {x} THEN Release(w, IdleWriter)
              ELSE writer' = [writer EXCEPT ![w].todo = @ \ {x}] /\ UNCHANGED lock
  <2> DEFINE o == IF writer[w].todo = {x} THEN IdleWriter ELSE [writer[w] EXCEPT !.todo = @ \ {x}]
  <2>1. /\ writer[w] \in Tasks /\ writer[w].todo \subseteq Docs \X Texts /\ lock = w
        /\ x[1] \in Docs /\ x[2] \in Texts
    BY <1>1, Parts DEF Types, Locking, Holding
  <2>2. writer' = [writer EXCEPT ![w] = o] /\ lock' = IF o.pc \in Holding THEN w ELSE NoWriter
    BY <1>1, <1>4, <2>1 DEF Release, IdleWriter, Holding, Tasks
  <2>3. o \in Tasks /\ (o.pc = "add" => o.todo \subseteq Docs \X Texts) /\ o.pc \notin Half
    BY <1>1, <2>1 DEF Tasks, IdleWriter, Half, Holding
  <2> HIDE DEF o
  <2>4. /\ Locking' /\ lock' \in Writers \cup {NoWriter} /\ writer' \in [Writers -> Tasks]
        /\ ~Renumbered /\ ~Renumbered'
    BY <1>1, <2>1, <2>2, <2>3, Parts, WriterStep DEF Half
  <2>5. IndexOK' /\ IndexTypes' /\ Grows
    BY <1>4, <2>1, <2>4, Parts, AppendOK
  <2>6. DictStep
    BY <1>4, <2>1, <2>4, <2>5, Parts, AppendPuts
  <2>7. search' \in [Searchers -> Records] /\ \A s \in Searchers : SearchOK(search[s])'
    BY <1>1, <2>4, <2>5, Parts, DisturbedOK
  <2>8. ops' \in 0..MaxOps /\ searches' \in 0..MaxSearches
    BY <1>1, Parts DEF Types
  <2> QED
    BY <2>4, <2>5, <2>6, <2>7, <2>8, Together
<1> QED
  BY <1>2, <1>3, <1>4

LEMMA RemoveDocStep ==
  ASSUME IInv, NEW w \in Writers, RemoveDoc(w)
  PROVE  IInv' /\ DictStep
<1>1. writer[w].pc = "remove" /\ Disturbed /\ UNCHANGED <<ops, searches>>
  BY DEF RemoveDoc
<1>2. CASE \E i \in Live : ids[i] \in writer[w].todo /\ Tombstone(i) /\ UNCHANGED <<lock, writer>>
  BY <1>1, <1>2, TombstoneStep
<1>3. CASE Release(w, [pc |-> "ratio", todo |-> {}]) /\ UNCHANGED index
  <2> DEFINE o == [pc |-> "ratio", todo |-> {}]
  <2>1. o \in Tasks /\ o.pc = "ratio" /\ o.pc \notin Holding /\ o.pc \notin Half
    BY DEF Tasks, Holding, Half
  <2>2. writer' = [writer EXCEPT ![w] = o] /\ lock' = NoWriter
    BY <1>3 DEF Release
  <2>3. lock = w
    BY <1>1, Parts DEF Locking, Holding
  <2> HIDE DEF o
  <2>4. /\ Locking' /\ lock' \in Writers \cup {NoWriter} /\ writer' \in [Writers -> Tasks]
        /\ ~Renumbered /\ ~Renumbered' /\ ~Moving /\ ~Moving'
    BY <1>1, <2>1, <2>2, <2>3, Parts, WriterStep DEF Half
  <2>5. IndexOK' /\ IndexTypes' /\ Content' = Content
    BY <1>3, <2>4, Parts, SameIndex
  <2>6. search' \in [Searchers -> Records] /\ \A s \in Searchers : SearchOK(search[s])'
    BY <1>1, <1>3, <2>4, Parts, SameGrows, DisturbedOK
  <2>7. ops' \in 0..MaxOps /\ searches' \in 0..MaxSearches
    BY <1>1, Parts DEF Types
  <2> QED
    BY <2>4, <2>5, <2>6, <2>7, Together DEF DictStep
<1> QED
  BY <1>2, <1>3 DEF RemoveDoc

\* A writer without the lock goes on without it.
LEMMA UnlockedStep ==
  ASSUME IInv, NEW w \in Writers, writer[w].pc \in {"ratio", "compact"}, NEW pc \in {"idle", "compact"},
         writer' = [writer EXCEPT ![w].pc = pc], UNCHANGED <<lock, search, ops, searches>>, UNCHANGED index
  PROVE  IInv' /\ DictStep
<1>1. writer \in [Writers -> Tasks] /\ writer[w].pc \notin Holding
  BY Parts DEF Types, Holding
<1>2. /\ writer' \in [Writers -> Tasks]
      /\ \A v \in Writers : v # w => writer'[v] = writer[v]
      /\ writer'[w].pc = pc /\ pc \notin Holding
  BY <1>1 DEF Tasks, Holding
<1>3. Locking'
  BY <1>1, <1>2, Parts DEF Locking, Holding
<1>4. (Renumbered' <=> Renumbered) /\ (Moving' <=> Moving)
  BY <1>1, <1>2 DEF Renumbered, Moving, Holding
<1>5. \A v \in Writers : writer'[v].pc \in {"add", "remove"} => writer[v].pc \in {"add", "remove"}
  BY <1>2
<1>6. IndexOK' /\ IndexTypes' /\ Content' = Content
  BY <1>4, Parts, SameIndex
<1>7. ASSUME NEW s \in Searchers
      PROVE  SearchOK(search[s])'
  <2>1. PICK r : r = search[s]
    OBVIOUS
  <2>2. SearchOK(r)'
    BY <1>4, <1>5, <2>1, Parts, SameSearch
  <2> QED
    BY <2>1, <2>2
<1> QED
  BY <1>2, <1>3, <1>6, <1>7, Parts, Together DEF DictStep, Types

LEMMA CheckRatioStep ==
  ASSUME IInv, NEW w \in Writers, CheckRatio(w)
  PROVE  IInv' /\ DictStep
<1> DEFINE pc == IF Cardinality(deleted) * CompactOver > Len(ids) THEN "compact" ELSE "idle"
<1>1. /\ writer[w].pc = "ratio" /\ writer' = [writer EXCEPT ![w].pc = pc]
      /\ UNCHANGED <<lock, search, ops, searches>> /\ UNCHANGED index
  BY DEF CheckRatio
<1>2. pc \in {"idle", "compact"}
  OBVIOUS
<1> HIDE DEF pc
<1> QED
  BY <1>1, <1>2, UnlockedStep

LEMMA CompactNothingStep ==
  ASSUME IInv, NEW w \in Writers, CompactNothing(w)
  PROVE  IInv' /\ DictStep
<1>1. /\ writer[w].pc = "compact" /\ lock = NoWriter /\ writer' = [writer EXCEPT ![w] = IdleWriter]
      /\ UNCHANGED <<lock, search, ops, searches>> /\ UNCHANGED index
  BY DEF CompactNothing
<1>2. IdleWriter \in Tasks /\ IdleWriter.pc = "idle" /\ IdleWriter.pc \notin Holding
  BY DEF IdleWriter, Tasks, Holding
<1>3. /\ Locking' /\ lock' \in Writers \cup {NoWriter} /\ writer' \in [Writers -> Tasks]
      /\ ~Renumbered /\ ~Renumbered' /\ ~Moving /\ ~Moving'
      /\ \A v \in Writers : writer'[v].pc \notin {"add", "remove"}
  BY <1>1, <1>2, Parts, WriterStep DEF Half, Holding
<1>4. IndexOK' /\ IndexTypes' /\ Content' = Content
  BY <1>1, <1>3, Parts, SameIndex
<1>5. ASSUME NEW s \in Searchers
      PROVE  SearchOK(search[s])'
  <2>1. PICK r : r = search[s]
    OBVIOUS
  <2>2. SearchOK(r)'
    BY <1>1, <1>3, <2>1, Parts, SameSearch
  <2> QED
    BY <1>1, <2>1, <2>2
<1> QED
  BY <1>1, <1>3, <1>4, <1>5, Parts, Together DEF DictStep, Types

LEMMA CompactIdsStep ==
  ASSUME IInv, NEW w \in Writers, CompactIds(w)
  PROVE  IInv' /\ DictStep
<1> DEFINE o == [pc |-> "postings", todo |-> {}]
<1>1. /\ writer[w].pc = "compact" /\ lock = NoWriter /\ lock' = w /\ writer' = [writer EXCEPT ![w] = o]
      /\ Torn /\ UNCHANGED <<tables, ops, searches>>
  BY DEF CompactIds, Acquire
<1>2. o \in Tasks /\ o.pc = "postings" /\ o.pc \in Holding /\ o.pc \in Half
  BY DEF Tasks, Holding, Half
<1> HIDE DEF o
<1>3. /\ Locking' /\ lock' \in Writers \cup {NoWriter} /\ writer' \in [Writers -> Tasks]
      /\ ~Renumbered /\ Moving'
      /\ \A v \in Writers : writer'[v].pc \notin {"add", "remove"}
  BY <1>1, <1>2, Parts, WriterStep DEF Half, Holding
<1>4. IndexOK' /\ IndexTypes' /\ Content' = Content
  BY <1>3, Parts, CompactIdsOK
<1>5. search' \in [Searchers -> Records] /\ \A s \in Searchers : SearchOK(search[s])'
  BY <1>1, <1>3, Parts, TornOK
<1> QED
  BY <1>1, <1>3, <1>4, <1>5, Parts, Together DEF DictStep, Types

LEMMA CompactPostingsStep ==
  ASSUME IInv, NEW w \in Writers, CompactPostings(w)
  PROVE  IInv' /\ DictStep
<1> DEFINE o == [writer[w] EXCEPT !.pc = "tombstones"]
<1>1. /\ writer[w].pc = "postings" /\ lock' = lock /\ writer' = [writer EXCEPT ![w] = o]
      /\ Torn /\ UNCHANGED <<ops, searches>>
  BY DEF CompactPostings
<1>2. writer[w] \in Tasks /\ lock = w
  BY <1>1, Parts DEF Types, Locking, Holding
<1>3. o \in Tasks /\ o.pc = "tombstones" /\ o.pc \in Holding /\ o.pc \in Half
  BY <1>2 DEF Tasks, Holding, Half
<1> HIDE DEF o
<1>4. /\ Locking' /\ lock' \in Writers \cup {NoWriter} /\ writer' \in [Writers -> Tasks]
      /\ Moving /\ ~Moving' /\ Renumbered'
      /\ \A v \in Writers : writer'[v].pc \notin {"add", "remove"}
  BY <1>1, <1>2, <1>3, Parts, WriterStep DEF Half, Holding
<1>5. IndexOK' /\ IndexTypes' /\ Content' = Content
  BY <1>4, Parts, CompactPostingsOK
<1>6. Len(tables') = Len(tables) + 1
  <2>1. tables' = Append(tables, [t \in Terms |-> Renumber(Postings[t] \ deleted)])
    BY DEF CompactPostings
  <2>2. PICK S, x : tables \in Seq(S) /\ tables' = Append(tables, x)
    BY <2>1, Parts DEF Types
  <2> QED
    BY <2>2
<1>7. search' \in [Searchers -> Records] /\ \A s \in Searchers : SearchOK(search[s])'
  BY <1>1, <1>4, <1>6, Parts, TornOK
<1> QED
  BY <1>1, <1>4, <1>5, <1>7, Parts, Together DEF DictStep, Types

LEMMA CompactDeletedStep ==
  ASSUME IInv, NEW w \in Writers, CompactDeleted(w)
  PROVE  IInv' /\ DictStep
<1>1. /\ writer[w].pc = "tombstones" /\ lock' = NoWriter /\ writer' = [writer EXCEPT ![w] = IdleWriter]
      /\ Torn /\ UNCHANGED <<tables, ops, searches>>
  BY DEF CompactDeleted, Release
<1>2. IdleWriter \in Tasks /\ IdleWriter.pc = "idle" /\ IdleWriter.pc \notin Holding /\ lock = w
  BY <1>1, Parts DEF IdleWriter, Tasks, Holding, Locking
<1>3. /\ Locking' /\ lock' \in Writers \cup {NoWriter} /\ writer' \in [Writers -> Tasks]
      /\ Renumbered /\ ~Moving /\ ~Renumbered'
      /\ \A v \in Writers : writer'[v].pc \notin {"add", "remove"}
  BY <1>1, <1>2, Parts, WriterStep DEF Half, Holding
<1>4. IndexOK' /\ IndexTypes' /\ Content' = Content
  BY <1>3, Parts, CompactDeletedOK
<1>5. search' \in [Searchers -> Records] /\ \A s \in Searchers : SearchOK(search[s])'
  BY <1>1, <1>3, Parts, TornOK
<1> QED
  BY <1>1, <1>3, <1>4, <1>5, Parts, Together DEF DictStep, Types

LEMMA IdleIs == IdleSearch \in Records /\ IdleSearch.pc = "idle" /\ IdleSearch.table = 1
                /\ IdleSearch.term = {} /\ IdleSearch.todo = {} /\ IdleSearch.scored = {}
BY DEF IdleSearch, Records

LEMMA ReloadStep ==
  ASSUME IInv, Reload
  PROVE  IInv' /\ DictStep
<1>1. /\ ops < MaxOps /\ ops' = ops + 1 /\ lock = NoWriter /\ UNCHANGED <<lock, searches>>
      /\ writer' = [w \in Writers |-> IdleWriter] /\ search' = [s \in Searchers |-> IdleSearch]
      /\ tables' = <<Postings>>
  BY DEF Reload
<1>2. /\ IdleWriter \in Tasks /\ IdleWriter.pc \notin Holding /\ IdleWriter.pc = "idle"
  BY DEF IdleWriter, Tasks, Holding
<1>3. /\ Locking' /\ writer' \in [Writers -> Tasks] /\ ~Renumbered /\ ~Renumbered' /\ Len(tables') = 1
      /\ \A w \in Writers : writer'[w].pc = "idle"
  <2>1. Locking' /\ writer' \in [Writers -> Tasks] /\ ~Renumbered'
    BY <1>1, <1>2, Constants DEF Locking, Renumbered
  <2>2. ~Renumbered
    BY <1>1, Parts, Constants DEF Locking, Renumbered, Holding
  <2> QED
    BY <1>1, <1>2, <2>1, <2>2
<1>4. IndexOK' /\ IndexTypes' /\ Content' = Content
  BY <1>3, Parts, ReloadOK
<1>5. SearchOK(IdleSearch)'
  BY <1>3, IdleIs DEF SearchOK
<1>6. ops' \in 0..MaxOps /\ searches' \in 0..MaxSearches /\ search' \in [Searchers -> Records]
      /\ lock' \in Writers \cup {NoWriter}
  BY <1>1, Parts, Constants, IdleIs DEF Types
<1>7. ASSUME NEW s \in Searchers
      PROVE  SearchOK(search[s])'
  BY <1>1, <1>5
<1> QED
  BY <1>3, <1>4, <1>6, <1>7, Together DEF DictStep

-----------------------------------------------------------------------------
(* Steps of the searches. *)

LEMMA SearchStep ==
  ASSUME IInv, NEW s \in Searchers, NEW z \in Records, Searching(s, z), SearchOK(z),
         searches' \in 0..MaxSearches
  PROVE  IInv' /\ DictStep
<1>1. search' = [search EXCEPT ![s] = z] /\ UNCHANGED <<lock, writer, ops>> /\ UNCHANGED index
  BY DEF Searching
<1>2. search' \in [Searchers -> Records] /\ \A x \in Searchers : search'[x] = IF x = s THEN z ELSE search[x]
  BY <1>1, Parts DEF Types
<1>3. (Renumbered' <=> Renumbered) /\ (Moving' <=> Moving) /\ Locking'
  BY <1>1, Parts DEF Renumbered, Moving, Locking
<1>4. IndexOK' /\ IndexTypes' /\ Content' = Content
  BY <1>1, <1>3, Parts, SameIndex
<1>5. ASSUME NEW x \in Searchers
      PROVE  SearchOK(search[x])'
  <2>1. PICK r : r = search'[x]
    OBVIOUS
  <2>2. SearchOK(r)
    BY <1>2, <2>1, Parts
  <2>3. SearchOK(r)'
    BY <1>1, <1>3, <2>2, SameSearch
  <2> QED
    BY <2>1, <2>3
<1> QED
  BY <1>1, <1>2, <1>3, <1>4, <1>5, Parts, Together DEF DictStep, Types

LEMMA StartSearchStep ==
  ASSUME IInv, NEW s \in Searchers, StartSearch(s)
  PROVE  IInv' /\ DictStep
<1>1. searches' = searches + 1 /\ searches < MaxSearches
  BY DEF StartSearch
<1>2. PICK q \in Queries : Searching(s, [IdleSearch EXCEPT
         !.pc = IF Len(ids) = Cardinality(deleted) THEN "rank" ELSE "terms",
         !.query = q, !.todo = q,
         !.quiet = \A w \in Writers : writer[w].pc \notin {"add", "remove"},
         !.torn = \E w \in Writers : writer[w].pc \in {"postings", "tombstones"}])
  BY DEF StartSearch
<1>3. PICK quiet \in BOOLEAN : quiet <=> \A w \in Writers : writer[w].pc \notin {"add", "remove"}
  OBVIOUS
<1>4. PICK torn \in BOOLEAN : torn <=> Renumbered
  OBVIOUS
<1> DEFINE pc == IF Len(ids) = Cardinality(deleted) THEN "rank" ELSE "terms"
           z == [IdleSearch EXCEPT !.pc = pc, !.query = q, !.todo = q, !.quiet = quiet, !.torn = torn]
<1>5. Searching(s, z)
  <2>1. /\ (\A w \in Writers : writer[w].pc \notin {"add", "remove"}) = quiet
        /\ (\E w \in Writers : writer[w].pc \in {"postings", "tombstones"}) = torn
    BY <1>3, <1>4 DEF Renumbered
  <2> QED
    BY <1>2, <2>1
<1>6. q \subseteq Terms
  BY Constants
<1>7. /\ z \in Records /\ z.pc = pc /\ z.query = q /\ z.todo = q /\ z.quiet = quiet /\ z.torn = torn
      /\ z.term = {} /\ z.table = 1 /\ z.scored = {}
  BY <1>6 DEF IdleSearch, Records
<1>8. pc \in {"rank", "terms"}
  OBVIOUS
<1>9. pc = "rank" /\ ~Renumbered => Live = {}
  <2> SUFFICES ASSUME Len(ids) = Cardinality(deleted), ~Renumbered PROVE Live = {}
    OBVIOUS
  <2>1. deleted \subseteq Slots
    BY Parts DEF IndexOK, Tombs
  <2>2. IsFiniteSet(Slots) /\ Slots = 1..Len(ids) /\ Len(ids) \in Nat
    BY Parts, SlotsAre
  <2>3. Cardinality(Slots) = Len(ids)
    BY <2>2, FS_Interval
  <2>4. deleted = Slots
    BY <2>1, <2>2, <2>3, FS_Subset
  <2> QED
    BY <2>4 DEF Live
<1> HIDE DEF z, pc
<1>10. Scores(z) \/ Renumbered
  BY <1>7, <1>8, <1>9 DEF Scores
<1>11. SearchOK(z)
  <2>1. z.table \in 1..Len(tables)
    BY <1>7, Parts, SlotsAre
  <2> QED
    BY <1>3, <1>4, <1>7, <1>8, <1>9, <1>10, <2>1 DEF SearchOK
<1>12. searches' \in 0..MaxSearches
  BY <1>1, Parts, Constants DEF Types
<1> QED
  BY <1>5, <1>7, <1>11, <1>12, SearchStep

\* A search that nobody disturbed and no compaction tore sees the index as it is.
LEMMA Undisturbed ==
  ASSUME IInv, ~Renumbered
  PROVE  /\ \A t \in Terms : Postings[t] = Having(t)
         /\ \A t \in Terms : df[t] = 0 => \A i \in Live : t \notin texts[i]
         /\ Standing = Live /\ Live \subseteq Slots /\ Slots \subseteq Nat \ {0}
<1>1. ~Moving /\ Standing = Live /\ IsFiniteSet(Live) /\ Live \subseteq Slots /\ Slots = 1..Len(ids)
  BY Parts, SlotsAre, Phases
<1>2. ASSUME NEW t \in Terms, df[t] = 0
      PROVE  \A i \in Live : t \notin texts[i]
  <2> DEFINE H == {i \in Live : t \in texts[i]}
  <2>1. Cardinality(H) = 0
    BY <1>1, <1>2, Parts DEF IndexOK, Counted
  <2>2. IsFiniteSet(H)
    BY <1>1, FS_Subset
  <2>3. H = {}
    BY <2>1, <2>2, FS_EmptySet
  <2> QED
    BY <2>3
<1> QED
  BY <1>1, <1>2, Parts DEF IndexOK, Listed

LEMMA NextTermStep ==
  ASSUME IInv, NEW s \in Searchers, NextTerm(s)
  PROVE  IInv' /\ DictStep
<1> DEFINE r == search[s]
<1>1. r \in Records /\ SearchOK(r) /\ r.pc = "terms" /\ searches' \in 0..MaxSearches
  BY Parts DEF NextTerm, Types
<1>2. ASSUME NEW t \in r.todo,
             Searching(s, [r EXCEPT
               !.todo = @ \ {t},
               !.pc = IF Postings[t] = {} \/ df[t] = 0 THEN "terms" ELSE "postings",
               !.table = Len(tables), !.term = {t}, !.at = 0])
      PROVE  IInv' /\ DictStep
  <2> DEFINE pc == IF Postings[t] = {} \/ df[t] = 0 THEN "terms" ELSE "postings"
             z == [r EXCEPT !.todo = @ \ {t}, !.pc = pc, !.table = Len(tables), !.term = {t}, !.at = 0]
  <2>1. Searching(s, z)
    BY <1>2
  <2>2. Len(tables) \in Nat \ {0} /\ t \in Terms /\ pc \in {"terms", "postings"}
    BY <1>1, Parts, SlotsAre DEF Records
  <2>3. pc = "terms" => Postings[t] = {} \/ df[t] = 0
    OBVIOUS
  <2> HIDE DEF pc, r
  <2>4. /\ z \in Records /\ z.pc = pc /\ z.query = r.query /\ z.todo = r.todo \ {t} /\ z.quiet = r.quiet
        /\ z.torn = r.torn /\ z.term = {t} /\ z.table = Len(tables) /\ z.at = 0 /\ z.scored = r.scored
    BY <1>1, <2>2 DEF Records
  <2> HIDE DEF z
  <2>5. ASSUME ~r.torn, r.quiet
        PROVE  Scores(z)
    <3>1. ~Renumbered /\ r.scored = {i \in Live : texts[i] \cap (r.query \ r.todo) # {}}
      BY <1>1, <2>5 DEF SearchOK, Scores
    <3>2. t \in r.query /\ t \in r.todo
      BY <1>1, <1>2 DEF SearchOK
    <3>3. CASE pc = "postings"
      <4>1. r.query \ (z.todo \cup z.term) = r.query \ r.todo
        BY <2>4, <3>2
      <4>2. \A i \in Live : ~(i <= z.at)
        BY <2>4, <3>1, Undisturbed
      <4> QED
        BY <2>4, <3>1, <3>3, <4>1, <4>2 DEF Scores
    <3>4. CASE pc = "terms"
      <4>1. \A i \in Live : t \notin texts[i]
        <5>1. \A i \in Live : i \in Slots
          BY <3>1, Undisturbed
        <5>2. Postings[t] = {} => \A i \in Slots : t \notin texts[i]
          BY <2>2, <3>1, Undisturbed DEF Having
        <5> QED
          BY <2>2, <2>3, <3>1, <3>4, <5>1, <5>2, Undisturbed
      <4>2. r.query \ z.todo = (r.query \ r.todo) \cup {t}
        BY <2>4, <3>2
      <4>3. \A i \in Live : texts[i] \cap (r.query \ z.todo) # {} <=> texts[i] \cap (r.query \ r.todo) # {}
        BY <4>1, <4>2
      <4> QED
        BY <2>4, <3>1, <3>4, <4>3 DEF Scores
    <3> QED
      BY <2>2, <3>3, <3>4
  <2>6. SearchOK(z)
    BY <1>1, <1>2, <2>2, <2>4, <2>5 DEF SearchOK
  <2> QED
    BY <1>1, <2>1, <2>4, <2>6, SearchStep
<1>3. ASSUME r.todo = {}, Searching(s, [r EXCEPT !.pc = "rank"])
      PROVE  IInv' /\ DictStep
  <2> DEFINE z == [r EXCEPT !.pc = "rank"]
  <2>1. Searching(s, z)
    BY <1>3
  <2> HIDE DEF r
  <2>2. /\ z \in Records /\ z.pc = "rank" /\ z.query = r.query /\ z.todo = {} /\ z.quiet = r.quiet
        /\ z.torn = r.torn /\ z.term = r.term /\ z.table = r.table /\ z.scored = r.scored
    BY <1>1, <1>3 DEF Records
  <2> HIDE DEF z
  <2>3. Scores(r) => Scores(z)
    BY <1>1, <1>3, <2>2 DEF Scores
  <2>4. SearchOK(z)
    BY <1>1, <2>2, <2>3 DEF SearchOK
  <2> QED
    BY <1>1, <2>1, <2>2, <2>4, SearchStep
<1> QED
  BY <1>2, <1>3 DEF NextTerm

\* What is left of the posting list a search is at.
Rest(r) == {i \in UNION {tables[r.table][t] : t \in r.term} : i > r.at}

\* Untorn, these are slots that hold the term.
LEMMA RestIs ==
  ASSUME IInv, NEW r \in Records, SearchOK(r)
  PROVE  /\ Rest(r) \subseteq Nat
         /\ Rest(r) # {} => Min(Rest(r)) \in Rest(r) /\ \A i \in Rest(r) : Min(Rest(r)) <= i
         /\ ~r.torn /\ r.pc = "postings" => Rest(r) = {i \in Slots : texts[i] \cap r.term # {} /\ i > r.at}
<1>1. r.table \in 1..Len(tables) /\ r.term \subseteq Terms
  BY DEF SearchOK, Records
<1>2. tables[r.table] \in [Terms -> SUBSET Nat]
  <2>1. DOMAIN tables = 1..Len(tables) /\ tables \in Seq([Terms -> SUBSET Nat])
    BY Parts, SlotsAre DEF Types
  <2> QED
    BY <1>1, <2>1
<1>3. Rest(r) \subseteq Nat
  BY <1>1, <1>2 DEF Rest
<1>4. Rest(r) # {} => Min(Rest(r)) \in Rest(r) /\ \A i \in Rest(r) : Min(Rest(r)) <= i
  <2>1. Rest(r) # {} => \E m \in Rest(r) : \A n \in Rest(r) : m <= n
    BY <1>3, Least
  <2> QED
    BY <2>1 DEF Min
<1>5. ASSUME ~r.torn, r.pc = "postings"
      PROVE  Rest(r) = {i \in Slots : texts[i] \cap r.term # {} /\ i > r.at}
  <2>1. ~Renumbered /\ r.table = Len(tables)
    BY <1>5 DEF SearchOK
  <2>2. \A t \in r.term : tables[r.table][t] = {i \in Slots : t \in texts[i]}
    BY <1>1, <2>1, Undisturbed DEF Having, Postings
  <2> QED
    BY <2>2 DEF Rest
<1> QED
  BY <1>3, <1>4, <1>5

LEMMA NextPostingStep ==
  ASSUME IInv, NEW s \in Searchers, NextPosting(s)
  PROVE  IInv' /\ DictStep
<1> DEFINE r == search[s]
           list == Rest(r)
           m == Min(list)
<1>1. /\ r \in Records /\ SearchOK(r) /\ r.pc = "postings" /\ searches' \in 0..MaxSearches
      /\ r.at \in Nat /\ r.term \subseteq r.query /\ r.scored \subseteq Nat
  BY Parts DEF NextPosting, Types, Records, SearchOK
<1>2. \/ list = {} /\ Searching(s, [r EXCEPT !.pc = "terms"])
      \/ list # {} /\ Dead(m) /\ Searching(s, [r EXCEPT !.at = m])
      \/ /\ list # {} /\ ~Dead(m)
         /\ Searching(s, IF m \in Slots THEN [r EXCEPT !.at = m, !.scored = @ \cup {m}]
                         ELSE [r EXCEPT !.pc = "raised"])
  BY DEF NextPosting, Rest
<1> HIDE DEF r
<1>3. /\ list \subseteq Nat
      /\ list # {} => m \in list /\ \A i \in list : m <= i
      /\ ~r.torn => list = {i \in Slots : texts[i] \cap r.term # {} /\ i > r.at}
  BY <1>1, RestIs
<1>4. list # {} => m > r.at
  BY <1>3 DEF Rest
<1> HIDE DEF list, m
<1>5. ~r.torn => ~Renumbered /\ Live \subseteq Slots /\ Slots \subseteq Nat
  BY <1>1, Undisturbed DEF SearchOK
<1>6. ~r.torn /\ r.quiet => /\ r.scored = {i \in Live : \/ texts[i] \cap (r.query \ (r.todo \cup r.term)) # {}
                                                        \/ texts[i] \cap r.term # {} /\ i <= r.at}
                            /\ r.todo \cap r.term = {}
  BY <1>1 DEF SearchOK, Scores
<1>7. ASSUME list = {}, Searching(s, [r EXCEPT !.pc = "terms"])
      PROVE  IInv' /\ DictStep
  <2> DEFINE z == [r EXCEPT !.pc = "terms"]
  <2>1. /\ z \in Records /\ z.pc = "terms" /\ z.query = r.query /\ z.todo = r.todo /\ z.quiet = r.quiet
        /\ z.torn = r.torn /\ z.term = r.term /\ z.table = r.table /\ z.scored = r.scored
    BY <1>1 DEF Records
  <2>2. Searching(s, z)
    BY <1>7
  <2> HIDE DEF z
  <2>3. ASSUME ~r.torn, r.quiet
        PROVE  Scores(z)
    <3>1. \A i \in Live : texts[i] \cap r.term # {} => i <= r.at
      BY <1>1, <1>3, <1>5, <1>7, <2>3
    <3>2. r.query \ r.todo = (r.query \ (r.todo \cup r.term)) \cup r.term
      BY <1>1, <1>6, <2>3
    <3>3. \A i \in Live : (texts[i] \cap (r.query \ r.todo) # {}) <=>
                          \/ texts[i] \cap (r.query \ (r.todo \cup r.term)) # {}
                          \/ texts[i] \cap r.term # {}
      BY <3>2
    <3> QED
      BY <1>6, <2>1, <2>3, <3>1, <3>3 DEF Scores
  <2>4. SearchOK(z)
    BY <1>1, <2>1, <2>3 DEF SearchOK
  <2> QED
    BY <1>1, <2>1, <2>2, <2>4, SearchStep
<1>8. ASSUME list # {}, Dead(m), Searching(s, [r EXCEPT !.at = m])
      PROVE  IInv' /\ DictStep
  <2> DEFINE z == [r EXCEPT !.at = m]
  <2>0. m \in Nat
    BY <1>3, <1>8
  <2>1. /\ z \in Records /\ z.pc = "postings" /\ z.query = r.query /\ z.todo = r.todo /\ z.quiet = r.quiet
        /\ z.torn = r.torn /\ z.term = r.term /\ z.table = r.table /\ z.scored = r.scored /\ z.at = m
    BY <1>1, <2>0 DEF Records
  <2>2. Searching(s, z)
    BY <1>8
  <2> HIDE DEF z
  <2>3. ASSUME ~r.torn, r.quiet
        PROVE  Scores(z)
    <3>1. m \notin Live
      BY <1>8 DEF Dead, Live
    <3>2. ASSUME NEW i \in Live, texts[i] \cap r.term # {}
          PROVE  i <= m <=> i <= r.at
      <4>1. i \in Nat /\ i # m /\ (i > r.at => m <= i)
        BY <1>3, <1>5, <1>8, <2>3, <3>1, <3>2
      <4> QED
        BY <1>1, <1>4, <1>8, <2>0, <4>1
    <3> QED
      BY <1>6, <2>1, <2>3, <3>2 DEF Scores
  <2>4. SearchOK(z)
    BY <1>1, <1>6, <2>1, <2>3 DEF SearchOK
  <2> QED
    BY <1>1, <2>1, <2>2, <2>4, SearchStep
<1>9. ASSUME list # {}, ~Dead(m), m \in Slots, Searching(s, [r EXCEPT !.at = m, !.scored = @ \cup {m}])
      PROVE  IInv' /\ DictStep
  <2> DEFINE z == [r EXCEPT !.at = m, !.scored = @ \cup {m}]
  <2>0. m \in Nat /\ m \in list
    BY <1>3, <1>9
  <2>1. /\ z \in Records /\ z.pc = "postings" /\ z.query = r.query /\ z.todo = r.todo /\ z.quiet = r.quiet
        /\ z.torn = r.torn /\ z.term = r.term /\ z.table = r.table /\ z.scored = r.scored \cup {m} /\ z.at = m
    BY <1>1, <2>0 DEF Records
  <2>2. Searching(s, z)
    BY <1>9
  <2> HIDE DEF z
  <2>3. ~r.torn => texts[m] \cap r.term # {} /\ texts[m] \cap r.query # {}
    BY <1>1, <1>3, <2>0
  <2>4. ASSUME ~r.torn, r.quiet
        PROVE  Scores(z)
    <3>1. m \in Live
      BY <1>9 DEF Dead, Live
    <3>2. ASSUME NEW i \in Live, texts[i] \cap r.term # {}
          PROVE  i <= m <=> i <= r.at \/ i = m
      <4>1. i \in Nat /\ (i > r.at => m <= i)
        BY <1>3, <1>5, <1>9, <2>4, <3>2
      <4> QED
        BY <1>1, <1>4, <1>9, <2>0, <4>1
    <3>3. \A i : i \in r.scored \cup {m} <=>
            i \in Live /\ \/ texts[i] \cap (r.query \ (r.todo \cup r.term)) # {}
                          \/ texts[i] \cap r.term # {} /\ i <= m
      BY <1>6, <2>0, <2>3, <2>4, <3>1, <3>2
    <3> QED
      BY <2>1, <3>3 DEF Scores
  <2>5. \A i \in z.scored : i \in r.scored \/ i = m
    BY <2>1
  <2>6. SearchOK(z)
    BY <1>1, <1>6, <1>9, <2>1, <2>3, <2>4, <2>5 DEF SearchOK
  <2> QED
    BY <1>1, <2>1, <2>2, <2>6, SearchStep
<1>10. ASSUME list # {}, m \notin Slots, Searching(s, [r EXCEPT !.pc = "raised"])
       PROVE  IInv' /\ DictStep
  <2> DEFINE z == [r EXCEPT !.pc = "raised"]
  <2>1. /\ z \in Records /\ z.pc = "raised" /\ z.query = r.query /\ z.todo = r.todo /\ z.quiet = r.quiet
        /\ z.torn = r.torn /\ z.term = r.term /\ z.table = r.table /\ z.scored = r.scored
    BY <1>1 DEF Records
  <2>2. Searching(s, z)
    BY <1>10
  <2> HIDE DEF z
  <2>3. r.torn
    BY <1>3, <1>10
  <2>4. SearchOK(z)
    BY <1>1, <2>1, <2>3 DEF SearchOK
  <2> QED
    BY <1>1, <2>1, <2>2, <2>4, SearchStep
<1> QED
  BY <1>2, <1>7, <1>8, <1>9, <1>10

LEMMA RankStep ==
  ASSUME IInv, NEW s \in Searchers, Rank(s)
  PROVE  IInv' /\ DictStep
<1> DEFINE r == search[s]
           found == {ids[i] : i \in r.scored}
<1>1. r \in Records /\ SearchOK(r) /\ r.pc = "rank" /\ searches' \in 0..MaxSearches
  BY Parts DEF Rank, Types
<1>2. Searching(s, IF r.scored \subseteq Slots THEN [r EXCEPT !.pc = "done", !.found = found]
                   ELSE [r EXCEPT !.pc = "raised"])
  BY DEF Rank
<1>3. r.scored \subseteq Slots => found \subseteq Docs
  BY Parts, SlotsAre
<1> HIDE DEF r, found
<1>4. ASSUME r.scored \subseteq Slots, Searching(s, [r EXCEPT !.pc = "done", !.found = found])
      PROVE  IInv' /\ DictStep
  <2> DEFINE z == [r EXCEPT !.pc = "done", !.found = found]
  <2>1. /\ z \in Records /\ z.pc = "done" /\ z.query = r.query /\ z.todo = r.todo /\ z.quiet = r.quiet
        /\ z.torn = r.torn /\ z.term = r.term /\ z.table = r.table /\ z.scored = r.scored
    BY <1>1, <1>3, <1>4 DEF Records
  <2>2. Searching(s, z)
    BY <1>4
  <2> HIDE DEF z
  <2>3. SearchOK(z)
    BY <1>1, <2>1 DEF SearchOK
  <2> QED
    BY <1>1, <2>1, <2>2, <2>3, SearchStep
<1>5. ASSUME Searching(s, [r EXCEPT !.pc = "raised"])
      PROVE  IInv' /\ DictStep
  <2> DEFINE z == [r EXCEPT !.pc = "raised"]
  <2>1. /\ z \in Records /\ z.pc = "raised" /\ z.query = r.query /\ z.todo = r.todo /\ z.quiet = r.quiet
        /\ z.torn = r.torn /\ z.term = r.term /\ z.table = r.table /\ z.scored = r.scored
    BY <1>1 DEF Records
  <2>2. Searching(s, z)
    BY <1>5
  <2> HIDE DEF z
  <2>3. SearchOK(z)
    BY <1>1, <2>1 DEF SearchOK
  <2> QED
    BY <1>1, <2>1, <2>2, <2>3, SearchStep
<1> QED
  BY <1>2, <1>4, <1>5

-----------------------------------------------------------------------------
(* The invariant holds in every reachable state. *)

LEMMA InitInv ==
  ASSUME Init
  PROVE  IInv /\ Dict!Init
<1>1. /\ ids = <<>> /\ texts = <<>> /\ tables = <<[t \in Terms |-> {}]>> /\ deleted = {}
      /\ df = [t \in Terms |-> 0] /\ totalLen = 0 /\ lock = NoWriter
      /\ writer = [w \in Writers |-> IdleWriter] /\ search = [s \in Searchers |-> IdleSearch]
      /\ ops = 0 /\ searches = 0
  BY DEF Init
<1>2. /\ ids \in Seq(Docs) /\ texts \in Seq(Texts) /\ Len(ids) = 0 /\ Len(texts) = 0
      /\ tables \in Seq([Terms -> SUBSET Nat]) /\ tables # <<>> /\ Len(tables) = 1
  BY <1>1
<1>3. IdleWriter \in Tasks /\ IdleWriter.pc = "idle" /\ IdleWriter.pc \notin Holding
  BY DEF IdleWriter, Tasks, Holding
<1>4. Types
  BY <1>1, <1>2, <1>3, IdleIs, Constants DEF Types
<1>5. Locking /\ ~Renumbered /\ ~Moving
  BY <1>1, <1>3, Constants DEF Locking, Renumbered, Moving
<1>6. Slots = {} /\ Live = {} /\ Standing = {}
  BY <1>2, <1>5 DEF Slots, Live, Standing
<1>7. Summed
  <2>1. Pairs(texts, {}) = {}
    BY DEF Pairs
  <2>2. SumOfLens(Live) = 0
    BY <1>6, <2>1, SumIs, FS_EmptySet
  <2> QED
    BY <1>1, <2>2 DEF Summed
<1>8. Listed
  <2>1. Postings = [t \in Terms |-> {}]
    BY <1>1 DEF Postings
  <2> QED
    BY <1>5, <1>6, <2>1 DEF Listed, Having
<1>9. Counted
  <2>1. \A t \in Terms : {i \in Standing : t \in texts[i]} = {}
    BY <1>6
  <2> QED
    BY <1>1, <2>1, FS_EmptySet DEF Counted
<1>10. IndexOK
  BY <1>1, <1>6, <1>7, <1>8, <1>9 DEF IndexOK, Unique, Tombs
<1>11. SearchOK(IdleSearch)
  BY <1>2, <1>5, IdleIs, <1>1, <1>3 DEF SearchOK
<1>12. IInv
  BY <1>1, <1>4, <1>5, <1>10, <1>11 DEF IInv
<1> QED
  BY <1>4, <1>10, <1>12, ContentType DEF Dict!Init

LEMMA NextInv ==
  ASSUME IInv, [Next]_vars
  PROVE  IInv' /\ DictStep
<1>1. ASSUME NEW w \in Writers, Write(w)
      PROVE  IInv' /\ DictStep
  BY <1>1, StartAddStep, AddDocStep, StartRemoveStep, RemoveDocStep, CheckRatioStep, CompactNothingStep,
     CompactIdsStep, CompactPostingsStep, CompactDeletedStep DEF Write
<1>2. ASSUME NEW s \in Searchers, Search(s)
      PROVE  IInv' /\ DictStep
  BY <1>2, StartSearchStep, NextTermStep, NextPostingStep, RankStep DEF Search
<1>3. ASSUME UNCHANGED vars
      PROVE  IInv' /\ DictStep
  <2>1. UNCHANGED index /\ UNCHANGED <<lock, writer, search, ops, searches>>
    BY <1>3 DEF vars
  <2>2. (Renumbered' <=> Renumbered) /\ (Moving' <=> Moving) /\ Locking'
    BY <2>1, Parts DEF Renumbered, Moving, Locking
  <2>3. IndexOK' /\ IndexTypes' /\ Content' = Content
    BY <2>1, <2>2, Parts, SameIndex
  <2>4. ASSUME NEW s \in Searchers
        PROVE  SearchOK(search[s])'
    <3>1. PICK r : r = search[s]
      OBVIOUS
    <3>2. SearchOK(r)'
      BY <2>1, <2>2, <3>1, Parts, SameSearch
    <3> QED
      BY <2>1, <3>1, <3>2
  <2> QED
    BY <2>1, <2>2, <2>3, <2>4, Parts, Together DEF DictStep, Types
<1> QED
  BY <1>1, <1>2, <1>3, ReloadStep DEF Next

THEOREM IInvAlways == Spec => []IInv
<1>1. Init => IInv
  BY InitInv
<1>2. IInv /\ [Next]_vars => IInv'
  BY NextInv
<1> QED
  BY <1>1, <1>2, PTL DEF Spec

\* The lists, counters and threads always have their types.
THEOREM TypeSafety == Spec => []TypeOK
<1>1. IInv => TypeOK
  BY DEF IInv, Types, TypeOK, SearchOK
<1> QED
  BY <1>1, IInvAlways, PTL

\* Whenever nobody has the lock, the counters and the postings say what a count of the
\* live slots would, and an id has one live slot at most.
THEOREM Counters == Spec => []CountersExact
<1>1. ASSUME IInv
      PROVE  CountersExact
  <2> SUFFICES ASSUME lock = NoWriter
               PROVE  /\ \A i, k \in Live : ids[i] = ids[k] => i = k
                      /\ deleted \subseteq Slots
                      /\ totalLen = SumOfLens(Live)
                      /\ \A t \in Terms :
                           /\ Postings[t] = {i \in Slots : t \in texts[i]}
                           /\ df[t] = Cardinality({i \in Live : t \in texts[i]})
    BY DEF CountersExact
  <2>1. \A w \in Writers : writer[w].pc \notin Holding
    BY <1>1, Parts, Constants DEF Locking
  <2>2. ~Renumbered /\ ~Moving /\ Standing = Live
    BY <2>1 DEF Renumbered, Moving, Holding, Standing
  <2> QED
    BY <1>1, <2>2, Parts DEF IndexOK, Unique, Tombs, Summed, Listed, Having, Counted
<1> QED
  BY <1>1, IInvAlways, PTL

\* A search that no compaction tears scores only slots that hold a term of its query,
\* whatever is added and removed meanwhile.
THEOREM Sound == Spec => []SearchSound
<1>1. IInv => SearchSound
  BY DEF IInv, SearchOK, SearchSound
<1> QED
  BY <1>1, IInvAlways, PTL

\* The index implements the dictionary: under every step of adds, removes, compaction,
\* reloads and searches, what it stands for changes by a chunk put or dropped, or not at all.
THEOREM Dictionary == Spec => IsDictionary
<1>1. Init => Dict!Init
  BY InitInv
<1>2. IInv /\ [Next]_vars => [Dict!Next]_Content
  BY NextInv DEF DictStep
<1> QED
  BY <1>1, <1>2, IInvAlways, PTL DEF Spec, IsDictionary, Dict!Spec

-----------------------------------------------------------------------------
(* What a search returns. *)

Answers(s) == search[s].pc \in {"postings", "rank"} /\ search'[s].pc \in {"done", "raised"}

\* No writer's step answers a search.
LEMMA WritersDoNotAnswer ==
  ASSUME IInv, NEW s \in Searchers, Disturbed \/ Torn \/ UNCHANGED search
  PROVE  search'[s].pc = search[s].pc
<1>1. search[s] \in Records
  BY Parts DEF Types
<1>2. CASE Disturbed
  BY <1>1, <1>2 DEF Disturbed, Records
<1>3. CASE Torn
  BY <1>1, <1>3 DEF Torn, Records
<1> QED
  BY <1>2, <1>3

\* Untorn, the list a search goes through has only slots that exist: it is not cut short.
LEMMA PostingsDoNotAnswer ==
  ASSUME IInv, NEW s \in Searchers, NextPosting(s), ~search[s].torn
  PROVE  search'[s].pc \notin {"done", "raised"}
<1> DEFINE r == search[s]
           m == Min(Rest(r))
<1>1. r \in Records /\ SearchOK(r) /\ r.pc = "postings" /\ search \in [Searchers -> Records]
  BY Parts DEF NextPosting, Types
<1>2. \/ Searching(s, [r EXCEPT !.pc = "terms"])
      \/ Searching(s, [r EXCEPT !.at = m])
      \/ /\ Rest(r) # {}
         /\ Searching(s, IF m \in Slots THEN [r EXCEPT !.at = m, !.scored = @ \cup {m}]
                         ELSE [r EXCEPT !.pc = "raised"])
  BY DEF NextPosting, Rest
<1>3. Rest(r) # {} => m \in Slots
  BY <1>1, RestIs
<1>4. \/ search'[s] = [r EXCEPT !.pc = "terms"]
      \/ search'[s] = [r EXCEPT !.at = m]
      \/ search'[s] = [r EXCEPT !.at = m, !.scored = @ \cup {m}]
  <2>1. \A z : Searching(s, z) => search'[s] = z
    BY <1>1 DEF Searching
  <2> QED
    BY <1>2, <1>3, <2>1
<1> HIDE DEF r, m
<1> QED
  BY <1>1, <1>4 DEF Records, r

\* An undisturbed search that has been through its terms has the chunks that match.
LEMMA RankAnswers ==
  ASSUME IInv, NEW s \in Searchers, Rank(s), search[s].quiet, ~search[s].torn
  PROVE  search'[s].found = Dict!Matches(search[s].query)
<1> DEFINE r == search[s]
<1>1. r \in Records /\ SearchOK(r) /\ r.pc = "rank" /\ search \in [Searchers -> Records]
  BY Parts DEF Rank, Types
<1>2. ~Renumbered /\ Scores(r) /\ (r.todo = {} \/ Live = {})
  BY <1>1 DEF SearchOK
<1>3. r.scored = {i \in Live : texts[i] \cap r.query # {}}
  BY <1>1, <1>2 DEF Scores
<1>4. Standing = Live /\ Live \subseteq Slots
  BY <1>2, Undisturbed
<1>5. search'[s].found = {ids[i] : i \in r.scored}
  <2>1. \A z : Searching(s, z) => search'[s] = z
    BY <1>1 DEF Searching
  <2>2. Searching(s, [r EXCEPT !.pc = "done", !.found = {ids[i] : i \in r.scored}])
    BY <1>3, <1>4 DEF Rank
  <2>3. search'[s] = [r EXCEPT !.pc = "done", !.found = {ids[i] : i \in r.scored}]
    BY <2>1, <2>2
  <2> HIDE DEF r
  <2> QED
    BY <1>1, <2>3 DEF Records
<1> HIDE DEF r
<1>6. /\ \A i \in Live : ids[i] \in Docs /\ texts[i] \in Texts /\ Content[ids[i]] = texts[i]
      /\ \A d \in Docs : (\A i \in Live : ids[i] # d) => Content[d] = NoText
  BY <1>4, Parts, ContentType
<1>7. {ids[i] : i \in r.scored} = Dict!Matches(r.query)
  <2>1. ASSUME NEW d \in {ids[i] : i \in r.scored}
        PROVE  d \in Dict!Matches(r.query)
    BY <1>3, <1>6, Constants DEF Dict!Matches
  <2>2. ASSUME NEW d \in Dict!Matches(r.query)
        PROVE  d \in {ids[i] : i \in r.scored}
    <3>1. d \in Docs /\ Content[d] # NoText /\ Content[d] \cap r.query # {}
      BY DEF Dict!Matches
    <3>2. PICK i \in Live : ids[i] = d
      BY <1>6, <3>1
    <3> QED
      BY <1>3, <1>6, <3>1, <3>2
  <2> QED
    BY <2>1, <2>2
<1> QED
  BY <1>5, <1>7 DEF r

\* A search that no writer interferes with returns exactly the chunks that hold a term of
\* the query.
THEOREM Exact == Spec => SearchExact
<1> DEFINE A(s) == Answers(s) /\ search[s].quiet /\ ~search[s].torn =>
                     search'[s].found = Dict!Matches(search[s].query)
<1>1. ASSUME IInv, [Next]_vars, NEW s \in Searchers
      PROVE  A(s)
  <2> SUFFICES ASSUME Answers(s), search[s].quiet, ~search[s].torn
               PROVE  search'[s].found = Dict!Matches(search[s].query)
    OBVIOUS
  <2>1. search'[s].pc # search[s].pc
    BY DEF Answers
  <2>2. ASSUME NEW w \in Writers, Write(w)
        PROVE  FALSE
    <3>1. Disturbed \/ Torn \/ UNCHANGED search
      BY <2>2 DEF Write, StartAdd, StartRemove, Begin, AddDoc, RemoveDoc, CheckRatio, CompactNothing, CompactIds,
           CompactPostings, CompactDeleted
    <3> QED
      BY <1>1, <2>1, <3>1, WritersDoNotAnswer
  <2>3. ~Reload
    BY IdleIs DEF Reload, Answers
  <2>4. ~UNCHANGED vars
    BY <2>1 DEF vars
  <2>5. PICK x \in Searchers : Search(x)
    BY <1>1, <2>2, <2>3, <2>4 DEF Next
  <2>6. x = s
    <3>1. ASSUME NEW z, Searching(x, z), x # s
          PROVE  FALSE
      <4>1. search' = [search EXCEPT ![x] = z] /\ search \in [Searchers -> Records]
        BY <1>1, <3>1, Parts DEF Searching, Types
      <4> QED
        BY <2>1, <3>1, <4>1
    <3>2. \E z : Searching(x, z)
      BY <2>5, Zenon DEF Search, StartSearch, NextTerm, NextPosting, Rank
    <3> QED
      BY <3>1, <3>2
  <2>7. ~StartSearch(s) /\ ~NextTerm(s)
    BY DEF StartSearch, NextTerm, Answers
  <2>8. ~NextPosting(s)
    BY <1>1, PostingsDoNotAnswer DEF Answers
  <2>9. Rank(s)
    BY <2>5, <2>6, <2>7, <2>8 DEF Search
  <2> QED
    BY <1>1, <2>9, RankAnswers
<1>2. IInv /\ [Next]_vars =>
        [\A s \in Searchers :
           search[s].pc \in {"postings", "rank"} /\ search'[s].pc \in {"done", "raised"}
             /\ search[s].quiet /\ ~search[s].torn =>
               search'[s].found = Dict!Matches(search[s].query)]_vars
  BY <1>1 DEF Answers
<1> QED
  BY <1>2, IInvAlways, PTL DEF Spec, SearchExact
=============================================================================
