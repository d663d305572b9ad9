-------------------------- MODULE LlmClient_proofs --------------------------
(***************************************************************************)
(* For any requests, providers, chains, caps and times: the types,         *)
(* OneVoice, EndsInTime, WindowRespected, Converges and                    *)
(* OpensOnConsecutiveFailures.                                             *)
(*                                                                         *)
(* The window: what the limiter remembers is the end of what it let pass,  *)
(* and everything it forgot is a window old (Remembered); so a request     *)
(* that finds room is a window behind the one Rpm places before it         *)
(* (Spaced).                                                               *)
(*                                                                         *)
(* The breaker: a failure count is the number of requests that saw the     *)
(* path fail (Blamed).  No chain has a path twice (ChainUnlike), so none   *)
(* of them comes back to be counted again (Behind).                        *)
(***************************************************************************)
EXTENDS LlmClient, FiniteSetTheorems, WellFoundedInduction, TLAPS

Walking == {"loop", "waiting", "calling", "streaming"}

\* A request that walks its chain is at a path of it once it has begun an attempt.
OnItsPath(r) ==
  /\ pc[r] \in Walking => chain[r] = Attempts(conf, r)
  /\ pc[r] \in Walking \ {"loop"} => at[r] \in DOMAIN chain[r]
  /\ pc[r] = "waiting" => Provider(r) \in Providers /\ Rpm[Provider(r)] > 0
OnPath == \A r \in Requests : OnItsPath(r)

\* Nothing was shown before the call that is under way answers, and then one path's text.
SpokeOnce(r) ==
  /\ pc[r] \in {"new", "loop", "waiting", "calling"} => shown[r] = {}
  /\ \A k, l \in shown[r] : k = l
Spoken == \A r \in Requests : SpokeOnce(r)

\* Waits and calls last as long as they may, and begin early enough.
InTime(r) ==
  /\ pc[r] = "waiting" =>
       /\ began[r] <= now /\ now <= began[r] + MaxWait
       /\ Deadline[r] # 0 => began[r] <= Deadline[r] - MinAttempt
  /\ pc[r] = "calling" =>
       /\ began[r] <= now /\ now <= began[r] + Longest(r)
       /\ Deadline[r] # 0 => began[r] <= Deadline[r] - MinAttempt + (IF Provider(r) = Native THEN 0 ELSE MaxWait)
Timely == \A r \in Requests : InTime(r)

\* How often a call was made for each thing it may still be refused for.
MostTries(c) == CASE c \in Budgets -> 1 [] c = "MINIMAL" -> 2 [] c = "LOW" -> 3
                  [] c = "MEDIUM" -> 4 [] c = "HIGH" -> 5
FewTries(r) ==
  pc[r] \in {"waiting", "calling"} /\ cfg[r] # NoConfig => tries[r] <= MostTries(cfg[r])
Climbing == \A r \in Requests : FewTries(r)

\* The limiter's record is the end of what it let pass; what it forgot is a window old.
Remembered(p) ==
  \E d \in 0..Len(sends[p]) :
    /\ Len(sent[p]) = Len(sends[p]) - d
    /\ \A i \in 1..Len(sent[p]) : sent[p][i] = sends[p][d + i]
    /\ \A i \in 1..d : now - sends[p][i] >= Window
Past(p) == \A i \in 1..Len(sends[p]) : sends[p][i] <= now
Spaced(p) ==
  Rpm[p] > 0 => \A i, j \in 1..Len(sends[p]) : j >= i + Rpm[p] => sends[p][j] - sends[p][i] >= Window
Windows == \A p \in Providers : Remembered(p) /\ Past(p) /\ Spaced(p)

-----------------------------------------------------------------------------
(* Numbers. *)

LEMMA NatOrder == IsWellFoundedOn({ss \in Nat \X Nat : ss[1] < ss[2]}, Nat)
BY NatLessThanWellFounded, Zenon DEF OpToRel

\* A set of numbers has a least one.
LEMMA Least ==
  ASSUME NEW S \in SUBSET Nat, S # {}
  PROVE  \E m \in S : \A n \in S : m <= n
<1> DEFINE R == {ss \in Nat \X Nat : ss[1] < ss[2]}
<1>1. PICK m \in S : \A n \in S : ~(<<n, m>> \in R)
  <2>1. IsWellFoundedOn(R, Nat)
    BY NatOrder
  <2> HIDE DEF R
  <2> QED
    BY <2>1, WFMin, Zenon
<1>2. \A n \in S : ~(n < m)
  BY <1>1
<1> HIDE DEF R
<1> QED
  BY <1>2

LEMMA Times ==
  /\ {TripAfter, CallTimeout, StreamTimeout, Window} \subseteq Nat \ {0}
  /\ {Cooldown, MinAttempt, MaxWait, SdkRetries, SdkPause, LastStart, MaxTime} \subseteq Nat
  /\ Deadline \in [Requests -> Nat] /\ Rpm \in [Providers -> Nat]
BY LlmAssumption

\* A call lasts a moment at least.
LEMMA LongestType == ASSUME NEW r \in Requests PROVE Longest(r) \in Nat \ {0}
<1>1. Timeout(r) \in Nat \ {0}
  BY Times DEF Timeout
<1>2. \A n, m \in Nat : n * m \in Nat
  OBVIOUS
<1>3. SdkPause + Timeout(r) \in Nat
  BY <1>1, Times
<1>4. SdkRetries * (SdkPause + Timeout(r)) \in Nat
  BY <1>2, <1>3, Times
<1> QED
  BY <1>1, <1>4 DEF Longest

-----------------------------------------------------------------------------
(* Operators. *)

\* The limiter drops the front of its record as far as it is w old, and no further.
LEMMA Drops ==
  ASSUME NEW p \in Providers, sent[p] \in Seq(Nat), now \in Nat, NEW w \in Int
  PROVE  \E d \in 0..Len(sent[p]) :
           /\ Within(p, w) = SubSeq(sent[p], d + 1, Len(sent[p]))
           /\ \A k \in 1..d : now - sent[p][k] >= w
           /\ d < Len(sent[p]) => now - sent[p][d + 1] < w
<1> DEFINE n == Len(sent[p])
           S == {i \in 1..n + 1 : i <= n => now - sent[p][i] < w}
           Foremost(i) == /\ \A k \in 1..i - 1 : now - sent[p][k] >= w
                          /\ i <= n => now - sent[p][i] < w
<1>1. n \in Nat /\ sent[p] \in [1..n -> Nat]
  OBVIOUS
<1>2. n + 1 \in S /\ S \in SUBSET Nat
  BY <1>1
<1>3. PICK m \in S : \A i \in S : m <= i
  BY <1>2, Least
<1>4. m \in 1..n + 1 /\ Foremost(m)
  <2> DEFINE late(k) == now - sent[p][k]
  <2>1. \A k \in 1..n : late(k) \in Int
    BY <1>1
  <2>2. m \in 1..n + 1 /\ (m <= n => late(m) < w)
    BY <1>3
  <2>3. ASSUME NEW k \in 1..m - 1 PROVE late(k) >= w
    <3>1. k \in 1..n + 1 /\ k <= n /\ ~(m <= k)
      BY <1>1, <2>2
    <3>2. k \notin S
      BY <1>3, <3>1
    <3>3. ~(late(k) < w)
      BY <3>1, <3>2
    <3> HIDE DEF late, n
    <3> QED
      BY <1>1, <2>1, <3>1, <3>3
  <2> QED
    BY <2>2, <2>3
<1> DEFINE f == CHOOSE i \in 1..n + 1 : Foremost(i)
<1>5. f \in 1..n + 1 /\ Foremost(f)
  <2> HIDE DEF Foremost, n
  <2> QED
    BY <1>4
<1>6. Within(p, w) = SubSeq(sent[p], f, n)
  BY DEF Within
<1> HIDE DEF f
<1>7. PICK d \in 0..n : f = d + 1
  <2> HIDE DEF n
  <2> QED
    BY <1>1, <1>5
<1>8. /\ \A k \in 1..d : now - sent[p][k] >= w
      /\ d < n => now - sent[p][d + 1] < w
  <2> HIDE DEF n
  <2> QED
    BY <1>1, <1>5, <1>7
<1> QED
  BY <1>6, <1>7, <1>8

LEMMA WithinType ==
  ASSUME NEW p \in Providers, sent[p] \in Seq(Nat), now \in Nat, NEW w \in Int
  PROVE  Within(p, w) \in Seq(Nat)
<1>1. PICK d \in 0..Len(sent[p]) : Within(p, w) = SubSeq(sent[p], d + 1, Len(sent[p]))
  BY Drops
<1>2. CASE d = Len(sent[p])
  BY <1>1, <1>2
<1>3. CASE d < Len(sent[p])
  BY <1>1, <1>3
<1> QED
  BY <1>2, <1>3

LEMMA ConfigTypes ==
  /\ Levels = {"MINIMAL", "LOW", "MEDIUM", "HIGH"}
  /\ \A c : Translate(c) \in {"MINIMAL", "LOW", "MEDIUM", NoConfig}
<1>1. Levels = {"MINIMAL", "LOW", "MEDIUM", "HIGH"}
  BY DEF Levels, Range, Ladder
<1> QED
  BY <1>1 DEF Translate, NoConfig

LEMMA Rungs ==
  /\ Escalate("MINIMAL") = "LOW" /\ Escalate("LOW") = "MEDIUM"
  /\ Escalate("MEDIUM") = "HIGH" /\ Escalate("HIGH") = NoConfig
<1> DEFINE rung(c) == CHOOSE i \in DOMAIN Ladder : Ladder[i] = c
<1>1. DOMAIN Ladder = 1..4 /\ Len(Ladder) = 4
  BY DEF Ladder
<1>2. /\ Ladder[1] = "MINIMAL" /\ Ladder[2] = "LOW"
      /\ Ladder[3] = "MEDIUM" /\ Ladder[4] = "HIGH"
  BY DEF Ladder
<1>3. \A c : Escalate(c) = IF rung(c) = Len(Ladder) THEN NoConfig ELSE Ladder[rung(c) + 1]
  BY Zenon DEF Escalate
<1>4. ASSUME NEW j \in DOMAIN Ladder
      PROVE  rung(Ladder[j]) \in DOMAIN Ladder /\ Ladder[rung(Ladder[j])] = Ladder[j]
  BY Zenon
<1> HIDE DEF rung
<1>5. \A j \in 1..4 : rung(Ladder[j]) = j
  BY <1>1, <1>2, <1>4
<1> QED
  BY <1>1, <1>2, <1>3, <1>5

Config == Levels \cup Budgets \cup {NoConfig}

\* What is sent to Gemini instead is a level, or what was asked, or nothing.
LEMMA PreparedType ==
  ASSUME NEW k, NEW m, NEW c \in Config
  PROVE  Prepared(k, m, c) \in Config
<1>1. \A d \in Config : SkipRejected(k, m, d) \in Config
  <2> SUFFICES ASSUME NEW d \in Levels PROVE SkipRejected(k, m, d) \in Config
    BY DEF SkipRejected
  <2> DEFINE from == CHOOSE i \in DOMAIN Ladder : Ladder[i] = d
             open == {i \in from..Len(Ladder) : <<m, Ladder[i]>> \notin k}
  <2>1. DOMAIN Ladder = 1..4 /\ Len(Ladder) = 4
    BY DEF Ladder
  <2>2. from \in 1..4
    <3>1. \E i \in DOMAIN Ladder : Ladder[i] = d
      BY Zenon DEF Levels, Range
    <3> QED
      BY <2>1, <3>1
  <2>3. open \in SUBSET (1..4)
    <3> HIDE DEF from
    <3> QED
      BY <2>1, <2>2
  <2>4. SkipRejected(k, m, d) = IF open = {} THEN NoConfig
                                ELSE Ladder[CHOOSE i \in open : \A j \in open : i <= j]
    BY DEF SkipRejected
  <2> HIDE DEF from, open
  <2>5. CASE open = {}
    BY <2>4, <2>5 DEF Config
  <2>6. CASE open # {}
    <3>1. PICK i \in open : \A j \in open : i <= j
      BY <2>3, <2>6, Least
    <3>2. (CHOOSE h \in open : \A j \in open : h <= j) \in 1..4
      BY <3>1, <2>3
    <3> QED
      BY <2>1, <2>4, <2>6, <3>2 DEF Config, Levels, Range
  <2> QED
    BY <2>5, <2>6
<1>2. Translate(c) \in Config
  BY ConfigTypes DEF Config
<1> QED
  BY <1>1, <1>2 DEF Prepared, Config

LEMMA TranslateType == \A c : Translate(c) \in Config /\ Translate(c) \notin Budgets
BY DEF Translate, Config, Budgets, NoConfig, Levels, Range, Ladder

LEMMA EscalateType ==
  ASSUME NEW c \in Levels
  PROVE  Escalate(c) \in Config /\ Escalate(c) \notin Budgets
BY Rungs, ConfigTypes DEF Config, Budgets, NoConfig

-----------------------------------------------------------------------------
(* Types. *)

\* A request that makes a call is at a path some chain has.
LEMMA ReachablePath ==
  ASSUME OnPath, NEW r \in Requests, pc[r] \in Walking \ {"loop"}
  PROVE  Path(r) \in Reachable /\ Model(r) \in {k[2] : k \in Reachable}
<1>1. Path(r) \in Range(Attempts(conf, r))
  BY DEF OnPath, OnItsPath, Path, Range
<1>2. Path(r) \in Reachable
  BY <1>1 DEF Reachable
<1> QED
  BY <1>2 DEF Model

LEMMA TypeInit == Init => TypeOK
<1> SUFFICES ASSUME Init PROVE TypeOK
  OBVIOUS
<1>1. 0 \in 0..TripAfter - 1
  BY Times
<1> QED
  BY <1>1 DEF Init, TypeOK, Over

\* Moves between paths, which keep the types of what they write.
LEMMA HangsUpType ==
  ASSUME TypeOK, NEW r \in Requests, HangsUp(r)
  PROVE  /\ cfg' \in [Requests -> Config]
         /\ tries' \in [Requests -> Nat] /\ began' \in [Requests -> Nat]
BY DEF TypeOK, HangsUp, Config

LEMMA NextPathType ==
  ASSUME TypeOK, NEW r \in Requests, NextPath(r), conf' = conf
  PROVE  /\ pc' \in [Requests -> {"new", "loop", "waiting", "calling", "streaming"} \cup Over]
         /\ chain' \in [Requests -> {<<>>} \cup {Attempts(conf', q) : q \in Requests}]
         /\ at' \in [Requests -> Nat \ {0}]
BY DEF TypeOK, NextPath, Goes

LEMMA EndsType ==
  ASSUME TypeOK, NEW r \in Requests, NEW how \in Over, Ends(r, how), conf' = conf
  PROVE  /\ pc' \in [Requests -> {"new", "loop", "waiting", "calling", "streaming"} \cup Over]
         /\ chain' \in [Requests -> {<<>>} \cup {Attempts(conf', q) : q \in Requests}]
         /\ at' \in [Requests -> Nat \ {0}]
BY DEF TypeOK, Ends, Goes

LEMMA Updated ==
  ASSUME NEW S, NEW T, NEW f \in [S -> T], NEW x, NEW v, x \in S => v \in T
  PROVE  [f EXCEPT ![x] = v] \in [S -> T]
OBVIOUS

LEMMA FailsType ==
  ASSUME TypeOK, NEW r \in Requests, NEW e, Fails(r, e)
  PROVE  /\ failures' \in [Paths -> 0..TripAfter - 1]
         /\ openUntil' \in [Paths -> Nat]
         /\ blame' \in [Paths -> SUBSET Requests]
<1> DEFINE k == Path(r)
           opens == Counts(e) /\ Trips(failures[k])
           count == IF ~Counts(e) THEN failures[k] ELSE IF opens THEN 0 ELSE failures[k] + 1
           until == IF opens THEN now + Cooldown ELSE openUntil[k]
           who == IF opens THEN {} ELSE IF e = "provider" THEN blame[k] \cup {r} ELSE blame[k]
<1>1. /\ failures' = [failures EXCEPT ![k] = count]
      /\ openUntil' = [openUntil EXCEPT ![k] = until]
      /\ blame' = [blame EXCEPT ![k] = who]
  BY DEF Fails
<1>2. ASSUME k \in Paths
      PROVE  count \in 0..TripAfter - 1 /\ until \in Nat /\ who \in SUBSET Requests
  <2>1. failures[k] \in 0..TripAfter - 1 /\ openUntil[k] \in Nat /\ blame[k] \in SUBSET Requests
    BY <1>2 DEF TypeOK
  <2>2. now \in Nat /\ Cooldown \in Nat /\ TripAfter \in Nat \ {0}
    BY Times DEF TypeOK
  <2>3. Trips(failures[k]) <=> failures[k] + 1 >= TripAfter
    BY DEF Trips
  <2> HIDE DEF k
  <2>4. count \in 0..TripAfter - 1
    BY <2>1, <2>2, <2>3 DEF Counts
  <2>5. until \in Nat
    BY <2>1, <2>2
  <2>6. who \in SUBSET Requests
    BY <2>1
  <2> QED
    BY <2>4, <2>5, <2>6
<1>3. /\ failures \in [Paths -> 0..TripAfter - 1]
      /\ openUntil \in [Paths -> Nat]
      /\ blame \in [Paths -> SUBSET Requests]
  BY DEF TypeOK
<1> HIDE DEF k, count, until, who
<1>4. failures' \in [Paths -> 0..TripAfter - 1]
  BY <1>1, <1>2, <1>3, Updated
<1>5. openUntil' \in [Paths -> Nat]
  BY <1>1, <1>2, <1>3, Updated
<1>6. blame' \in [Paths -> SUBSET Requests]
  BY <1>1, <1>2, <1>3, Updated
<1> QED
  BY <1>4, <1>5, <1>6

LEMMA AnswersType ==
  ASSUME TypeOK, NEW r \in Requests, Answers(r)
  PROVE  /\ failures' \in [Paths -> 0..TripAfter - 1]
         /\ openUntil' \in [Paths -> Nat]
         /\ blame' \in [Paths -> SUBSET Requests]
<1>1. 0 \in 0..TripAfter - 1
  BY Times
<1> QED
  BY <1>1 DEF TypeOK, Answers, Clears

LEMMA Idle ==
  ASSUME TypeOK, UNCHANGED <<conf, shared, now>>
  PROVE  /\ conf' \in Configs /\ now' \in Nat
         /\ failures' \in [Paths -> 0..TripAfter - 1]
         /\ openUntil' \in [Paths -> Nat]
         /\ known' \in SUBSET ({k[2] : k \in Reachable'} \X (Levels \cup {"budget"}))
         /\ sent' \in [Providers -> Seq(Nat)]
         /\ blame' \in [Paths -> SUBSET Requests]
         /\ sends' \in [Providers -> Seq(Nat)]
BY DEF TypeOK, shared, Reachable

LEMMA SameReach == ASSUME conf' = conf PROVE Reachable' = Reachable
BY DEF Reachable

\* Ways to end, or to go on, that touch nothing shared.
LEMMA EndingType ==
  ASSUME TypeOK, NEW r \in Requests, Ends(r, "failed"), UNCHANGED <<conf, shared, shown, now>>
  PROVE  TypeOK'
<1>1. "failed" \in Over
  BY DEF Over
<1> QED
  BY <1>1, Idle, EndsType, HangsUpType, SameReach DEF TypeOK, Ends, Config

LEMMA FailingType ==
  ASSUME TypeOK, NEW r \in Requests, NEW e, Fails(r, e), UNCHANGED <<conf, shown, now>>,
         known' \in SUBSET ({k[2] : k \in Reachable} \X (Levels \cup {"budget"})),
         sent' \in [Providers -> Seq(Nat)], sends' \in [Providers -> Seq(Nat)]
  PROVE  TypeOK'
BY FailsType, NextPathType, HangsUpType, SameReach DEF TypeOK, Fails, NextPath, Config

LEMMA AnsweringType ==
  ASSUME TypeOK, NEW r \in Requests, Answers(r), UNCHANGED <<conf, known, sent, sends, now>>,
         shown' \in [Requests -> SUBSET Reachable]
  PROVE  TypeOK'
<1>1. "answered" \in Over
  BY DEF Over
<1> QED
  BY <1>1, AnswersType, EndsType, HangsUpType, SameReach DEF TypeOK, Answers, Ends, Config

LEMMA LearnsType ==
  ASSUME TypeOK, OnPath, NEW r \in Requests, pc[r] = "calling", NEW x \in Levels \cup {"budget"},
         known' = known \cup {<<Model(r), x>>}
  PROVE  known' \in SUBSET ({k[2] : k \in Reachable} \X (Levels \cup {"budget"}))
<1> DEFINE M == {k[2] : k \in Reachable}
<1>1. Model(r) \in M
  BY ReachablePath DEF Walking
<1>2. known \in SUBSET (M \X (Levels \cup {"budget"}))
  BY DEF TypeOK
<1> HIDE DEF M
<1>3. known' \in SUBSET (M \X (Levels \cup {"budget"}))
  BY <1>1, <1>2
<1> QED
  BY <1>3 DEF M

LEMMA RetryType == ASSUME TypeOK, OnPath, NEW r \in Requests, Retry(r) PROVE TypeOK'
<1> DEFINE x == IF cfg[r] \in Budgets THEN "budget" ELSE cfg[r]
<1>1. cfg[r] \in Levels \cup Budgets /\ x \in Levels \cup {"budget"}
  <2>1. cfg[r] \in Config
    BY DEF TypeOK, Config
  <2>2. Cut(r)
    BY DEF Retry
  <2> QED
    BY <2>1, <2>2 DEF Config, Cut, Refused
<1>2. known' \in SUBSET ({k[2] : k \in Reachable} \X (Levels \cup {"budget"}))
  BY <1>1, LearnsType DEF Retry
<1>3. CASE tries[r] < MaxTries
  <2> DEFINE c == IF cfg[r] \in Budgets THEN Translate(cfg[r]) ELSE Escalate(cfg[r])
  <2>1. c \in Config
    BY <1>1, TranslateType, EscalateType
  <2>2. /\ tries' = [tries EXCEPT ![r] = tries[r] + 1] /\ cfg' = [cfg EXCEPT ![r] = c]
        /\ UNCHANGED <<pc, chain, at, began, failures, openUntil, blame>>
        /\ UNCHANGED <<conf, sent, sends, shown, now>>
    BY <1>3 DEF Retry
  <2>3. cfg' \in [Requests -> Config]
    <3>1. cfg \in [Requests -> Config]
      BY DEF TypeOK, Config
    <3> HIDE DEF c
    <3> QED
      BY <2>1, <2>2, <3>1
  <2>4. tries' \in [Requests -> Nat]
    BY <2>2 DEF TypeOK
  <2>5. chain' \in [Requests -> {<<>>} \cup {Attempts(conf', q) : q \in Requests}]
    BY <2>2 DEF TypeOK
  <2> HIDE DEF c
  <2> QED
    BY <1>2, <2>2, <2>3, <2>4, <2>5, SameReach DEF TypeOK, Config
<1>4. CASE ~(tries[r] < MaxTries)
  BY <1>2, <1>4, FailingType DEF Retry, TypeOK
<1> QED
  BY <1>3, <1>4

LEMMA MisreadType == ASSUME TypeOK, OnPath, NEW r \in Requests, Misread(r) PROVE TypeOK'
<1>1. known' \in SUBSET ({k[2] : k \in Reachable} \X (Levels \cup {"budget"}))
  BY LearnsType DEF Misread
<1>2. cfg' \in [Requests -> Config] /\ tries' \in [Requests -> Nat]
  BY TranslateType DEF TypeOK, Misread, Config
<1>3. UNCHANGED <<conf, failures, openUntil, sent, blame, sends, pc, chain, at, began, shown, now>>
  BY DEF Misread
<1>4. chain' \in [Requests -> {<<>>} \cup {Attempts(conf', q) : q \in Requests}]
  BY <1>3 DEF TypeOK
<1> QED
  BY <1>1, <1>2, <1>3, <1>4, SameReach DEF TypeOK, Config

LEMMA BeginType == ASSUME TypeOK, NEW r \in Requests, Begin(r) PROVE TypeOK'
<1>1. /\ pc' = [pc EXCEPT ![r] = "loop"] /\ chain' = [chain EXCEPT ![r] = Attempts(conf, r)]
      /\ UNCHANGED <<conf, shared, at, call, shown, now>>
  BY DEF Begin, Goes
<1>2. chain' \in [Requests -> {<<>>} \cup {Attempts(conf', q) : q \in Requests}]
  BY <1>1 DEF TypeOK
<1> QED
  BY <1>1, <1>2, Idle, SameReach DEF TypeOK, call

LEMMA AttemptType == ASSUME TypeOK, NEW r \in Requests, Attempt(r) PROVE TypeOK'
<1>1. UNCHANGED <<conf, shared, chain, at, shown, now>>
  BY DEF Attempt
<1>2. pc' \in [Requests -> {"new", "loop", "waiting", "calling", "streaming"} \cup Over]
  BY DEF TypeOK, Attempt, Goes
<1>3. cfg' \in [Requests -> Config]
  <2> DEFINE c == IF Provider(r) = Native THEN Prepared(known, Model(r), Thinking[r]) ELSE NoConfig
  <2>1. Thinking[r] \in Config
    BY LlmAssumption DEF Config
  <2>2. c \in Config
    BY <2>1, PreparedType DEF Config
  <2>3. cfg' = [cfg EXCEPT ![r] = c] /\ cfg \in [Requests -> Config]
    BY DEF Attempt, TypeOK, Config
  <2> HIDE DEF c
  <2> QED
    BY <2>2, <2>3
<1>4. tries' \in [Requests -> Nat] /\ began' \in [Requests -> Nat]
  BY DEF TypeOK, Attempt
<1>5. chain' \in [Requests -> {<<>>} \cup {Attempts(conf', q) : q \in Requests}]
  BY <1>1 DEF TypeOK
<1> QED
  BY <1>1, <1>2, <1>3, <1>4, <1>5, Idle, SameReach DEF TypeOK, Config

LEMMA FreshType ==
  ASSUME TypeOK, NEW p \in Providers
  PROVE  Fresh(p) \in Seq(Nat)
BY WithinType, Times DEF TypeOK, Fresh

LEMMA AcquireType == ASSUME TypeOK, OnPath, NEW r \in Requests, Acquire(r) PROVE TypeOK'
<1> DEFINE p == Provider(r)
<1>1. p \in Providers
  BY DEF Acquire, OnPath, OnItsPath
<1>2. Append(Fresh(p), now) \in Seq(Nat) /\ Append(sends[p], now) \in Seq(Nat)
  BY <1>1, FreshType DEF TypeOK
<1>3. /\ sent' = [sent EXCEPT ![p] = Append(Fresh(p), now)]
      /\ sends' = [sends EXCEPT ![p] = Append(sends[p], now)]
      /\ pc' = [pc EXCEPT ![r] = "calling"] /\ began' = [began EXCEPT ![r] = now]
      /\ UNCHANGED <<conf, failures, openUntil, known, blame, chain, at, cfg, tries, shown, now>>
  BY DEF Acquire, Goes
<1> HIDE DEF p
<1>4. sent' \in [Providers -> Seq(Nat)] /\ sends' \in [Providers -> Seq(Nat)]
  BY <1>1, <1>2, <1>3 DEF TypeOK
<1>5. chain' \in [Requests -> {<<>>} \cup {Attempts(conf', q) : q \in Requests}]
  BY <1>3 DEF TypeOK
<1> QED
  BY <1>3, <1>4, <1>5, SameReach DEF TypeOK

LEMMA GivesUpType == ASSUME TypeOK, OnPath, NEW r \in Requests, GivesUp(r) PROVE TypeOK'
<1>1. Provider(r) \in Providers
  BY DEF GivesUp, OnPath, OnItsPath
<1>2. sent' \in [Providers -> Seq(Nat)]
  BY <1>1, FreshType DEF TypeOK, GivesUp
<1> QED
  BY <1>2, FailingType DEF TypeOK, GivesUp

LEMMA TypeStep ==
  ASSUME TypeOK, OnPath, [Next]_vars
  PROVE  TypeOK'
<1>1. ASSUME NEW r \in Requests, Begin(r) PROVE TypeOK'
  BY <1>1, BeginType
<1>2. ASSUME NEW r \in Requests, Exhausted(r) \/ OutOfTime(r) \/ Unconfigured(r) \/ BadRequest(r) \/ Breaks(r)
      PROVE  TypeOK'
  BY <1>2, EndingType DEF Exhausted, OutOfTime, Unconfigured, BadRequest, Breaks
<1>3. ASSUME NEW r \in Requests, Skip(r) PROVE TypeOK'
  BY <1>3, Idle, NextPathType, HangsUpType, SameReach DEF Skip, NextPath, TypeOK, Config
<1>4. ASSUME NEW r \in Requests, Attempt(r) PROVE TypeOK'
  BY <1>4, AttemptType
<1>5. ASSUME NEW r \in Requests, Acquire(r) \/ GivesUp(r) PROVE TypeOK'
  BY <1>5, AcquireType, GivesUpType
<1>6. ASSUME NEW r \in Requests, Retry(r) \/ Misread(r) PROVE TypeOK'
  BY <1>6, RetryType, MisreadType
<1>7. ASSUME NEW r \in Requests, Transient(r) PROVE TypeOK'
  BY <1>7, FailingType DEF Transient, TypeOK
<1>8. ASSUME NEW r \in Requests, Answer(r) PROVE TypeOK'
  <2>1. shown' \in [Requests -> SUBSET Reachable]
    BY <1>8, ReachablePath DEF Answer, TypeOK, Walking
  <2> QED
    BY <1>8, <2>1, AnsweringType DEF Answer
<1>9. ASSUME NEW r \in Requests, FirstChunk(r) PROVE TypeOK'
  <2>1. shown' \in [Requests -> SUBSET Reachable']
    BY <1>9, ReachablePath, SameReach DEF FirstChunk, TypeOK, Walking
  <2>2. pc' \in [Requests -> {"new", "loop", "waiting", "calling", "streaming"} \cup Over]
    BY <1>9 DEF FirstChunk, TypeOK, Goes
  <2>3. UNCHANGED <<conf, shared, chain, at, call, now>>
    BY <1>9 DEF FirstChunk
  <2>4. chain' \in [Requests -> {<<>>} \cup {Attempts(conf', q) : q \in Requests}]
    BY <2>3 DEF TypeOK
  <2> QED
    BY <2>1, <2>2, <2>3, <2>4, Idle DEF TypeOK, call
<1>10. ASSUME NEW r \in Requests, StreamEnds(r) PROVE TypeOK'
  BY <1>10, AnsweringType DEF StreamEnds, TypeOK
<1>11. CASE Tick
  <2>1. UNCHANGED <<conf, shared, private>> /\ now' = now + 1
    BY <1>11 DEF Tick
  <2>2. chain' \in [Requests -> {<<>>} \cup {Attempts(conf', q) : q \in Requests}]
    BY <2>1 DEF TypeOK, private
  <2> QED
    BY <2>1, <2>2, SameReach DEF TypeOK, shared, private, call
<1>12. CASE UNCHANGED vars
  <2>1. chain' \in [Requests -> {<<>>} \cup {Attempts(conf', q) : q \in Requests}]
    BY <1>12 DEF TypeOK, vars, private
  <2> QED
    BY <1>12, <2>1, SameReach DEF TypeOK, vars, shared, private, call
<1> QED
  BY <1>1, <1>2, <1>3, <1>4, <1>5, <1>6, <1>7, <1>8, <1>9, <1>10, <1>11, <1>12 DEF Next, Step

-----------------------------------------------------------------------------
(* Each request keeps its promises. *)

Calls == OnPath /\ Spoken /\ Timely /\ Climbing

LEMMA CallsInit == Init => Calls
BY Zenon DEF Init, Calls, OnPath, OnItsPath, Spoken, SpokeOnce, Timely, InTime, Climbing, FewTries,
   Walking

\* A step of one request leaves the others where they are.
LEMMA OthersStay ==
  ASSUME TypeOK, NEW r \in Requests, NEW q \in Requests, q # r, Begin(r) \/ Step(r)
  PROVE  /\ pc'[q] = pc[q] /\ chain'[q] = chain[q] /\ at'[q] = at[q] /\ cfg'[q] = cfg[q]
         /\ tries'[q] = tries[q] /\ began'[q] = began[q] /\ shown'[q] = shown[q]
         /\ conf' = conf /\ now' = now
<1> USE DEF TypeOK, Goes, HangsUp
<1>1. ASSUME NEW how, Ends(r, how)
      PROVE  /\ pc'[q] = pc[q] /\ chain'[q] = chain[q] /\ at'[q] = at[q] /\ cfg'[q] = cfg[q]
             /\ tries'[q] = tries[q] /\ began'[q] = began[q]
  BY <1>1 DEF Ends
<1>2. ASSUME NextPath(r)
      PROVE  /\ pc'[q] = pc[q] /\ chain'[q] = chain[q] /\ at'[q] = at[q] /\ cfg'[q] = cfg[q]
             /\ tries'[q] = tries[q] /\ began'[q] = began[q]
  BY <1>2 DEF NextPath
<1>3. CASE Begin(r)
  BY <1>3 DEF Begin, call
<1>4. CASE Exhausted(r) \/ OutOfTime(r) \/ Unconfigured(r) \/ BadRequest(r) \/ Breaks(r)
  BY <1>1, <1>4 DEF Exhausted, OutOfTime, Unconfigured, BadRequest, Breaks
<1>5. CASE Skip(r) \/ GivesUp(r) \/ Transient(r)
  BY <1>2, <1>5 DEF Skip, GivesUp, Transient, Fails
<1>6. CASE Attempt(r)
  BY <1>6 DEF Attempt
<1>7. CASE Acquire(r)
  BY <1>7 DEF Acquire
<1>8. CASE Retry(r)
  BY <1>2, <1>8 DEF Retry, Fails
<1>9. CASE Misread(r)
  BY <1>9 DEF Misread
<1>10. CASE Answer(r) \/ StreamEnds(r)
  BY <1>1, <1>10 DEF Answer, StreamEnds, Answers
<1>11. CASE FirstChunk(r)
  BY <1>11 DEF FirstChunk, call
<1> QED
  BY <1>3, <1>4, <1>5, <1>6, <1>7, <1>8, <1>9, <1>10, <1>11 DEF Step

\* What becomes of the request that takes the step.
LEMMA EndsWell ==
  ASSUME TypeOK, Calls, NEW r \in Requests, NEW how \in Over, Ends(r, how), conf' = conf, now' = now,
         \A k, l \in shown'[r] : k = l
  PROVE  OnItsPath(r)' /\ SpokeOnce(r)' /\ InTime(r)' /\ FewTries(r)'
<1>1. pc'[r] \in Over
  BY DEF Ends, Goes, TypeOK
<1> QED
  BY <1>1 DEF OnItsPath, SpokeOnce, InTime, FewTries, Walking, Over

LEMMA GoesOn ==
  ASSUME TypeOK, Calls, NEW r \in Requests, NextPath(r), conf' = conf, shown' = shown,
         pc[r] \in {"loop", "waiting", "calling"}
  PROVE  OnItsPath(r)' /\ SpokeOnce(r)' /\ InTime(r)' /\ FewTries(r)'
<1>1. pc'[r] = "loop" /\ chain'[r] = chain[r]
  BY DEF NextPath, Goes, TypeOK
<1> QED
  BY <1>1 DEF Calls, OnPath, Spoken, OnItsPath, SpokeOnce, InTime, FewTries, Walking

Kept(r) == OnItsPath(r) /\ SpokeOnce(r) /\ InTime(r) /\ FewTries(r)

LEMMA BeginKeeps == ASSUME TypeOK, Calls, NEW r \in Requests, Begin(r) PROVE Kept(r)'
<1>1. pc[r] = "new" /\ pc'[r] = "loop" /\ chain'[r] = Attempts(conf', r) /\ shown'[r] = shown[r]
  BY DEF Begin, Goes, TypeOK
<1> QED
  BY <1>1 DEF Kept, Calls, Spoken, OnItsPath, SpokeOnce, InTime, FewTries, Walking

\* The configuration a call starts with is tried for the first time.
LEMMA AttemptKeeps == ASSUME TypeOK, Calls, NEW r \in Requests, Attempt(r) PROVE Kept(r)'
<1>1. /\ pc[r] = "loop" /\ at[r] \in DOMAIN chain[r] /\ ~Late(r)
      /\ pc'[r] = IF Provider(r) # Native /\ Rpm[Provider(r)] > 0 THEN "waiting" ELSE "calling"
      /\ tries'[r] = 1 /\ began'[r] = now
      /\ conf' = conf /\ chain' = chain /\ at' = at /\ shown' = shown /\ now' = now
  BY DEF Attempt, AtPath, Goes, TypeOK
<1>2. cfg'[r] \in Config
  <2>1. cfg' \in [Requests -> Config]
    BY AttemptType DEF TypeOK, Config
  <2> QED
    BY <2>1
<1>3. Provider(r)' = Provider(r)
  BY <1>1 DEF Provider, Path
<1>4. OnItsPath(r)'
  <2>1. chain[r] = Attempts(conf, r)
    BY <1>1 DEF Calls, OnPath, OnItsPath, Walking
  <2>2. pc'[r] = "waiting" => Provider(r) \in Providers
    BY <1>1, LlmAssumption DEF Attempt, PreRegistered
  <2> QED
    BY <1>1, <1>3, <2>1, <2>2 DEF OnItsPath, Walking
<1>5. SpokeOnce(r)'
  BY <1>1 DEF Calls, Spoken, SpokeOnce
<1>6. InTime(r)'
  <2>1. /\ Deadline[r] \in Nat /\ now \in Nat /\ MinAttempt \in Nat /\ MaxWait \in Nat
        /\ Longest(r) \in Nat
    BY Times, LongestType DEF TypeOK
  <2>2. Deadline[r] # 0 => now <= Deadline[r] - MinAttempt
    BY <1>1, <2>1 DEF Late
  <2>3. began'[r] = now /\ now' = now
    BY <1>1
  <2>4. /\ began'[r] <= now' /\ now' <= began'[r] + MaxWait /\ now' <= began'[r] + Longest(r)
        /\ Deadline[r] # 0 => began'[r] <= Deadline[r] - MinAttempt
        /\ Deadline[r] # 0 => began'[r] <= Deadline[r] - MinAttempt + MaxWait
        /\ Deadline[r] # 0 => began'[r] <= Deadline[r] - MinAttempt + 0
    BY <2>1, <2>2, <2>3
  <2>5. Longest(r)' = Longest(r)
    BY <1>3 DEF Longest, Timeout
  <2> QED
    BY <1>3, <2>4, <2>5 DEF InTime
<1>7. FewTries(r)'
  BY <1>1, <1>2, ConfigTypes DEF FewTries, MostTries, Config
<1> QED
  BY <1>4, <1>5, <1>6, <1>7 DEF Kept

LEMMA AcquireKeeps == ASSUME TypeOK, Calls, NEW r \in Requests, Acquire(r) PROVE Kept(r)'
<1>1. /\ pc[r] = "waiting" /\ pc'[r] = "calling" /\ began'[r] = now
      /\ UNCHANGED <<conf, chain, at, cfg, tries, shown, now>>
  BY DEF Acquire, Goes, TypeOK
<1>2. OnItsPath(r)'
  BY <1>1 DEF Calls, OnPath, OnItsPath, Walking
<1>3. SpokeOnce(r)'
  BY <1>1 DEF Calls, Spoken, SpokeOnce
<1>4. InTime(r)'
  <2>1. Provider(r)' = Provider(r) /\ Provider(r) \in Providers
    BY <1>1 DEF Calls, OnPath, OnItsPath, Provider, Path
  <2>2. Provider(r) # Native /\ Longest(r)' = Longest(r) /\ Longest(r) \in Nat
    BY <2>1, LlmAssumption, LongestType DEF Longest, Timeout
  <2>3. Deadline[r] # 0 => began[r] <= Deadline[r] - MinAttempt
    BY <1>1 DEF Calls, Timely, InTime
  <2>4. /\ began[r] <= now /\ now <= began[r] + MaxWait /\ now \in Nat /\ began[r] \in Nat
        /\ Deadline[r] \in Nat /\ MinAttempt \in Nat /\ MaxWait \in Nat
    BY <1>1, Times DEF Calls, Timely, InTime, TypeOK
  <2>5. Deadline[r] # 0 => now <= Deadline[r] - MinAttempt + MaxWait
    BY <2>3, <2>4
  <2>6. now <= now + Longest(r)
    BY <2>2, <2>4
  <2> HIDE DEF Longest, Provider
  <2>7. Provider(r)' # Native /\ now' = now
    BY <1>1, <2>1, <2>2
  <2>8. /\ pc'[r] = "calling" /\ began'[r] <= now' /\ now' <= began'[r] + Longest(r)'
        /\ Deadline[r] # 0 => began'[r] <= Deadline[r] - MinAttempt + MaxWait
    BY <1>1, <2>2, <2>4, <2>5, <2>6
  <2> QED
    BY <2>7, <2>8 DEF InTime
<1>5. FewTries(r)'
  BY <1>1 DEF Calls, Climbing, FewTries, MostTries
<1> QED
  BY <1>2, <1>3, <1>4, <1>5 DEF Kept

\* A refusal takes the configuration one rung up.
LEMMA RungUp ==
  ASSUME NEW c \in Levels \cup Budgets
  PROVE  LET d == IF c \in Budgets THEN Translate(c) ELSE Escalate(c) IN
         d # NoConfig => MostTries(c) + 1 <= MostTries(d)
<1>1. CASE c \in Budgets
  BY <1>1 DEF Translate, MostTries, Budgets, NoConfig
<1>2. CASE c \notin Budgets
  <2>1. c \in {"MINIMAL", "LOW", "MEDIUM", "HIGH"}
    BY <1>2, ConfigTypes
  <2> QED
    BY <2>1, Rungs DEF MostTries, Budgets, NoConfig
<1> QED
  BY <1>1, <1>2

LEMMA ClimbKeeps ==
  ASSUME TypeOK, Calls, NEW r \in Requests, NEW c, pc[r] = "calling", cfg[r] \in Levels \cup Budgets,
         c = IF cfg[r] \in Budgets THEN Translate(cfg[r]) ELSE Escalate(cfg[r]),
         cfg' = [cfg EXCEPT ![r] = c], tries' = [tries EXCEPT ![r] = @ + 1],
         UNCHANGED <<conf, pc, chain, at, began, shown, now>>
  PROVE  Kept(r)'
<1>1. OnItsPath(r)'
  BY DEF Calls, OnPath, OnItsPath, Provider, Path
<1>2. SpokeOnce(r)'
  BY DEF Calls, Spoken, SpokeOnce
<1>3. InTime(r)'
  <2>1. Longest(r)' = Longest(r) /\ Provider(r)' = Provider(r)
    BY DEF Longest, Timeout, Provider, Path
  <2> QED
    BY <2>1 DEF Calls, Timely, InTime
<1>4. FewTries(r)'
  <2>1. cfg'[r] = c /\ tries'[r] = tries[r] + 1 /\ tries[r] \in Nat
    BY DEF TypeOK
  <2>2. tries[r] <= MostTries(cfg[r])
    BY DEF Calls, Climbing, FewTries, Levels, Budgets, NoConfig, Range, Ladder
  <2>3. c # NoConfig => MostTries(cfg[r]) + 1 <= MostTries(c)
    BY RungUp
  <2>4. MostTries(cfg[r]) \in Int
    BY ConfigTypes DEF MostTries
  <2>5. c # NoConfig => MostTries(c) \in Int
    <3>1. c \in Config
      BY TranslateType, EscalateType
    <3> QED
      BY <3>1, ConfigTypes DEF MostTries, Config
  <2>6. c # NoConfig => tries[r] + 1 <= MostTries(c)
    BY <2>1, <2>2, <2>3, <2>4, <2>5
  <2> QED
    BY <2>1, <2>6 DEF FewTries
<1> QED
  BY <1>1, <1>2, <1>3, <1>4 DEF Kept

LEMMA RetryKeeps == ASSUME TypeOK, Calls, NEW r \in Requests, Retry(r) PROVE Kept(r)'
<1>1. cfg[r] \in Levels \cup Budgets
  <2>1. cfg[r] \in Config /\ Cut(r)
    BY DEF TypeOK, Config, Retry
  <2> QED
    BY <2>1 DEF Config, Cut, Refused
<1>2. CASE tries[r] < MaxTries
  BY <1>1, <1>2, ClimbKeeps DEF Retry
<1>3. CASE ~(tries[r] < MaxTries)
  BY <1>3, GoesOn DEF Retry, Fails, Kept
<1> QED
  BY <1>2, <1>3

LEMMA MisreadKeeps == ASSUME TypeOK, Calls, NEW r \in Requests, Misread(r) PROVE Kept(r)'
BY ClimbKeeps DEF Misread

LEMMA StepKeeps == ASSUME TypeOK, Calls, NEW r \in Requests, Step(r) PROVE Kept(r)'
<1>1. CASE Exhausted(r) \/ OutOfTime(r) \/ Unconfigured(r) \/ BadRequest(r) \/ Breaks(r)
  BY <1>1, EndsWell
     DEF Exhausted, OutOfTime, Unconfigured, BadRequest, Breaks, Calls, Spoken, SpokeOnce, Over, Kept
<1>2. CASE Skip(r) \/ GivesUp(r) \/ Transient(r)
  BY <1>2, GoesOn DEF Skip, AtPath, GivesUp, Transient, Fails, Kept
<1>3. CASE Attempt(r) \/ Acquire(r) \/ Retry(r) \/ Misread(r)
  BY <1>3, AttemptKeeps, AcquireKeeps, RetryKeeps, MisreadKeeps
<1>4. CASE Answer(r)
  <2>1. shown'[r] = {Path(r)}
    BY <1>4 DEF Answer, Calls, Spoken, SpokeOnce, TypeOK
  <2> QED
    BY <1>4, <2>1, EndsWell DEF Answer, Answers, Over, Kept
<1>5. CASE FirstChunk(r)
  <2>1. shown'[r] = {Path(r)}
    BY <1>5 DEF FirstChunk, Calls, Spoken, SpokeOnce, TypeOK
  <2>2. pc[r] = "calling" /\ pc'[r] = "streaming" /\ UNCHANGED <<conf, chain, at>>
    BY <1>5 DEF FirstChunk, Goes, TypeOK
  <2> QED
    BY <2>1, <2>2 DEF Kept, Calls, OnPath, OnItsPath, SpokeOnce, InTime, FewTries, Walking
<1>6. CASE StreamEnds(r)
  BY <1>6, EndsWell DEF StreamEnds, Answers, Calls, Spoken, SpokeOnce, Over, Kept
<1> QED
  BY <1>1, <1>2, <1>3, <1>4, <1>5, <1>6 DEF Step

\* What the limiter still counts is not a window old.
LEMMA FreshHead ==
  ASSUME TypeOK, NEW p \in Providers, Len(Fresh(p)) > 0
  PROVE  Head(Fresh(p)) \in Nat /\ now < Head(Fresh(p)) + Window
<1>1. sent[p] \in Seq(Nat) /\ now \in Nat /\ Window \in Int
  BY Times DEF TypeOK
<1>2. PICK d \in 0..Len(sent[p]) :
        /\ Fresh(p) = SubSeq(sent[p], d + 1, Len(sent[p]))
        /\ d < Len(sent[p]) => now - sent[p][d + 1] < Window
  BY <1>1, Drops DEF Fresh
<1>3. d < Len(sent[p])
  BY <1>1, <1>2
<1>4. Head(Fresh(p)) = sent[p][d + 1] /\ sent[p][d + 1] \in Nat
  BY <1>1, <1>2, <1>3
<1>5. now - sent[p][d + 1] < Window
  BY <1>2, <1>3
<1> QED
  BY <1>1, <1>4, <1>5

LEMMA TickKeeps == ASSUME TypeOK, Calls, Tick, NEW r \in Requests PROVE Kept(r)'
<1>1. UNCHANGED <<conf, shared, pc, chain, at, cfg, tries, began, shown>> /\ now' = now + 1
  BY DEF Tick, private, call
<1>2. OnItsPath(r)' /\ SpokeOnce(r)' /\ FewTries(r)'
  BY <1>1 DEF Calls, OnPath, OnItsPath, Spoken, SpokeOnce, Climbing, FewTries, Provider, Path
<1>3. InTime(r)'
  <2>1. now \in Nat /\ began[r] \in Nat /\ Deadline[r] \in Nat
    BY Times DEF TypeOK
  <2>2. ASSUME pc[r] = "waiting" PROVE now + 1 <= began[r] + MaxWait
    <3>1. Provider(r) \in Providers /\ Rpm[Provider(r)] > 0 /\ Rpm[Provider(r)] \in Nat
      BY <2>2, Times DEF Calls, OnPath, OnItsPath
    <3>2. Fresh(Provider(r)) \in Seq(Nat) /\ Len(Fresh(Provider(r))) >= Rpm[Provider(r)]
      BY <2>2, <3>1, FreshType DEF Tick, Full
    <3>3. /\ Head(Fresh(Provider(r))) \in Nat
          /\ now < Head(Fresh(Provider(r))) + Window
      BY <3>1, <3>2, FreshHead
    <3>4. ~(Head(Fresh(Provider(r))) + Window > began[r] + MaxWait)
      BY <2>2 DEF Tick, Hopeless
    <3> QED
      BY <2>1, <3>3, <3>4, Times
  <2>3. ASSUME pc[r] = "calling" PROVE now + 1 <= began[r] + Longest(r)
    BY <2>1, <2>3, LongestType DEF Tick
  <2>4. Longest(r)' = Longest(r) /\ Provider(r)' = Provider(r)
    BY <1>1 DEF Longest, Timeout, Provider, Path
  <2>5. /\ pc[r] \in {"waiting", "calling"} => began[r] <= now + 1
        /\ pc[r] = "waiting" => (Deadline[r] # 0 => began[r] <= Deadline[r] - MinAttempt)
        /\ pc[r] = "calling" =>
             (Deadline[r] # 0 => began[r] <= Deadline[r] - MinAttempt + (IF Provider(r) = Native THEN 0 ELSE MaxWait))
    BY <2>1 DEF Calls, Timely, InTime
  <2>6. pc[r] = "waiting" =>
          /\ began'[r] <= now' /\ now' <= began'[r] + MaxWait
          /\ Deadline[r] # 0 => began'[r] <= Deadline[r] - MinAttempt
    BY <1>1, <2>2, <2>5
  <2>7. pc[r] = "calling" =>
          /\ began'[r] <= now' /\ now' <= began'[r] + Longest(r)'
          /\ Deadline[r] # 0 =>
               began'[r] <= Deadline[r] - MinAttempt + (IF Provider(r)' = Native THEN 0 ELSE MaxWait)
    <3> HIDE DEF Longest, Provider
    <3> QED
      BY <1>1, <2>3, <2>4, <2>5
  <2>8. pc'[r] = pc[r]
    BY <1>1
  <2> QED
    BY <2>6, <2>7, <2>8, Zenon DEF InTime
<1> QED
  BY <1>2, <1>3 DEF Kept

LEMMA CallsStep == ASSUME TypeOK, Calls, [Next]_vars PROVE Calls'
<1>1. ASSUME NEW q \in Requests, pc'[q] = pc[q], chain'[q] = chain[q], at'[q] = at[q],
             cfg'[q] = cfg[q], tries'[q] = tries[q], began'[q] = began[q], shown'[q] = shown[q],
             conf' = conf, now' = now
      PROVE  Kept(q)'
  <2>1. Longest(q)' = Longest(q) /\ Provider(q)' = Provider(q)
    BY <1>1 DEF Longest, Timeout, Provider, Path
  <2>2. InTime(q)'
    BY <1>1, <2>1 DEF Calls, Timely, InTime
  <2>3. OnItsPath(q)' /\ SpokeOnce(q)' /\ FewTries(q)'
    BY <1>1 DEF Calls, OnPath, OnItsPath, Spoken, SpokeOnce, Climbing, FewTries, Provider, Path
  <2> QED
    BY <2>2, <2>3 DEF Kept
<1>2. ASSUME NEW r \in Requests, Begin(r) \/ Step(r), NEW q \in Requests PROVE Kept(q)'
  BY <1>1, <1>2, OthersStay, BeginKeeps, StepKeeps
<1>3. ASSUME UNCHANGED vars, NEW q \in Requests PROVE Kept(q)'
  BY <1>1, <1>3 DEF vars, private, call
<1>4. \A q \in Requests : Kept(q)'
  BY <1>2, <1>3, TickKeeps DEF Next
<1> QED
  BY <1>4 DEF Kept, Calls, OnPath, Spoken, Timely, Climbing

LEMMA IInvHolds == Spec => [](TypeOK /\ Calls)
<1>1. Init => TypeOK /\ Calls
  BY TypeInit, CallsInit
<1>2. TypeOK /\ Calls /\ [Next]_vars => TypeOK' /\ Calls'
  BY TypeStep, CallsStep DEF Calls
<1> QED
  BY <1>1, <1>2, PTL DEF Spec

\* Every variable has its type, for any requests, chains and refusals.
THEOREM TypeCorrect == Spec => []TypeOK
BY IInvHolds, PTL

\* The text a caller is given comes from one path: once a chunk was shown no other model
\* continues the answer.
THEOREM OneVoiceAlways == Spec => []OneVoice
<1>1. Calls => OneVoice
  BY DEF Calls, Spoken, SpokeOnce, OneVoice
<1> QED
  BY <1>1, IInvHolds, PTL

\* A call with a deadline overruns by no more than the last attempt it could still start, the
\* wait for the limiter and the SDK's own second request included.
THEOREM EndsInTimeAlways == Spec => []EndsInTime
<1>1. TypeOK /\ Calls => EndsInTime
  <2> SUFFICES ASSUME TypeOK, Calls, NEW r \in Requests, Deadline[r] # 0,
                      pc[r] \in {"waiting", "calling"}
               PROVE  now <= Deadline[r] - MinAttempt + (IF Provider(r) = Native THEN 0 ELSE MaxWait) + Longest(r)
    BY DEF EndsInTime
  <2>1. now \in Nat /\ began[r] \in Nat /\ Deadline[r] \in Nat /\ Longest(r) \in Nat
    BY Times, LongestType DEF TypeOK
  <2>2. pc[r] = "waiting" => Provider(r) # Native
    BY LlmAssumption DEF Calls, OnPath, OnItsPath
  <2> QED
    BY <2>1, <2>2, Times DEF Calls, Timely, InTime
<1> QED
  BY <1>1, IInvHolds, PTL

\* No request runs out of retries over its thinking configuration: each refusal takes it one
\* rung up, and there are fewer rungs than retries.
THEOREM ConvergesAlways == Spec => []Converges
<1>1. TypeOK /\ Calls => Converges
  <2> SUFFICES ASSUME TypeOK, Calls, NEW r \in Requests, pc[r] = "calling", Cut(r)
               PROVE  tries[r] < MaxTries
    BY DEF Converges
  <2>1. cfg[r] \in Levels \cup Budgets
    <3>1. cfg[r] \in Config
      BY DEF TypeOK, Config
    <3> QED
      BY <3>1 DEF Config, Cut, Refused
  <2>2. tries[r] \in Nat /\ tries[r] <= MostTries(cfg[r])
    BY <2>1 DEF TypeOK, Calls, Climbing, FewTries, Levels, Budgets, NoConfig, Range, Ladder
  <2>3. MostTries(cfg[r]) \in 1..5
    <3>1. CASE cfg[r] \in Budgets
      BY <3>1 DEF MostTries
    <3>2. CASE cfg[r] \notin Budgets
      <4>1. cfg[r] \in {"MINIMAL", "LOW", "MEDIUM", "HIGH"}
        BY <2>1, <3>2, ConfigTypes
      <4> QED
        BY <3>2, <4>1 DEF MostTries
    <3> QED
      BY <3>1, <3>2
  <2>4. MaxTries = 6
    BY DEF MaxTries, Ladder
  <2> QED
    BY <2>2, <2>3, <2>4
<1> QED
  BY <1>1, IInvHolds, PTL

-----------------------------------------------------------------------------
(* The rate limiter. *)

\* What is left of the record is still the end of what was let pass.
LEMMA Trim ==
  ASSUME TypeOK, NEW p \in Providers, Remembered(p)
  PROVE  \E d \in 0..Len(sends[p]) :
           /\ Len(Fresh(p)) = Len(sends[p]) - d
           /\ \A i \in 1..Len(Fresh(p)) : Fresh(p)[i] = sends[p][d + i]
           /\ \A i \in 1..d : now - sends[p][i] >= Window
<1>1. /\ sent[p] \in Seq(Nat) /\ sends[p] \in Seq(Nat) /\ now \in Nat /\ Window \in Nat
      /\ Fresh(p) \in Seq(Nat)
  BY FreshType, Times DEF TypeOK
<1>2. PICK a \in 0..Len(sends[p]) :
        /\ Len(sent[p]) = Len(sends[p]) - a
        /\ \A i \in 1..Len(sent[p]) : sent[p][i] = sends[p][a + i]
        /\ \A i \in 1..a : now - sends[p][i] >= Window
  BY DEF Remembered
<1>3. PICK b \in 0..Len(sent[p]) :
        /\ Fresh(p) = SubSeq(sent[p], b + 1, Len(sent[p]))
        /\ \A k \in 1..b : now - sent[p][k] >= Window
  <2>1. Window \in Int
    BY <1>1
  <2> QED
    BY <1>1, <2>1, Drops DEF Fresh
<1>4. /\ Len(Fresh(p)) = Len(sent[p]) - b
      /\ \A i \in 1..Len(Fresh(p)) : Fresh(p)[i] = sent[p][b + i]
  BY <1>1, <1>3
<1> DEFINE n == Len(sends[p])
<1>5. n \in Nat /\ Len(sent[p]) = n - a /\ a + b \in 0..n /\ Len(Fresh(p)) = n - (a + b)
  <2>1. n \in Nat /\ Len(sent[p]) \in Nat /\ a \in 0..n /\ b \in 0..Len(sent[p])
    BY <1>1, <1>2, <1>3
  <2>2. Len(sent[p]) = n - a /\ Len(Fresh(p)) = Len(sent[p]) - b
    BY <1>2, <1>4
  <2> HIDE DEF n
  <2> QED
    BY <2>1, <2>2
<1>6. ASSUME NEW i \in 1..Len(Fresh(p)) PROVE Fresh(p)[i] = sends[p][(a + b) + i]
  <2>1. b + i \in 1..Len(sent[p])
    BY <1>3, <1>5
  <2>2. a + (b + i) = (a + b) + i
    BY <1>2, <1>3, <2>1
  <2> QED
    BY <1>2, <1>4, <2>1, <2>2
<1>7. ASSUME NEW i \in 1..(a + b) PROVE now - sends[p][i] >= Window
  <2>1. CASE i <= a
    BY <1>2, <2>1
  <2>2. CASE i > a
    <3>1. i - a \in 1..b /\ a + (i - a) = i /\ i - a \in 1..Len(sent[p])
      BY <1>2, <1>3, <1>5, <2>2
    <3>2. sent[p][i - a] = sends[p][i]
      BY <1>2, <3>1
    <3> QED
      BY <1>3, <3>1, <3>2
  <2> QED
    BY <1>2, <2>1, <2>2
<1> QED
  BY <1>5, <1>6, <1>7

LEMMA GivesUpWindows ==
  ASSUME TypeOK, Windows, NEW p \in Providers, sent'[p] = Fresh(p), sends'[p] = sends[p], now' = now
  PROVE  Remembered(p)' /\ Past(p)' /\ Spaced(p)'
<1>1. Remembered(p)'
  <2>1. PICK d \in 0..Len(sends[p]) :
          /\ Len(Fresh(p)) = Len(sends[p]) - d
          /\ \A i \in 1..Len(Fresh(p)) : Fresh(p)[i] = sends[p][d + i]
          /\ \A i \in 1..d : now - sends[p][i] >= Window
    BY Trim DEF Windows
  <2> QED
    BY <2>1 DEF Remembered
<1>2. Past(p)' /\ Spaced(p)'
  BY DEF Windows, Past, Spaced
<1> QED
  BY <1>1, <1>2

LEMMA AcquireWindows ==
  ASSUME TypeOK, Windows, NEW p \in Providers, ~Full(p), now' = now,
         sent'[p] = Append(Fresh(p), now), sends'[p] = Append(sends[p], now)
  PROVE  Remembered(p)' /\ Past(p)' /\ Spaced(p)'
<1>1. /\ sends[p] \in Seq(Nat) /\ now \in Nat /\ Window \in Nat /\ Rpm[p] \in Nat
      /\ Fresh(p) \in Seq(Nat)
  BY FreshType, Times DEF TypeOK
<1> DEFINE n == Len(sends[p])
<1>2. PICK d \in 0..n :
        /\ Len(Fresh(p)) = n - d
        /\ \A i \in 1..Len(Fresh(p)) : Fresh(p)[i] = sends[p][d + i]
        /\ \A i \in 1..d : now - sends[p][i] >= Window
  BY Trim DEF Windows
<1>3. /\ n \in Nat /\ Len(sends[p])' = n + 1
      /\ sends'[p][n + 1] = now /\ \A i \in 1..n : sends'[p][i] = sends[p][i] /\ sends[p][i] \in Nat
  <2> DEFINE f == sends[p]
  <2>1. f \in Seq(Nat) /\ sends'[p] = Append(f, now) /\ n = Len(f)
    BY <1>1
  <2> HIDE DEF f, n
  <2>2. n \in Nat /\ \A i \in 1..n : f[i] \in Nat
    BY <2>1
  <2>3. /\ Len(Append(f, now)) = n + 1 /\ Append(f, now)[n + 1] = now
        /\ \A i \in 1..n : Append(f, now)[i] = f[i]
    BY <1>1, <2>1
  <2>4. Len(sends'[p]) = n + 1 /\ sends'[p][n + 1] = now /\ \A i \in 1..n : sends'[p][i] = f[i]
    BY <2>1, <2>3
  <2>5. Len(sends[p])' = Len(sends'[p])
    OBVIOUS
  <2> QED
    BY <2>2, <2>4, <2>5 DEF f
<1>4. /\ Len(sent[p])' = Len(Fresh(p)) + 1 /\ sent'[p][Len(Fresh(p)) + 1] = now
      /\ \A i \in 1..Len(Fresh(p)) : sent'[p][i] = Fresh(p)[i]
  <2> DEFINE f == Fresh(p)
  <2>1. f \in Seq(Nat) /\ sent'[p] = Append(f, now)
    BY <1>1
  <2> HIDE DEF f
  <2>2. /\ Len(Append(f, now)) = Len(f) + 1 /\ Append(f, now)[Len(f) + 1] = now
        /\ \A i \in 1..Len(f) : Append(f, now)[i] = f[i]
    BY <1>1, <2>1
  <2>3. Len(sent[p])' = Len(f) + 1 /\ sent'[p][Len(f) + 1] = now /\ \A i \in 1..Len(f) : sent'[p][i] = f[i]
    BY <2>1, <2>2
  <2> QED
    BY <2>3 DEF f
<1> HIDE DEF n
<1>5. Remembered(p)'
  <2>1. d \in 0..Len(sends[p])' /\ Len(sent[p])' = Len(sends[p])' - d
    BY <1>2, <1>3, <1>4
  <2>2. ASSUME NEW i \in 1..Len(sent[p])' PROVE sent'[p][i] = sends'[p][d + i]
    <3>1. CASE i \in 1..Len(Fresh(p))
      <4>1. d + i \in 1..n
        BY <1>2, <1>3, <3>1
      <4> QED
        BY <1>2, <1>3, <1>4, <3>1, <4>1
    <3>2. CASE i = Len(Fresh(p)) + 1
      <4>1. d + i = n + 1
        BY <1>2, <1>3, <3>2
      <4> QED
        BY <1>3, <1>4, <3>2, <4>1
    <3>3. Len(Fresh(p)) \in Nat
      BY <1>1
    <3>4. i \in 1..Len(Fresh(p)) + 1
      BY <1>4
    <3>5. i \in 1..Len(Fresh(p)) \/ i = Len(Fresh(p)) + 1
      <4> DEFINE m == Len(Fresh(p))
      <4>1. m \in Nat /\ i \in 1..m + 1
        BY <3>3, <3>4
      <4> HIDE DEF m
      <4>2. i \in 1..m \/ i = m + 1
        BY <4>1
      <4> QED
        BY <4>2 DEF m
    <3> QED
      BY <3>1, <3>2, <3>5, Zenon
  <2>3. ASSUME NEW i \in 1..d PROVE now' - sends'[p][i] >= Window
    BY <1>2, <1>3
  <2> QED
    BY <2>1, <2>2, <2>3 DEF Remembered
<1>6. Past(p)'
  <2>1. \A i \in 1..n : sends[p][i] <= now
    BY DEF Windows, Past, n
  <2> QED
    BY <1>1, <1>3, <2>1 DEF Past
<1>7. Spaced(p)'
  <2> SUFFICES ASSUME Rpm[p] > 0, NEW i \in 1..n + 1, NEW j \in 1..n + 1, j >= i + Rpm[p]
               PROVE  sends'[p][j] - sends'[p][i] >= Window
    BY <1>3 DEF Spaced
  <2>1. i \in 1..n
    BY <1>1, <1>3
  <2>2. CASE j \in 1..n
    BY <1>3, <2>1, <2>2 DEF Windows, Spaced, n
  <2>3. CASE j = n + 1
    <3>1. i \in 1..d
      <4>1. ~(n - d >= Rpm[p])
        BY <1>2 DEF Full
      <4> QED
        BY <1>1, <1>3, <2>1, <2>3, <4>1
    <3> QED
      BY <1>2, <1>3, <2>1, <2>3, <3>1
  <2> QED
    BY <1>3, <2>2, <2>3
<1> QED
  BY <1>5, <1>6, <1>7

LEMMA WindowsInit == Init => Windows
<1> SUFFICES ASSUME Init, NEW p \in Providers PROVE Remembered(p) /\ Past(p) /\ Spaced(p)
  BY DEF Windows
<1>1. sent[p] = <<>> /\ sends[p] = <<>> /\ Len(sends[p]) = 0
  BY DEF Init
<1> QED
  BY <1>1 DEF Remembered, Past, Spaced

LEMMA WindowsStay ==
  ASSUME TypeOK, Windows, sent' = sent, sends' = sends, now' \in {now, now + 1}
  PROVE  Windows'
<1> SUFFICES ASSUME NEW p \in Providers PROVE Remembered(p)' /\ Past(p)' /\ Spaced(p)'
  BY DEF Windows
<1>1. sends[p] \in Seq(Nat) /\ now \in Nat /\ Window \in Nat
  BY Times DEF TypeOK
<1>2. Remembered(p)'
  <2>1. PICK d \in 0..Len(sends[p]) :
          /\ Len(sent[p]) = Len(sends[p]) - d
          /\ \A i \in 1..Len(sent[p]) : sent[p][i] = sends[p][d + i]
          /\ \A i \in 1..d : now - sends[p][i] >= Window
    BY DEF Windows, Remembered
  <2>2. ASSUME NEW i \in 1..d PROVE now' - sends[p][i] >= Window
    <3>1. sends[p][i] \in Nat /\ now - sends[p][i] >= Window
      BY <1>1, <2>1
    <3> QED
      BY <1>1, <3>1
  <2> QED
    BY <2>1, <2>2 DEF Remembered
<1>3. Past(p)'
  <2>1. ASSUME NEW i \in 1..Len(sends[p]) PROVE sends[p][i] <= now'
    <3>1. sends[p][i] \in Nat /\ sends[p][i] <= now
      BY <1>1 DEF Windows, Past
    <3> QED
      BY <1>1, <3>1
  <2> QED
    BY <2>1 DEF Past
<1>4. Spaced(p)'
  BY DEF Windows, Spaced
<1> QED
  BY <1>2, <1>3, <1>4

LEMMA WindowsStep ==
  ASSUME TypeOK, OnPath, Windows, [Next]_vars
  PROVE  Windows'
<1>1. ASSUME NEW r \in Requests, Acquire(r) PROVE Windows'
  <2> DEFINE p == Provider(r)
  <2>1. p \in Providers /\ ~Full(p) /\ now' = now
    BY <1>1 DEF Acquire, OnPath, OnItsPath
  <2>2. /\ sent' = [sent EXCEPT ![p] = Append(Fresh(p), now)]
        /\ sends' = [sends EXCEPT ![p] = Append(sends[p], now)]
    BY <1>1 DEF Acquire
  <2> HIDE DEF p
  <2>3. ASSUME NEW q \in Providers, q # p PROVE Remembered(q)' /\ Past(q)' /\ Spaced(q)'
    <3>1. sent'[q] = sent[q] /\ sends'[q] = sends[q]
      BY <2>2, <2>3 DEF TypeOK
    <3> QED
      BY <2>1, <3>1 DEF Windows, Remembered, Past, Spaced
  <2>4. ASSUME NEW q \in Providers, q = p PROVE Remembered(q)' /\ Past(q)' /\ Spaced(q)'
    <3>1. sent'[q] = Append(Fresh(q), now) /\ sends'[q] = Append(sends[q], now)
      BY <2>1, <2>2, <2>4 DEF TypeOK
    <3> QED
      BY <2>1, <2>4, <3>1, AcquireWindows
  <2> QED
    BY <2>3, <2>4 DEF Windows
<1>2. ASSUME NEW r \in Requests, GivesUp(r) PROVE Windows'
  <2> DEFINE p == Provider(r)
  <2>1. p \in Providers /\ now' = now /\ sends' = sends
    BY <1>2 DEF GivesUp, OnPath, OnItsPath
  <2>2. sent' = [sent EXCEPT ![p] = Fresh(p)]
    BY <1>2 DEF GivesUp
  <2> HIDE DEF p
  <2>3. ASSUME NEW q \in Providers, q # p PROVE Remembered(q)' /\ Past(q)' /\ Spaced(q)'
    <3>1. sent'[q] = sent[q] /\ sends'[q] = sends[q]
      BY <2>1, <2>2, <2>3 DEF TypeOK
    <3> QED
      BY <2>1, <3>1 DEF Windows, Remembered, Past, Spaced
  <2>4. ASSUME NEW q \in Providers, q = p PROVE Remembered(q)' /\ Past(q)' /\ Spaced(q)'
    <3>1. sent'[q] = Fresh(q) /\ sends'[q] = sends[q]
      BY <2>1, <2>2, <2>4 DEF TypeOK
    <3> QED
      BY <2>1, <2>4, <3>1, GivesUpWindows
  <2> QED
    BY <2>3, <2>4 DEF Windows
<1>3. ASSUME NEW r \in Requests, Begin(r) \/ (Step(r) /\ ~Acquire(r) /\ ~GivesUp(r))
      PROVE  sent' = sent /\ sends' = sends /\ now' = now
  BY <1>3 DEF Begin, Step, Exhausted, OutOfTime, Skip, Unconfigured, Attempt, Retry, BadRequest,
     Misread, Transient, Answer, FirstChunk, StreamEnds, Breaks, shared
<1>4. Tick \/ UNCHANGED vars => sent' = sent /\ sends' = sends /\ now' \in {now, now + 1}
  BY DEF Tick, vars, shared
<1> QED
  BY <1>1, <1>2, <1>3, <1>4, WindowsStay DEF Next, Step

\* No provider is sent more requests than its cap in any window, by however many threads.
THEOREM WindowRespectedAlways == Spec => []WindowRespected
<1>1. TypeOK /\ Windows => WindowRespected
  <2> SUFFICES ASSUME TypeOK, Windows, NEW p \in Providers, Rpm[p] > 0, NEW t \in 0..now
               PROVE  Cardinality({i \in DOMAIN sends[p] :
                         t <= sends[p][i] /\ sends[p][i] < t + Window}) <= Rpm[p]
    BY DEF WindowRespected
  <2> DEFINE S == {i \in DOMAIN sends[p] : t <= sends[p][i] /\ sends[p][i] < t + Window}
             n == Len(sends[p])
  <2>1. n \in Nat /\ DOMAIN sends[p] = 1..n /\ Rpm[p] \in Nat /\ t \in Nat /\ Window \in Nat
    BY Times DEF TypeOK
  <2>2. \A i \in 1..n : sends[p][i] \in Nat
    BY DEF TypeOK
  <2>3. CASE S = {}
    <3> HIDE DEF S
    <3> QED
      BY <2>1, <2>3, FS_EmptySet DEF S
  <2>4. CASE S # {}
    <3>1. S \in SUBSET Nat
      BY <2>1
    <3>2. PICK m \in S : \A i \in S : m <= i
      BY <2>4, <3>1, Least
    <3>3. ASSUME NEW i \in S PROVE i \in m..m + Rpm[p] - 1
      <4>1. /\ m \in 1..n /\ i \in 1..n /\ m <= i
            /\ t <= sends[p][m] /\ sends[p][i] < t + Window
        BY <2>1, <3>2, <3>3
      <4>2. i >= m + Rpm[p] => sends[p][i] - sends[p][m] >= Window
        BY <4>1 DEF Windows, Spaced
      <4>3. sends[p][i] \in Nat /\ sends[p][m] \in Nat
        BY <2>2, <4>1
      <4> QED
        BY <2>1, <4>1, <4>2, <4>3
    <3>4. m \in Nat
      BY <3>1, <3>2
    <3> HIDE DEF S
    <3>5. IsFiniteSet(m..m + Rpm[p] - 1) /\ Cardinality(m..m + Rpm[p] - 1) = Rpm[p]
      <4> DEFINE last == m + Rpm[p] - 1
      <4>1. last \in Int /\ ~(m > last) /\ last - m + 1 = Rpm[p] /\ m \in Int
        BY <2>1, <3>4
      <4> HIDE DEF last
      <4>2. IsFiniteSet(m..last) /\ Cardinality(m..last) = Rpm[p]
        BY <4>1, FS_Interval
      <4> QED
        BY <4>2 DEF last
    <3>6. S \in SUBSET (m..m + Rpm[p] - 1)
      BY <3>3
    <3>7. Cardinality(S) <= Rpm[p]
      BY <3>5, <3>6, FS_Subset
    <3> QED
      BY <3>7 DEF S
  <2> QED
    BY <2>3, <2>4
<1>2. Init => Windows
  BY WindowsInit
<1>3. TypeOK /\ Calls /\ Windows /\ [Next]_vars => Windows'
  BY WindowsStep DEF Calls
<1> QED
  BY <1>1, <1>2, <1>3, IInvHolds, PTL DEF Spec

-----------------------------------------------------------------------------
(***************************************************************************)
(* The breaker.                                                            *)
(***************************************************************************)
Unlike(s) == \A i, j \in DOMAIN s : s[i] = s[j] => i = j

\* LLM_PROVIDER_ORDER names no provider twice.
NoRepeats == \A c \in Configs : Unlike(c.order)

LEMMA UpToN ==
  ASSUME NEW n \in Nat
  PROVE  IsFiniteSet(1..n) /\ Cardinality(1..n) = n
  BY FS_Interval

Upto(places, i) == {j \in places : j <= i}
Number(places, i) == Cardinality(Upto(places, i))

\* Positions are numbered from 1 on without a gap.
LEMMA Numbering ==
  ASSUME NEW places, IsFiniteSet(places), places \subseteq Nat
  PROVE  /\ Cardinality(places) \in Nat
         /\ \A k \in 1..Cardinality(places) : \E i \in places : Number(places, i) = k
<1>1. Cardinality(places) \in Nat
  BY FS_CardinalityType
<1>2. ASSUME NEW i \in places
      PROVE  IsFiniteSet(Upto(places, i)) /\ Number(places, i) \in 1..Cardinality(places)
  <2>1. Upto(places, i) \subseteq places /\ i \in Upto(places, i)
    BY DEF Upto
  <2>2. /\ IsFiniteSet(Upto(places, i)) /\ Cardinality(Upto(places, i)) <= Cardinality(places)
        /\ Cardinality(Upto(places, i)) \in Nat
    BY <2>1, FS_Subset, FS_CardinalityType
  <2>3. Cardinality(Upto(places, i)) # 0
    BY <2>1, <2>2, FS_EmptySet
  <2> QED
    BY <1>1, <2>2, <2>3 DEF Number
<1>3. ASSUME NEW i \in places, NEW j \in places, Number(places, i) = Number(places, j), i < j
      PROVE  FALSE
  <2>1. i \in Nat /\ j \in Nat /\ ~(j <= i)
    BY <1>3
  <2>3. Upto(places, i) \subseteq Upto(places, j)
    <3>1. ASSUME NEW k \in places, k <= i PROVE k <= j
      <4>1. k \in Nat
        OBVIOUS
      <4> QED
        BY <1>3, <2>1, <3>1, <4>1
    <3>2. \A k \in Upto(places, i) : k \in places /\ k <= i
      BY DEF Upto
    <3>3. \A k \in Upto(places, i) : k \in Upto(places, j)
      BY <3>1, <3>2 DEF Upto
    <3> QED
      BY <3>3
  <2>4. j \in Upto(places, j) /\ j \notin Upto(places, i)
    BY <2>1 DEF Upto
  <2>5. Upto(places, i) = Upto(places, j)
    BY <1>2, <1>3, <2>3, FS_Subset DEF Number
  <2> QED
    BY <2>4, <2>5
<1>4. ASSUME NEW i \in places, NEW j \in places, Number(places, i) = Number(places, j)
      PROVE  i = j
  <2>1. ~(i < j) /\ ~(j < i)
    BY <1>3, <1>4
  <2> QED
    BY <2>1
<1> DEFINE f == [i \in places |-> Number(places, i)]
           n == Cardinality(places)
<1>5. f \in Injection(places, 1..n)
  BY <1>2, <1>4 DEF Injection, IsInjective
<1>6. f \in Surjection(places, 1..n)
  <2>1. IsFiniteSet(1..n) /\ Cardinality(1..n) = n
    BY <1>1, UpToN
  <2> HIDE DEF f, n
  <2> QED
    BY <1>5, <2>1, FS_Injection DEF n
<1>7. \A k \in 1..Cardinality(places) : \E i \in places : Number(places, i) = k
  BY <1>6 DEF Surjection
<1> QED
  BY <1>1, <1>7

LEMMA NthIs ==
  ASSUME NEW n \in Nat, NEW places \in SUBSET (1..n), NEW k \in 1..Cardinality(places)
  PROVE  Nth(places, k) \in places /\ Number(places, Nth(places, k)) = k
<1>1. IsFiniteSet(places)
  <2>1. IsFiniteSet(1..n)
    BY UpToN
  <2> QED
    BY <2>1, FS_Subset
<1>2. places \subseteq Nat
  OBVIOUS
<1>3. \E i \in places : Number(places, i) = k
  BY <1>1, <1>2, Numbering
<1> QED
  BY <1>3 DEF Nth, Number, Upto

\* Two lists in a row have no entry twice if neither has and they share none.
LEMMA UnlikeJoin ==
  ASSUME NEW S, NEW a \in Seq(S), NEW b \in Seq(S), Unlike(a), Unlike(b),
         \A i \in DOMAIN a, j \in DOMAIN b : a[i] # b[j]
  PROVE  /\ a \o b \in Seq(S) /\ Unlike(a \o b)
         /\ \A x : (\A i \in DOMAIN a : a[i] # x) /\ (\A i \in DOMAIN b : b[i] # x)
                     => \A i \in DOMAIN (a \o b) : (a \o b)[i] # x
<1> DEFINE c == a \o b
           m == Len(a)
           n == Len(b)
<1>1. /\ m \in Nat /\ n \in Nat /\ DOMAIN a = 1..m /\ DOMAIN b = 1..n
      /\ c \in Seq(S) /\ DOMAIN c = 1..m + n
      /\ \A i \in 1..m : c[i] = a[i]
      /\ \A i \in 1..m + n : i > m => c[i] = b[i - m]
  OBVIOUS
<1> HIDE DEF c, m, n
<1>2. \A i \in 1..m + n : i <= m \/ (i > m /\ i - m \in 1..n)
  BY <1>1
<1>3. \A i \in 1..m + n : i <= m => i \in 1..m
  BY <1>1
<1>4. ASSUME NEW i \in 1..m + n, NEW j \in 1..m + n, c[i] = c[j]
      PROVE  i = j
  <2>1. CASE i <= m /\ j <= m
    BY <1>1, <1>3, <1>4, <2>1 DEF Unlike
  <2>2. CASE i > m /\ j > m
    <3>1. i - m \in 1..n /\ j - m \in 1..n /\ b[i - m] = b[j - m]
      BY <1>1, <1>4, <2>2
    <3>2. i - m = j - m
      BY <1>1, <3>1 DEF Unlike
    <3> QED
      BY <1>1, <3>2
  <2>3. ASSUME NEW x \in 1..m + n, NEW y \in 1..m + n, x <= m, y > m, c[x] = c[y] PROVE FALSE
    <3>1. x \in 1..m /\ y - m \in 1..n
      BY <1>1, <2>3
    <3>2. a[x] = b[y - m]
      BY <1>1, <2>3, <3>1
    <3> QED
      BY <1>1, <3>1, <3>2
  <2> QED
    BY <1>2, <1>4, <2>1, <2>2, <2>3
<1>5. ASSUME NEW x, \A i \in DOMAIN a : a[i] # x, \A i \in DOMAIN b : b[i] # x, NEW i \in 1..m + n
      PROVE  c[i] # x
  BY <1>1, <1>2, <1>3, <1>5
<1> QED
  BY <1>1, <1>4, <1>5 DEF Unlike, c

LEMMA One == ASSUME NEW S, NEW x \in S PROVE <<x>> \in Seq(S) /\ Unlike(<<x>>) /\ \A i \in DOMAIN <<x>> : <<x>>[i] = x
  BY DEF Unlike

LEMMA None == \A S : <<>> \in Seq(S) /\ Unlike(<<>>) /\ DOMAIN <<>> = {}
  BY DEF Unlike

\* The user's order gives each of its providers once, and never the one that was asked.
LEMMA OrderedUnlike ==
  ASSUME NEW order \in Seq({Native} \cup Providers), Unlike(order), NEW p
  PROVE  /\ Ordered(order, p) \in Seq(Paths) /\ Unlike(Ordered(order, p))
         /\ \A i \in DOMAIN Ordered(order, p) : Ordered(order, p)[i][1] # p
<1> DEFINE usable == Usable(order, p)
           n == Cardinality(usable)
           s == Ordered(order, p)
           Provides(k) == order[Nth(usable, k)]
<1>1. Len(order) \in Nat /\ DOMAIN order = 1..Len(order) /\ usable \in SUBSET (1..Len(order))
  BY DEF Usable
<1>2. IsFiniteSet(usable) /\ n \in Nat
  <2>1. IsFiniteSet(1..Len(order))
    BY <1>1, UpToN
  <2> QED
    BY <1>1, <2>1, FS_Subset, FS_CardinalityType
<1>3. \A k \in 1..n : Nth(usable, k) \in usable /\ Number(usable, Nth(usable, k)) = k
  BY <1>1, NthIs
<1>4. \A i \in usable : order[i] \in {Native} \cup Providers /\ order[i] # p
  BY <1>1 DEF Usable
<1>5. s = [k \in 1..n |-> <<Provides(k), DefaultModel[Provides(k)]>>]
  BY DEF Ordered
<1>6. ASSUME NEW k \in 1..n PROVE <<Provides(k), DefaultModel[Provides(k)]>> \in Paths /\ Provides(k) # p
  <2>1. Provides(k) \in {Native} \cup Providers /\ Provides(k) # p
    BY <1>3, <1>4
  <2> HIDE DEF usable
  <2>2. DefaultModel[Provides(k)] \in Models \cup {NoModel}
    BY <2>1, LlmAssumption
  <2> QED
    BY <2>1, <2>2 DEF Paths
<1>7. ASSUME NEW k \in 1..n, NEW l \in 1..n, Provides(k) = Provides(l) PROVE k = l
  <2>1. Nth(usable, k) = Nth(usable, l)
    BY <1>1, <1>3, <1>7 DEF Unlike
  <2> QED
    BY <1>3, <2>1
<1> HIDE DEF s, usable, n
<1>8. s \in Seq(Paths) /\ DOMAIN s = 1..n
  BY <1>2, <1>5, <1>6
<1>9. \A k \in 1..n : s[k][1] = Provides(k)
  BY <1>5
<1>10. \A k, l \in 1..n : s[k] = s[l] => k = l
  BY <1>7, <1>9
<1> QED
  BY <1>6, <1>8, <1>9, <1>10 DEF Unlike, s

LEMMA CrossUnlike ==
  ASSUME NEW fallback \in Providers \cup {Native, NoProvider}, NEW p \in {Native} \cup Providers
  PROVE  /\ CrossProvider(fallback, p) \in Seq(Paths) /\ Unlike(CrossProvider(fallback, p))
         /\ \A i \in DOMAIN CrossProvider(fallback, p) : CrossProvider(fallback, p)[i][1] # p
<1> DEFINE other == IF fallback \in {NoProvider, p} THEN <<>> ELSE <<<<fallback, DefaultModel[fallback]>>>>
           backstop == IF Native \in {p, fallback} \/ DefaultModel[Native] = NoModel THEN <<>>
                       ELSE <<<<Native, DefaultModel[Native]>>>>
<1>1. \A q \in {Native} \cup Providers : <<q, DefaultModel[q]>> \in Paths
  BY LlmAssumption DEF Paths
<1>2. /\ other \in Seq(Paths) /\ Unlike(other)
      /\ \A i \in DOMAIN other : other[i][1] = fallback /\ fallback # p
  <2>1. CASE fallback \in {NoProvider, p}
    <3>1. other = <<>>
      BY <2>1
    <3> HIDE DEF other
    <3> QED
      BY <3>1, None
  <2>2. CASE fallback \notin {NoProvider, p}
    <3> DEFINE x == <<fallback, DefaultModel[fallback]>>
    <3>1. other = <<x>> /\ x \in Paths /\ x[1] = fallback
      BY <1>1, <2>2
    <3> HIDE DEF other, x
    <3> QED
      BY <2>2, <3>1, One
  <2> QED
    BY <2>1, <2>2
<1>3. /\ backstop \in Seq(Paths) /\ Unlike(backstop)
      /\ \A i \in DOMAIN backstop : backstop[i][1] = Native /\ Native \notin {p, fallback}
  <2>1. CASE Native \in {p, fallback} \/ DefaultModel[Native] = NoModel
    <3>1. backstop = <<>>
      BY <2>1
    <3> HIDE DEF backstop
    <3> QED
      BY <3>1, None
  <2>2. CASE ~(Native \in {p, fallback} \/ DefaultModel[Native] = NoModel)
    <3> DEFINE x == <<Native, DefaultModel[Native]>>
    <3>1. backstop = <<x>> /\ x \in Paths /\ x[1] = Native
      BY <1>1, <2>2
    <3> HIDE DEF backstop, x
    <3> QED
      BY <2>2, <3>1, One
  <2> QED
    BY <2>1, <2>2
<1>4. CrossProvider(fallback, p) = other \o backstop
  BY DEF CrossProvider
<1> HIDE DEF other, backstop
<1>5. \A i \in DOMAIN other, j \in DOMAIN backstop : other[i] # backstop[j]
  BY <1>2, <1>3
<1>6. \A x : x[1] = p => (\A i \in DOMAIN other : other[i] # x) /\ (\A i \in DOMAIN backstop : backstop[i] # x)
  BY <1>2, <1>3
<1>7. /\ other \o backstop \in Seq(Paths) /\ Unlike(other \o backstop)
      /\ \A x : x[1] = p => \A i \in DOMAIN (other \o backstop) : (other \o backstop)[i] # x
  BY <1>2, <1>3, <1>5, <1>6, UnlikeJoin
<1> QED
  BY <1>4, <1>7

\* No path is twice in a chain.
LEMMA ChainUnlike ==
  ASSUME NoRepeats, NEW c \in Configs, NEW r \in Requests
  PROVE  Unlike(Attempts(c, r))
<1> DEFINE p == Asked[r][1]
           first == <<Asked[r]>>
           same == SameProvider(p, Asked[r][2])
           rest == IF c.order # <<>> THEN Ordered(c.order, p) ELSE CrossProvider(c.fallback, p)
<1>1. /\ Asked[r] \in Paths /\ p \in {Native} \cup Providers /\ Asked[r][2] \in Models
      /\ Asked[r] = <<p, Asked[r][2]>>
      /\ c.order \in Seq({Native} \cup Providers) /\ c.fallback \in Providers \cup {Native, NoProvider}
  BY LlmAssumption DEF Paths
<1>2. /\ first \in Seq(Paths) /\ Unlike(first) /\ \A i \in DOMAIN first : first[i] = Asked[r]
  BY <1>1, One
<1>3. /\ same \in Seq(Paths) /\ Unlike(same)
      /\ \A i \in DOMAIN same : same[i] # Asked[r] /\ same[i][1] = p
  <2>1. CASE p = Native /\ FallbackModel \notin {NoModel, Asked[r][2]}
    <3> DEFINE x == <<p, FallbackModel>>
    <3>1. same = <<x>>
      BY <2>1 DEF SameProvider
    <3>2. x \in Paths /\ x[1] = p /\ x # Asked[r]
      BY <1>1, <2>1, LlmAssumption DEF Paths
    <3> HIDE DEF same, x
    <3> QED
      BY <3>1, <3>2, One
  <2>2. CASE ~(p = Native /\ FallbackModel \notin {NoModel, Asked[r][2]})
    <3>1. same = <<>>
      BY <2>2 DEF SameProvider
    <3> HIDE DEF same
    <3> QED
      BY <3>1, None
  <2> QED
    BY <2>1, <2>2
<1>4. rest \in Seq(Paths) /\ Unlike(rest) /\ \A i \in DOMAIN rest : rest[i][1] # p
  <2>1. CASE c.order # <<>>
    BY <1>1, <2>1, OrderedUnlike DEF NoRepeats
  <2>2. CASE c.order = <<>>
    BY <1>1, <2>2, CrossUnlike
  <2> QED
    BY <2>1, <2>2
<1>5. Attempts(c, r) = (first \o same) \o rest
  BY DEF Attempts
<1> HIDE DEF p, first, same, rest
<1>6. /\ first \o same \in Seq(Paths) /\ Unlike(first \o same)
      /\ \A x : (\A i \in DOMAIN first : first[i] # x) /\ (\A i \in DOMAIN same : same[i] # x)
                  => \A i \in DOMAIN (first \o same) : (first \o same)[i] # x
  BY <1>2, <1>3, UnlikeJoin
<1>7. \A j \in DOMAIN rest : \A i \in DOMAIN (first \o same) : (first \o same)[i] # rest[j]
  <2>1. ASSUME NEW j \in DOMAIN rest
        PROVE  /\ \A i \in DOMAIN first : first[i] # rest[j]
               /\ \A i \in DOMAIN same : same[i] # rest[j]
    BY <1>1, <1>2, <1>3, <1>4 DEF p
  <2> QED
    BY <1>6, <2>1
<1> DEFINE front == first \o same
<1>8. front \in Seq(Paths) /\ Unlike(front) /\ \A i \in DOMAIN front, j \in DOMAIN rest : front[i] # rest[j]
  BY <1>6, <1>7
<1> HIDE DEF front
<1>9. Unlike(front \o rest)
  BY <1>4, <1>8, UnlikeJoin
<1> QED
  BY <1>5, <1>9 DEF front

\* A request that is past a path, or over.
Behind(r, k) ==
  /\ pc[r] # "new"
  /\ pc[r] \in Walking => \E i \in 1..at[r] - 1 : i \in DOMAIN chain[r] /\ chain[r][i] = k

\* The failures of a path are counted exactly, and are of requests that will not see it again.
Blamed(k) ==
  /\ IsFiniteSet(blame[k]) /\ failures[k] = Cardinality(blame[k])
  /\ \A r \in blame[k] : Behind(r, k)
Blames == \A k \in Paths : Blamed(k)

LEMMA BlamesInit == Init => Blames
<1> SUFFICES ASSUME Init, NEW k \in Paths PROVE Blamed(k)
  BY DEF Blames
<1>1. blame[k] = {} /\ failures[k] = 0
  BY DEF Init
<1> QED
  BY <1>1, FS_EmptySet DEF Blamed

\* A request goes forward in its chain.
LEMMA Forward ==
  ASSUME TypeOK, NEW r \in Requests, Step(r)
  PROVE  /\ pc'[r] # "new"
         /\ pc'[r] \in Walking => pc[r] \in Walking /\ chain'[r] = chain[r] /\ at'[r] \in {at[r], at[r] + 1}
<1> USE DEF TypeOK, Goes
<1>1. ASSUME NEW how \in Over, Ends(r, how)
      PROVE  pc'[r] \in Over
  BY <1>1 DEF Ends
<1>2. ASSUME NextPath(r)
      PROVE  pc'[r] = "loop" /\ chain'[r] = chain[r] /\ at'[r] = at[r] + 1
  BY <1>2 DEF NextPath
<1>3. "failed" \in Over /\ "answered" \in Over /\ Over \cap (Walking \cup {"new"}) = {}
  BY DEF Over, Walking
<1>4. CASE Exhausted(r) \/ OutOfTime(r) \/ Unconfigured(r) \/ BadRequest(r) \/ Breaks(r)
  BY <1>1, <1>3, <1>4 DEF Exhausted, OutOfTime, Unconfigured, BadRequest, Breaks
<1>5. CASE Skip(r) \/ GivesUp(r) \/ Transient(r)
  BY <1>2, <1>5 DEF Skip, AtPath, GivesUp, Transient, Fails, Walking
<1>6. CASE Attempt(r)
  BY <1>6 DEF Attempt, AtPath, Walking
<1>7. CASE Acquire(r)
  BY <1>7 DEF Acquire, Walking
<1>8. CASE Retry(r)
  BY <1>2, <1>8 DEF Retry, Fails, Walking
<1>9. CASE Misread(r)
  BY <1>9 DEF Misread, Walking
<1>10. CASE Answer(r) \/ StreamEnds(r)
  BY <1>1, <1>3, <1>10 DEF Answer, StreamEnds, Answers
<1>11. CASE FirstChunk(r)
  BY <1>11 DEF FirstChunk, Walking
<1> QED
  BY <1>4, <1>5, <1>6, <1>7, <1>8, <1>9, <1>10, <1>11 DEF Step

\* Whoever is past a path stays past it.
LEMMA BehindStays ==
  ASSUME TypeOK, NEW r \in Requests, Begin(r) \/ Step(r), NEW q \in Requests, NEW k, Behind(q, k)
  PROVE  Behind(q, k)'
<1>1. CASE q # r
  BY <1>1, OthersStay DEF Behind
<1>2. CASE q = r
  <2>1. Step(r)
    BY <1>2 DEF Behind, Begin
  <2>2. SUFFICES ASSUME pc'[r] \in Walking
                 PROVE  \E i \in 1..at'[r] - 1 : i \in DOMAIN chain'[r] /\ chain'[r][i] = k
    BY <1>2, <2>1, Forward DEF Behind
  <2>3. pc[r] \in Walking /\ chain'[r] = chain[r] /\ at'[r] \in {at[r], at[r] + 1}
    BY <2>1, <2>2, Forward
  <2>4. PICK i \in 1..at[r] - 1 : i \in DOMAIN chain[r] /\ chain[r][i] = k
    BY <1>2, <2>3 DEF Behind
  <2>5. at[r] \in Nat
    BY DEF TypeOK
  <2>6. i \in 1..at'[r] - 1
    BY <2>3, <2>4, <2>5
  <2> QED
    BY <2>3, <2>4, <2>6
<1> QED
  BY <1>1, <1>2

\* Steps that count nothing.
LEMMA Uncounted ==
  ASSUME TypeOK, Blames, NEW k \in Paths, failures'[k] = failures[k], blame'[k] = blame[k],
         \A q \in blame[k] : Behind(q, k)'
  PROVE  Blamed(k)'
BY DEF Blames, Blamed

\* A request that fails was not counted at this path before.
LEMMA FailsCounts ==
  ASSUME NoRepeats, TypeOK, OnPath, Blames, NEW r \in Requests, NEW e \in {"provider", "rateLimit"},
         Fails(r, e), pc[r] \in {"waiting", "calling"}, conf' = conf, NEW k \in Paths,
         \A q \in Requests : Behind(q, k) => Behind(q, k)'
  PROVE  /\ Blamed(k)'
         /\ openUntil'[k] > openUntil[k] => Cardinality(blame[k]) + 1 >= TripAfter
<1>1. /\ blame[k] \in SUBSET Requests /\ IsFiniteSet(blame[k]) /\ failures[k] = Cardinality(blame[k])
      /\ \A q \in blame[k] : Behind(q, k) /\ Behind(q, k)'
  BY DEF TypeOK, Blames, Blamed
<1>2. failures[k] \in Nat /\ openUntil[k] \in Nat /\ TripAfter \in Nat
  BY Times DEF TypeOK
<1> DEFINE opens == Counts(e) /\ Trips(failures[Path(r)])
<1>3. CASE k # Path(r) \/ ~Counts(e)
  <2>1. failures'[k] = failures[k] /\ blame'[k] = blame[k] /\ openUntil'[k] = openUntil[k]
    <3>1. CASE k # Path(r)
      BY <3>1 DEF Fails, TypeOK
    <3>2. CASE ~Counts(e)
      BY <3>2 DEF Fails, TypeOK, Counts
    <3> QED
      BY <1>3, <3>1, <3>2
  <2>2. Blamed(k)'
    BY <1>1, <2>1, Uncounted
  <2> QED
    BY <1>2, <2>1, <2>2
<1>4. CASE k = Path(r) /\ Counts(e)
  <2>1. e = "provider"
    BY <1>4 DEF Counts
  <2>2. CASE Trips(failures[k])
    <3>1. blame'[k] = {} /\ failures'[k] = 0
      BY <1>4, <2>2 DEF Fails, TypeOK
    <3>2. Blamed(k)'
      BY <3>1, FS_EmptySet DEF Blamed
    <3>3. Cardinality(blame[k]) + 1 >= TripAfter
      BY <1>1, <2>2 DEF Trips
    <3> QED
      BY <3>2, <3>3
  <2>3. CASE ~Trips(failures[k])
    <3>1. /\ blame'[k] = blame[k] \cup {r} /\ failures'[k] = failures[k] + 1
          /\ openUntil'[k] = openUntil[k]
      BY <1>4, <2>1, <2>3 DEF Fails, TypeOK
    <3>2. chain[r] = Attempts(conf, r) /\ at[r] \in DOMAIN chain[r] /\ pc[r] \in Walking
      BY DEF OnPath, OnItsPath, Walking
    <3>3. Unlike(chain[r])
      BY <3>2, ChainUnlike DEF TypeOK
    <3>4. at[r] \in Nat \ {0}
      BY DEF TypeOK
    <3>5. ASSUME NEW i \in 1..at[r] - 1, i \in DOMAIN chain[r], chain[r][i] = k PROVE FALSE
      <4>1. i = at[r]
        BY <1>4, <3>2, <3>3, <3>5 DEF Unlike, Path
      <4> QED
        BY <3>4, <3>5, <4>1
    <3>6. r \notin blame[k]
      BY <1>1, <3>2, <3>5 DEF Behind
    <3>7. /\ IsFiniteSet(blame[k] \cup {r})
          /\ Cardinality(blame[k] \cup {r}) = Cardinality(blame[k]) + 1
      BY <1>1, <3>6, FS_AddElement
    <3>8. Behind(r, k)'
      <4>1. pc'[r] = "loop" /\ chain'[r] = chain[r] /\ at'[r] = at[r] + 1
        BY DEF Fails, NextPath, Goes, TypeOK
      <4>2. at[r] \in 1..at'[r] - 1
        BY <3>4, <4>1
      <4> QED
        BY <1>4, <3>2, <4>1, <4>2 DEF Behind, Path
    <3>9. \A q \in blame'[k] : Behind(q, k)'
      BY <1>1, <3>1, <3>8
    <3>10. IsFiniteSet(blame'[k]) /\ failures'[k] = Cardinality(blame'[k])
      BY <1>1, <3>1, <3>7
    <3> QED
      BY <1>2, <3>1, <3>9, <3>10 DEF Blamed
  <2> QED
    BY <2>2, <2>3
<1> QED
  BY <1>3, <1>4

\* An answer forgets every failure of its path.
LEMMA AnswersForget ==
  ASSUME TypeOK, Blames, NEW r \in Requests, Answers(r), NEW k \in Paths,
         \A q \in Requests : Behind(q, k) => Behind(q, k)'
  PROVE  Blamed(k)' /\ ~(openUntil'[k] > openUntil[k])
<1>1. CASE k = Path(r)
  <2>1. blame'[k] = {} /\ failures'[k] = 0 /\ openUntil'[k] = 0 /\ openUntil[k] \in Nat
    BY <1>1 DEF Answers, Clears, TypeOK
  <2>2. Blamed(k)'
    BY <2>1, FS_EmptySet DEF Blamed
  <2> QED
    BY <2>1, <2>2
<1>2. CASE k # Path(r)
  <2>1. /\ failures'[k] = failures[k] /\ blame'[k] = blame[k] /\ openUntil'[k] = openUntil[k]
        /\ openUntil[k] \in Nat /\ blame[k] \in SUBSET Requests
    BY <1>2 DEF Answers, Clears, TypeOK
  <2>2. Blamed(k)'
    BY <2>1, Uncounted DEF Blames, Blamed
  <2> QED
    BY <2>1, <2>2
<1> QED
  BY <1>1, <1>2

LEMMA BlamesStep ==
  ASSUME NoRepeats, TypeOK, Calls, Blames, [Next]_vars, NEW k \in Paths
  PROVE  /\ Blamed(k)'
         /\ openUntil'[k] > openUntil[k] => Cardinality(blame[k]) + 1 >= TripAfter
<1>1. openUntil[k] \in Nat /\ blame[k] \in SUBSET Requests
  BY DEF TypeOK
<1>2. CASE UNCHANGED <<failures, openUntil, blame>> /\ \A q \in Requests : Behind(q, k) => Behind(q, k)'
  <2>1. \A q \in blame[k] : Behind(q, k)'
    BY <1>1, <1>2 DEF Blames, Blamed
  <2>2. Blamed(k)'
    BY <1>2, <2>1, Uncounted
  <2> QED
    BY <1>1, <1>2, <2>2
<1>3. CASE Tick \/ UNCHANGED vars
  <2>1. UNCHANGED <<failures, openUntil, blame, pc, chain, at>>
    BY <1>3 DEF Tick, vars, shared, private
  <2> QED
    BY <1>2, <2>1 DEF Behind
<1>4. ASSUME NEW r \in Requests, Begin(r) \/ Step(r)
      PROVE  /\ Blamed(k)'
             /\ openUntil'[k] > openUntil[k] => Cardinality(blame[k]) + 1 >= TripAfter
  <2>1. \A q \in Requests : Behind(q, k) => Behind(q, k)'
    BY <1>4, BehindStays
  <2>2. conf' = conf
    BY <1>4 DEF Begin, Step, Exhausted, OutOfTime, Skip, Unconfigured, Attempt, Acquire, GivesUp, Retry,
       BadRequest, Misread, Transient, Answer, FirstChunk, StreamEnds, Breaks
  <2>3. OnPath
    BY DEF Calls
  <2>4. CASE GivesUp(r)
    BY <2>1, <2>2, <2>3, <2>4, FailsCounts DEF GivesUp
  <2>5. CASE Transient(r)
    BY <2>1, <2>2, <2>3, <2>5, FailsCounts DEF Transient
  <2>6. CASE Retry(r) /\ Fails(r, "provider")
    BY <2>1, <2>2, <2>3, <2>6, FailsCounts DEF Retry
  <2>7. CASE Answer(r) \/ StreamEnds(r)
    BY <2>1, <2>7, AnswersForget DEF Answer, StreamEnds
  <2>8. CASE \/ Begin(r) \/ Exhausted(r) \/ OutOfTime(r) \/ Skip(r) \/ Unconfigured(r) \/ Attempt(r)
             \/ Acquire(r) \/ (Retry(r) /\ ~Fails(r, "provider")) \/ BadRequest(r) \/ Misread(r)
             \/ FirstChunk(r) \/ Breaks(r)
    <3>1. UNCHANGED <<failures, openUntil, blame>>
      BY <2>8 DEF Begin, Exhausted, OutOfTime, Skip, Unconfigured, Attempt, Acquire, Retry, BadRequest,
         Misread, FirstChunk, Breaks, shared
    <3> QED
      BY <1>2, <2>1, <3>1
  <2> QED
    BY <1>4, <2>4, <2>5, <2>6, <2>7, <2>8 DEF Step
<1> QED
  BY <1>3, <1>4 DEF Next

\* A path is skipped only after _CIRCUIT_TRIP_AFTER requests saw the provider fail with no answer
\* in between (_circuit_fail, _circuit_clear), if LLM_PROVIDER_ORDER names no provider twice.
THEOREM OpensOnConsecutiveFailuresAlways == NoRepeats => (Spec => OpensOnConsecutiveFailures)
<1> SUFFICES ASSUME NoRepeats PROVE Spec => OpensOnConsecutiveFailures
  OBVIOUS
<1>1. Init => Blames
  BY BlamesInit
<1>2. TypeOK /\ Calls /\ Blames /\ [Next]_vars => Blames'
  <2> SUFFICES ASSUME TypeOK, Calls, Blames, [Next]_vars PROVE Blames'
    OBVIOUS
  <2>1. \A k \in Paths : Blamed(k)'
    BY BlamesStep
  <2> QED
    BY <2>1 DEF Blames, Paths
<1> DEFINE Earned == \A k \in Paths : openUntil'[k] > openUntil[k] => Cardinality(blame[k]) + 1 >= TripAfter
<1>3. TypeOK /\ Calls /\ Blames /\ [Next]_vars => [Earned]_vars
  <2> SUFFICES ASSUME TypeOK, Calls, Blames, [Next]_vars PROVE Earned
    OBVIOUS
  <2> QED
    BY BlamesStep
<1>4. OpensOnConsecutiveFailures <=> [][Earned]_vars
  BY DEF OpensOnConsecutiveFailures
<1> HIDE DEF Earned
<1>5. Spec => [][Earned]_vars
  BY <1>1, <1>2, <1>3, IInvHolds, PTL DEF Spec
<1> QED
  BY <1>4, <1>5

=============================================================================
