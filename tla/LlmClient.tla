----------------------------- MODULE LlmClient -----------------------------
(***************************************************************************)
(* Calls to language models (llm_client.py, providers/): a request walks a *)
(* chain of paths, each a provider and one of its models, until one of     *)
(* them answers.  Requests run in threads of one process and share the     *)
(* circuit breaker of every path, the window of every provider's rate      *)
(* limiter, and what was learned about the thinking levels a Gemini model  *)
(* refuses.                                                                *)
(*                                                                         *)
(* A step between two calls to a provider takes no time, and so does a     *)
(* configuration that Gemini refuses.  An HTTP request takes at most its   *)
(* timeout; a call to a provider but Gemini may be SdkRetries requests     *)
(* more, which its SDK makes after a pause and without a slot of the       *)
(* limiter (max_retries=1).                                                *)
(***************************************************************************)
EXTENDS Integers, Sequences, FiniteSets, SequencesExt

CONSTANTS
  Requests,
  Asked,           \* the provider and the model of a request, resolved
  Thinking,        \* the thinking configuration it is made with
  Streams,         \* requests that stream their answer
  Deadline,        \* when the caller must have an answer, 0 where it does not say
  Providers,       \* all but Native
  Models,
  Configs,         \* what the environment may say: LLM_PROVIDER_ORDER, LLM_FALLBACK_PROVIDER
  Registered,      \* providers that have an endpoint and a key
  DefaultModel,    \* _fallback_model_for
  FallbackModel,   \* LLM_FALLBACK_MODEL
  Rpm,             \* the cap of a provider, 0 where it has none
  NoThinking,      \* models without a thinking configuration (gemma)
  RefusesBudget,   \* models that accept no thinking_budget
  RefusedLevels,   \* the thinking levels a model refuses
  TripAfter, Cooldown, MinAttempt, CallTimeout, StreamTimeout, Window, MaxWait,
  SdkRetries, SdkPause,
  LastStart,       \* bound: when the last request is made
  MaxTime,         \* bound: the clock
  NoModel, NoProvider

Native == "gemini"
PreRegistered == {Native, "openrouter"}   \* built by _init_backends, key or no key
Paths == ({Native} \cup Providers) \X (Models \cup {NoModel})

Ladder == <<"MINIMAL", "LOW", "MEDIUM", "HIGH">>
Levels == Range(Ladder)
Budgets == {"off", "small", "large", "auto"}   \* thinking_budget 0, to 1024, above, -1
NoConfig == "none"
MaxTries == Len(Ladder) + 2

ASSUME LlmAssumption ==
  /\ Asked \in [Requests -> ({Native} \cup Providers) \X Models]
  /\ Thinking \in [Requests -> Levels \cup Budgets \cup {NoConfig}]
  /\ Deadline \in [Requests -> Nat]
  /\ Streams \subseteq Requests
  /\ Native \notin Providers /\ PreRegistered \ {Native} \subseteq Providers /\ NoProvider \notin Providers \cup {Native}
  /\ NoModel \notin Models
  /\ Configs \subseteq [order : Seq({Native} \cup Providers),
                        fallback : Providers \cup {Native, NoProvider}]
  /\ Registered \subseteq Providers
  /\ DefaultModel \in [{Native} \cup Providers -> Models \cup {NoModel}]
  /\ FallbackModel \in Models \cup {NoModel}
  /\ Rpm \in [Providers -> Nat]
  /\ NoThinking \cup RefusesBudget \subseteq Models
  /\ RefusedLevels \in [Models \cup {NoModel} -> SUBSET Levels]
  /\ {TripAfter, CallTimeout, StreamTimeout, Window} \subseteq Nat \ {0}
  /\ {Cooldown, MinAttempt, MaxWait, SdkRetries, SdkPause, LastStart, MaxTime} \subseteq Nat

-----------------------------------------------------------------------------
(* The chain of a request (_attempts). *)

SameProvider(p, m) == IF p = Native /\ FallbackModel \notin {NoModel, m}
                      THEN <<<<p, FallbackModel>>>> ELSE <<>>

\* The user's order, less the provider that was asked and those that cannot be used.
Usable(order, p) ==
  {i \in DOMAIN order : /\ order[i] # p /\ DefaultModel[order[i]] # NoModel
                        /\ order[i] \in Registered \cup {Native}}
Nth(places, k) == CHOOSE i \in places : Cardinality({j \in places : j <= i}) = k
Ordered(order, p) ==
  LET usable == Usable(order, p)
      Provides(k) == order[Nth(usable, k)]
  IN [k \in 1..Cardinality(usable) |-> <<Provides(k), DefaultModel[Provides(k)]>>]

\* The built-in chain: the fallback provider, and Gemini if nothing else is.
CrossProvider(fallback, p) ==
  LET other == IF fallback \in {NoProvider, p} THEN <<>>
               ELSE <<<<fallback, DefaultModel[fallback]>>>>
      backstop == IF Native \in {p, fallback} \/ DefaultModel[Native] = NoModel THEN <<>>
                  ELSE <<<<Native, DefaultModel[Native]>>>>
  IN other \o backstop

Attempts(conf, r) ==
  LET p == Asked[r][1] IN
  <<Asked[r]>> \o SameProvider(p, Asked[r][2])
               \o (IF conf.order # <<>> THEN Ordered(conf.order, p)
                                        ELSE CrossProvider(conf.fallback, p))

-----------------------------------------------------------------------------
(* Thinking configurations of a Gemini call (GeminiBackend). *)

Escalate(cfg) == LET i == CHOOSE i \in DOMAIN Ladder : Ladder[i] = cfg
                 IN IF i = Len(Ladder) THEN NoConfig ELSE Ladder[i + 1]

\* A budget as a level, or nothing where the model may decide.
Translate(cfg) == CASE cfg = "off" -> "MINIMAL"
                    [] cfg = "small" -> "LOW"
                    [] cfg = "large" -> "MEDIUM"
                    [] OTHER -> NoConfig

\* The first level from cfg up that the model is not known to refuse.
SkipRejected(known, m, cfg) ==
  IF cfg \notin Levels THEN cfg
  ELSE LET from == CHOOSE i \in DOMAIN Ladder : Ladder[i] = cfg
           open == {i \in from..Len(Ladder) : <<m, Ladder[i]>> \notin known}
       IN IF open = {} THEN NoConfig
          ELSE Ladder[CHOOSE i \in open : \A k \in open : i <= k]

\* known: the pairs of a model and what it was seen to refuse, a level or (as "budget") budgets.
Prepared(known, m, cfg) ==
  IF m \in NoThinking THEN NoConfig
  ELSE SkipRejected(known, m, IF cfg \in Budgets /\ <<m, "budget">> \in known
                              THEN Translate(cfg) ELSE cfg)

\* What the model answers 400 to.
Refused(m, cfg) == \/ cfg \in Budgets /\ m \in RefusesBudget
                   \/ cfg \in Levels /\ cfg \in RefusedLevels[m]

-----------------------------------------------------------------------------
VARIABLES
  conf,       \* the environment of this process
  failures,   \* _circuit_failures
  openUntil,  \* _circuit_breaker
  known,      \* _level_rejected and _zero_budget_rejected
  sent,       \* _RpmLimiter._sent of each provider
  now,
  pc,         \* where each request is
  chain, at,  \* its attempts, worked out when it was made, and the one it is at
  cfg,        \* the thinking configuration of the call it makes
  tries,      \* the times the backend has made it
  began,      \* when the call, or the wait for the rate limiter, began
  shown,      \* the paths whose text the caller was given
  blame,      \* history: who saw a path fail since it last answered or was opened
  sends       \* history: when a slot of each provider was taken

shared == <<failures, openUntil, known, sent, blame, sends>>
call == <<cfg, tries, began>>
private == <<pc, chain, at, call, shown>>
vars == <<conf, shared, private, now>>

Over == {"answered", "failed"}
Path(r) == chain[r][at[r]]
Provider(r) == Path(r)[1]
Model(r) == Path(r)[2]

Init ==
  /\ conf \in Configs
  /\ failures = [k \in Paths |-> 0]
  /\ openUntil = [k \in Paths |-> 0]
  /\ known = {}
  /\ sent = [p \in Providers |-> <<>>]
  /\ now = 0
  /\ pc = [r \in Requests |-> "new"]
  /\ chain = [r \in Requests |-> <<>>]
  /\ at = [r \in Requests |-> 1]
  /\ cfg = [r \in Requests |-> NoConfig]
  /\ tries = [r \in Requests |-> 0]
  /\ began = [r \in Requests |-> 0]
  /\ shown = [r \in Requests |-> {}]
  /\ blame = [k \in Paths |-> {}]
  /\ sends = [p \in Providers |-> <<>>]

Goes(r, there) == pc' = [pc EXCEPT ![r] = there]
\* The locals of the call are gone.
HangsUp(r) == /\ cfg' = [cfg EXCEPT ![r] = NoConfig]
              /\ tries' = [tries EXCEPT ![r] = 0]
              /\ began' = [began EXCEPT ![r] = 0]
Ends(r, how) == /\ Goes(r, how) /\ HangsUp(r)
                /\ chain' = [chain EXCEPT ![r] = <<>>]
                /\ at' = [at EXCEPT ![r] = 1]
\* Bug: a failed path is tried again.
SamePath(r) == /\ Goes(r, "loop") /\ HangsUp(r)
               /\ UNCHANGED <<at, chain>>
NextPath(r) == /\ Goes(r, "loop") /\ HangsUp(r)
               /\ at' = [at EXCEPT ![r] = @ + 1]
               /\ UNCHANGED chain

Begin(r) ==
  /\ pc[r] = "new" /\ now <= LastStart
  /\ Goes(r, "loop")
  /\ chain' = [chain EXCEPT ![r] = Attempts(conf, r)]
  /\ UNCHANGED <<conf, shared, at, call, shown, now>>

\* Bug: the deadline is looked at only before the first path.
LateOnce(r) == Deadline[r] # 0 /\ at[r] = 1 /\ Deadline[r] - now < MinAttempt
Late(r) == Deadline[r] # 0 /\ Deadline[r] - now < MinAttempt
Blocked(r) == now < openUntil[Path(r)]

\* The top of the loop: a path to try, in time or too late, or the end of the chain.
AtPath(r, late) == pc[r] = "loop" /\ at[r] \in DOMAIN chain[r] /\ Late(r) = late

\* Every path was tried or skipped: the last exception, or that all circuits are open.
Exhausted(r) ==
  /\ pc[r] = "loop" /\ at[r] \notin DOMAIN chain[r]
  /\ Ends(r, "failed")
  /\ UNCHANGED <<conf, shared, shown, now>>

OutOfTime(r) ==
  /\ AtPath(r, TRUE)
  /\ Ends(r, "failed")
  /\ UNCHANGED <<conf, shared, shown, now>>

Skip(r) ==
  /\ AtPath(r, FALSE) /\ Blocked(r)
  /\ NextPath(r)
  /\ UNCHANGED <<conf, shared, shown, now>>

\* get_backend finds no such provider: its ValueError is outside the try.
Unconfigured(r) ==
  /\ AtPath(r, FALSE) /\ ~Blocked(r)
  /\ Provider(r) \notin PreRegistered \cup Registered
  /\ Ends(r, "failed")
  /\ UNCHANGED <<conf, shared, shown, now>>

Attempt(r) ==
  /\ AtPath(r, FALSE) /\ ~Blocked(r)
  /\ Provider(r) \in PreRegistered \cup Registered
  /\ Goes(r, IF Provider(r) # Native /\ Rpm[Provider(r)] > 0 THEN "waiting" ELSE "calling")
  /\ cfg' = [cfg EXCEPT ![r] = IF Provider(r) = Native
                               THEN Prepared(known, Model(r), Thinking[r]) ELSE NoConfig]
  /\ tries' = [tries EXCEPT ![r] = 1]
  /\ began' = [began EXCEPT ![r] = now]
  /\ UNCHANGED <<conf, shared, chain, at, shown, now>>

\* Bug: the limiter's own error counts.
CountsAll(e) == TRUE
Counts(e) == e # "rateLimit"
Trips(n) == n + 1 >= TripAfter

\* _circuit_fail, and on to the next path.
Fails(r, e) ==
  LET k == Path(r)  opens == Counts(e) /\ Trips(failures[k]) IN
  /\ NextPath(r)
  /\ failures' = [failures EXCEPT ![k] = IF ~Counts(e) THEN @ ELSE IF opens THEN 0 ELSE @ + 1]
  /\ openUntil' = [openUntil EXCEPT ![k] = IF opens THEN now + Cooldown ELSE @]
  /\ blame' = [blame EXCEPT ![k] = IF opens THEN {} ELSE IF e = "provider" THEN @ \cup {r} ELSE @]

\* _circuit_clear
Clears(k) == /\ openUntil' = [openUntil EXCEPT ![k] = 0]
             /\ failures' = [failures EXCEPT ![k] = 0]

Answers(r) ==
  /\ Ends(r, "answered")
  /\ Clears(Path(r))
  /\ blame' = [blame EXCEPT ![Path(r)] = {}]

\* The requests on record, less those that left a window of w at its front.
Within(p, w) ==
  LET s == sent[p]
      first == CHOOSE i \in 1..Len(s) + 1 :
                 /\ \A k \in 1..i - 1 : now - s[k] >= w
                 /\ i <= Len(s) => now - s[i] < w
  IN SubSeq(s, first, Len(s))
\* Bug: a request leaves the window a moment too soon.
FreshTooFew(p) == Within(p, Window - 1)
Fresh(p) == Within(p, Window)
Full(p) == Len(Fresh(p)) >= Rpm[p]
\* The next slot comes after the wait would be over.
Hopeless(r) == Head(Fresh(Provider(r))) + Window > began[r] + MaxWait

\* _RpmLimiter.acquire, under its lock: a slot, or an error, or another round of waiting.
Acquire(r) ==
  LET p == Provider(r) IN
  /\ pc[r] = "waiting" /\ ~Full(p)
  /\ sent' = [sent EXCEPT ![p] = Append(Fresh(p), now)]
  /\ sends' = [sends EXCEPT ![p] = Append(@, now)]
  /\ Goes(r, "calling")
  /\ began' = [began EXCEPT ![r] = now]
  /\ UNCHANGED <<conf, failures, openUntil, known, blame, chain, at, cfg, tries, shown, now>>

GivesUp(r) ==
  LET p == Provider(r) IN
  /\ pc[r] = "waiting" /\ Full(p) /\ Hopeless(r)
  /\ sent' = [sent EXCEPT ![p] = Fresh(p)]
  /\ Fails(r, "rateLimit")
  /\ UNCHANGED <<conf, known, sends, shown, now>>

Cut(r) == Provider(r) = Native /\ Refused(Model(r), cfg[r])

\* Gemini refuses the configuration: remember, translate or climb, and call again.
Retry(r) ==
  /\ pc[r] = "calling" /\ Cut(r)
  /\ known' = known \cup {<<Model(r), IF cfg[r] \in Budgets THEN "budget" ELSE cfg[r]>>}
  /\ IF tries[r] < MaxTries
     THEN /\ tries' = [tries EXCEPT ![r] = @ + 1]
          /\ cfg' = [cfg EXCEPT ![r] = IF @ \in Budgets THEN Translate(@) ELSE Escalate(@)]
          /\ UNCHANGED <<pc, chain, at, began, failures, openUntil, blame>>
     ELSE Fails(r, "provider")
  /\ UNCHANGED <<conf, sent, sends, shown, now>>

\* Any other 400 is the caller's: no other path is tried, no failure counted.
BadRequest(r) ==
  /\ pc[r] = "calling" /\ ~Cut(r)
  /\ ~(Provider(r) = Native /\ cfg[r] \in Budgets)
  /\ Ends(r, "failed")
  /\ UNCHANGED <<conf, shared, shown, now>>

\* With a budget in the configuration Gemini's is taken for a refusal of the budget.
Misread(r) ==
  /\ pc[r] = "calling" /\ ~Cut(r)
  /\ Provider(r) = Native /\ cfg[r] \in Budgets
  /\ now = began[r]     \* a refusal comes at once
  /\ known' = known \cup {<<Model(r), "budget">>}
  /\ cfg' = [cfg EXCEPT ![r] = Translate(@)]
  /\ tries' = [tries EXCEPT ![r] = @ + 1]
  /\ UNCHANGED <<conf, failures, openUntil, sent, blame, sends, pc, chain, at, began, shown, now>>

\* 429, 503, a timeout, an empty answer, a stream that ends without text.
Transient(r) ==
  /\ pc[r] = "calling" /\ ~Cut(r)
  /\ Fails(r, "provider")
  /\ UNCHANGED <<conf, known, sent, sends, shown, now>>

Answer(r) ==
  /\ pc[r] = "calling" /\ ~Cut(r) /\ r \notin Streams
  /\ Answers(r)
  /\ shown' = [shown EXCEPT ![r] = @ \cup {Path(r)}]
  /\ UNCHANGED <<conf, known, sent, sends, now>>

\* A stream: chunks, the first of which commits the caller to this path.
FirstChunk(r) ==
  /\ pc[r] = "calling" /\ ~Cut(r) /\ r \in Streams
  /\ Goes(r, "streaming")
  /\ shown' = [shown EXCEPT ![r] = @ \cup {Path(r)}]
  /\ UNCHANGED <<conf, shared, chain, at, call, now>>

StreamEnds(r) ==
  /\ pc[r] = "streaming"
  /\ Answers(r)
  /\ UNCHANGED <<conf, known, sent, sends, shown, now>>

\* Bug: a stream that breaks fails over like any other call.
BreaksToNext(r) ==
  /\ pc[r] = "streaming"
  /\ Fails(r, "provider")
  /\ UNCHANGED <<conf, known, sent, sends, shown, now>>

\* The provider or its timeout cuts the stream short, and the error is re-raised; or the
\* consumer closes the generator.  Neither is counted.
Breaks(r) ==
  /\ pc[r] = "streaming"
  /\ Ends(r, "failed")
  /\ UNCHANGED <<conf, shared, shown, now>>

\* How long a call may last.  Only the SDK of OpenRouterBackend makes a request again.
Timeout(r) == IF r \in Streams THEN StreamTimeout ELSE CallTimeout
Longest(r) == Timeout(r) + IF Provider(r) = Native THEN 0 ELSE SdkRetries * (SdkPause + Timeout(r))

\* Bound: the clock stands when no request is under way.
Tick ==
  /\ now < MaxTime
  /\ now < LastStart \/ \E r \in Requests : pc[r] \notin {"new"} \cup Over
  /\ \A r \in Requests :
       /\ pc[r] # "loop"
       /\ pc[r] = "waiting" => Full(Provider(r)) /\ ~Hopeless(r)
       /\ pc[r] = "calling" => ~Cut(r)
       /\ pc[r] \in {"calling", "streaming"} => now < began[r] + Longest(r)
  /\ now' = now + 1
  /\ UNCHANGED <<conf, shared, private>>

Step(r) ==
  \/ Exhausted(r) \/ OutOfTime(r) \/ Skip(r) \/ Unconfigured(r) \/ Attempt(r)
  \/ Acquire(r) \/ GivesUp(r) \/ Retry(r) \/ BadRequest(r) \/ Misread(r) \/ Transient(r)
  \/ Answer(r) \/ FirstChunk(r) \/ StreamEnds(r) \/ Breaks(r)

Next == Tick \/ \E r \in Requests : Begin(r) \/ Step(r)

Spec == Init /\ [][Next]_vars

\* Threads are scheduled, a call returns within its timeout, and time passes.
FairSpec == Spec /\ WF_vars(Tick) /\ \A r \in Requests : WF_vars(Step(r))

-----------------------------------------------------------------------------
\* The paths of all chains.
Reachable == UNION {Range(Attempts(conf, r)) : r \in Requests}

\* TypeOK: every variable has its type; a counted failure is one short of opening at most.
TypeOK ==
  /\ conf \in Configs
  /\ failures \in [Paths -> 0..TripAfter - 1]
  /\ openUntil \in [Paths -> Nat]
  /\ known \in SUBSET ({k[2] : k \in Reachable} \X (Levels \cup {"budget"}))
  /\ sent \in [Providers -> Seq(Nat)]
  /\ now \in Nat
  /\ pc \in [Requests -> {"new", "loop", "waiting", "calling", "streaming"} \cup Over]
  /\ chain \in [Requests -> {<<>>} \cup {Attempts(conf, r) : r \in Requests}]
  /\ at \in [Requests -> Nat \ {0}]
  /\ cfg \in [Requests -> Levels \cup Budgets \cup {NoConfig}]
  /\ tries \in [Requests -> Nat]
  /\ began \in [Requests -> Nat]
  /\ shown \in [Requests -> SUBSET Reachable]
  /\ blame \in [Paths -> SUBSET Requests]
  /\ sends \in [Providers -> Seq(Nat)]

\* OneVoice: the text a caller is given comes from one path.  Once a chunk was shown no other
\* model continues the answer, whatever happens to the stream (generate_stream_with_failover).
OneVoice == \A r \in Requests : \A k, l \in shown[r] : k = l

\* EndsInTime: a call that does not stream, and whose caller said when it must have an answer,
\* overruns by no more than the last attempt it was still allowed to start, less
\* LLM_MIN_ATTEMPT_S, however long its chain is: one timeout at Gemini, elsewhere a wait for the
\* rate limiter, two timeouts and the pause between them.
EndsInTime ==
  \A r \in Requests \ Streams :
    Deadline[r] # 0 /\ pc[r] \in {"waiting", "calling"} =>
      now <= Deadline[r] - MinAttempt + (IF Provider(r) = Native THEN 0 ELSE MaxWait) + Longest(r)

\* WindowRespected: no more slots of a provider than its cap are handed out in any window of
\* 60 s, by however many threads, whichever of them gave up waiting (_RpmLimiter).  It speaks of
\* slots: what the SDK sends again takes none.
WindowRespected ==
  \A p \in Providers : Rpm[p] > 0 =>
    \A t \in 0..now :
      Cardinality({i \in DOMAIN sends[p] : t <= sends[p][i] /\ sends[p][i] < t + Window}) <= Rpm[p]

\* Converges: a backend never runs out of retries over the thinking configuration, whatever
\* the model refuses and other requests learn of it meanwhile (GeminiBackend.generate).
Converges == \A r \in Requests : pc[r] = "calling" /\ Cut(r) => tries[r] < MaxTries

\* OpensOnConsecutiveFailures: a path is skipped only after _CIRCUIT_TRIP_AFTER requests saw the
\* provider fail with no answer in between: no failure is counted twice, none before an answer,
\* and a full rate limiter, which says nothing of the provider, is not one.
OpensOnConsecutiveFailures ==
  [][\A k \in Paths : openUntil'[k] > openUntil[k] => Cardinality(blame[k]) + 1 >= TripAfter]_vars

\* EveryRequestEnds: a request that was made ends: with an answer or with an error.
EveryRequestEnds == \A r \in Requests : pc[r] # "new" ~> pc[r] \in Over
=============================================================================
