------------------------------- MODULE Agent -------------------------------
(***************************************************************************)
(* One run of the agent (agent/graph.py, agent/nodes/, routes/agent.py).   *)
(* A thread walks the graph: plan, select tools, execute them, draft,      *)
(* evaluate, and once more around if the verdict says so and the clock     *)
(* allows.  /agent/stream reports each node through a bounded queue to a   *)
(* reader that may be slow or leave, /agent/query waits for the thread.    *)
(* Questions, prompts and scores are left out: a passage is its text and   *)
(* the tool that found it, a draft the passages it was written from, whose *)
(* papers it cites by number.                                              *)
(***************************************************************************)
EXTENDS Naturals, Sequences, FiniteSets, Functions

CONSTANTS
  Calls,            \* the calls a selection may make: one for each sub-query, some of other tools
  ToolOf,           \* call -> tool
  Corpus,           \* indicrag_retrieval
  MaxExternal,      \* tool_selector._MAX_EXTERNAL_CALLS
  Offers,           \* tool -> the lists of texts it may return
  Failure,          \* tool -> the text that reports its failure
  TitleOf,          \* passage -> its title, "Unknown" if it has none
  MaxShown,         \* config.AGENT_MAX_CONTEXT_CHUNKS
  MaxReflexion,     \* reflexion_evaluator.MAX_REFLEXION
  Timeout, Budget, Reserve,  \* config.AGENT_TIMEOUT, AGENT_REFLEXION_BUDGET_S, AGENT_EVAL_RESERVE_S
  MaxComplete,      \* completeness scores are 0..MaxComplete
  QueueRoom,        \* maxsize of the queue
  NoScore

Tools == {ToolOf[c] : c \in Calls}
Texts == {Failure[t] : t \in Tools} \cup UNION {UNION {Range(s) : s \in Offers[t]} : t \in Tools}

ASSUME AgentAssumption ==
  /\ {MaxShown, MaxReflexion, QueueRoom} \subseteq Nat \ {0}
  /\ {Timeout, Budget, Reserve, MaxComplete, MaxExternal} \subseteq Nat
  /\ Corpus \in Tools
  /\ \A t \in Tools : Offers[t] \subseteq Seq(Texts)
  /\ Budget <= Timeout /\ Reserve <= Timeout
  /\ NoScore \notin Nat

VARIABLES
  mode,      \* "stream" or "query"
  clock,     \* since the run started; stands at Timeout
  node,      \* the node that runs next or runs now
  count,     \* reflexion_count
  scored,    \* the completeness_score of reflexion_history[-1]
  calls,     \* tool_calls_requested, those that have been collected left out
  contexts,  \* retrieved_contexts; in the executor what it has collected so far
  draft,     \* draft_answer, and history: the passages its author was shown
  shown,     \* context_chunks_used
  at,        \* the thread: running, reporting or gone
  reports,   \* reports not read, those whose put still waits for room included
  halt,      \* the stop event
  late,      \* history: nodes begun after it was set
  client     \* what the client was told

graph == <<node, count, scored, calls, contexts, draft, shown>>
outlets == <<reports, halt, client>>
agentVars == <<mode, clock, graph, at, late, outlets>>

Nodes == {"planner", "selector", "executor", "generator", "evaluator", "verdict", "finalizer"}
Actions == {"accept", "regenerate", "retrieve_more", "reformulate", "other"}
Verdicts == [faith : BOOLEAN, complete : 0..MaxComplete, action : Actions]
Passages == [tool : Tools, text : Texts]
Terminal == {"done", "error"}
NoDraft == [kind |-> "none", seen |-> <<>>]
Sorry == [NoDraft EXCEPT !.kind = "sorry"]

-----------------------------------------------------------------------------
(* Passages. *)

Rank(s, i) == Cardinality({j \in 1..i : s[j].tool = s[i].tool})
Seat(s, i) == CHOOSE j \in DOMAIN s : s[j].tool = s[i].tool /\ \A k \in 1..j-1 : s[k].tool # s[i].tool

\* The entries of s at these positions, lined up by the relation R.
Arranged(s, positions, R) ==
  [k \in 1..Cardinality(positions) |->
     s[CHOOSE i \in positions : Cardinality({j \in positions : <<j, i>> \in R}) = k]]

\* Bug: passages stay in the order the tools finished in.
AsFinished(s) == s
\* Round-robin across the tools, in the order of their first passages.
Before(s, i, j) == Rank(s, i) < Rank(s, j) \/ (Rank(s, i) = Rank(s, j) /\ Seat(s, i) <= Seat(s, j))
RoundRobin(s) == Arranged(s, DOMAIN s, {r \in (DOMAIN s) \X (DOMAIN s) : Before(s, r[1], r[2])})
Shared(s) == RoundRobin(s)

\* A text that is there already is not added again, whichever tool found it.
Fresh(s, texts) ==
  {i \in DOMAIN texts : /\ \A p \in Range(s) : p.text # texts[i]
                        /\ \A j \in 1..i-1 : texts[j] # texts[i]}
Add(s, tool, texts) ==
  LET fresh == Fresh(s, texts)
      new == Arranged(texts, fresh, {r \in fresh \X fresh : r[1] <= r[2]})
  IN s \o [i \in DOMAIN new |-> [tool |-> tool, text |-> new[i]]]

\* citation_number_map: the titles are numbered as they first come; the paper a number
\* stands for, if it stands for one.
Opens(s, i) == \A j \in 1..i-1 : TitleOf[s[j]] # TitleOf[s[i]]
Number(s, i) == Cardinality({TitleOf[s[j]] : j \in 1..i})
Paper(s, m) == {TitleOf[s[i]] : i \in {k \in DOMAIN s : Opens(s, k) /\ Number(s, k) = m}}

\* A call that fails leaves a passage that says so.
Results(t) == Offers[t] \cup {<<Failure[t]>>}

-----------------------------------------------------------------------------
(* The nodes. *)

AgentInit ==
  /\ mode \in {"stream", "query"}
  /\ clock = 0 /\ node = "planner" /\ count = 0 /\ scored = NoScore
  /\ calls = {} /\ contexts = <<>> /\ draft = NoDraft
  /\ shown = 0
  /\ at = "runs" /\ reports = <<>> /\ halt = FALSE /\ late = 0 /\ client = "waits"

\* The node is over: in a stream the thread looks at the stop event before it reports.
Reports == IF mode = "stream" THEN "checks" ELSE "runs"
Over(here, there) ==
  /\ at = "runs" /\ node = here
  /\ node' = there
  /\ at' = Reports
  /\ UNCHANGED <<mode, clock, outlets, late>>

\* query_planner_node: a decomposition that fails leaves the question itself as the plan;
\* a reformulation keeps what was found.
Plan ==
  /\ Over("planner", "selector")
  /\ calls' = {}
  /\ contexts' = IF count = 0 THEN <<>> ELSE contexts
  /\ UNCHANGED <<count, scored, draft, shown>>

\* tool_selector_node: the corpus is always asked, and a few of the tools the model chose.
Select ==
  /\ Over("selector", "executor")
  /\ \E chosen \in SUBSET Calls :
       /\ \E c \in chosen : ToolOf[c] = Corpus
       /\ Cardinality({c \in chosen : ToolOf[c] # Corpus}) <= MaxExternal
       /\ calls' = chosen
  /\ UNCHANGED <<count, scored, contexts, draft, shown>>

\* tool_executor_node: the calls run in parallel and are collected as they finish, and the
\* passages then shared out.
Gathers(found) ==
  /\ contexts' = found
  /\ UNCHANGED <<count, scored, draft, shown>>

CallReturns(c) ==
  /\ at = "runs" /\ node = "executor" /\ c \in calls
  /\ calls' = calls \ {c}
  /\ \E texts \in Results(ToolOf[c]) : Gathers(Add(contexts, ToolOf[c], texts))
  /\ UNCHANGED <<mode, clock, node, at, late, outlets>>

Execute ==
  /\ calls = {}
  /\ Over("executor", "generator")
  /\ Gathers(Shared(contexts))
  /\ UNCHANGED calls

\* What format_context puts into the prompt when n passages fit.
First(s, n) == SubSeq(s, 1, n)

\* answer_generator_node: n passages fit; the model may answer with nothing at all.
Drafts ==
  \E n \in 0..Len(contexts), kind \in {"answer", "empty"} :
    /\ n <= MaxShown
    /\ IF n = 0 THEN draft' = Sorry /\ UNCHANGED shown
       ELSE draft' = [kind |-> kind, seen |-> First(contexts, n)] /\ shown' = n
\* Bug: what was written before is kept.
KeepsDraft == UNCHANGED <<draft, shown>>
\* The apology takes the draft's place.
Apologises == draft' = Sorry /\ UNCHANGED shown
NoModel == Apologises

Generate ==
  /\ Over("generator", "evaluator")
  /\ Drafts \/ NoModel
  /\ UNCHANGED <<count, scored, calls, contexts>>

\* The gates of reflexion_evaluator_node: an empty draft passes them.
Written == draft.kind # "empty"
OutOfTime == Timeout - clock < Reserve
OverBudget == clock > Budget
Gated == Written /\ (OutOfTime \/ (count >= 1 /\ OverBudget))

\* _route_reflexion
Route(n, done, action) ==
  IF n >= MaxReflexion \/ done THEN "finalizer"
  ELSE CASE action = "regenerate" -> "generator"
         [] action = "retrieve_more" -> "selector"
         [] action = "reformulate" -> "planner"
         [] OTHER -> "finalizer"

Ship ==
  /\ Gated
  /\ Over("evaluator", "finalizer")
  /\ count' = count + 1
  /\ UNCHANGED <<scored, calls, contexts, draft, shown>>

StartsEvaluation ==
  /\ at = "runs" /\ node = "evaluator" /\ ~Gated
  /\ node' = "verdict"
  /\ UNCHANGED <<mode, clock, count, scored, calls, contexts, draft, shown, at, late, outlets>>

Stuck(v) == scored # NoScore /\ v.complete <= scored /\ count >= 1
\* Bug: the budget is only looked at before an evaluation.
EndsIfStuck(v) == v.action = "accept" \/ Stuck(v)
\* Accepted, no better than the one before, or no time for another cycle.
Ends(v) == v.action = "accept" \/ Stuck(v) \/ OverBudget
\* A draft whose statements are not supported goes out with a note, so it is not empty.
Noted(v) == v.action # "accept" /\ Stuck(v) /\ ~v.faith

\* The NLI check, the model's verdict on completeness, and what the two come to: whatever
\* the scores, it may say anything; a check that fails is a low score.
Evaluate(v) ==
  LET done == Ends(v) /\ (Written \/ Noted(v)) IN
  /\ Over("verdict", Route(count + 1, done, v.action))
  /\ count' = count + 1 /\ scored' = v.complete
  /\ UNCHANGED <<calls, contexts, draft, shown>>

Finalize ==
  /\ Over("finalizer", "end")
  /\ UNCHANGED <<count, scored, calls, contexts, draft, shown>>

-----------------------------------------------------------------------------
(* The thread and its reports. *)

\* Bug: the queue drops what does not fit.
PutIfRoom(item) == reports' = IF Len(reports) < QueueRoom THEN Append(reports, item) ELSE reports
Puts(item) == reports' = Append(reports, item)

Check ==
  /\ at = "checks"
  /\ IF halt THEN at' = "gone" /\ UNCHANGED reports ELSE at' = "puts" /\ Puts("node")
  /\ UNCHANGED <<mode, clock, graph, late, halt, client>>

\* The put that had to wait has found room.
Fits == Len(reports) <= QueueRoom
Put ==
  /\ at = "puts" /\ Fits
  /\ at' = "runs"
  /\ late' = IF halt /\ node # "end" THEN late + 1 ELSE late
  /\ UNCHANGED <<mode, clock, graph, outlets>>

Done ==
  /\ at = "runs" /\ node = "end"
  /\ IF mode = "stream" THEN at' = "ends" /\ Puts("done") ELSE at' = "gone" /\ UNCHANGED reports
  /\ UNCHANGED <<mode, clock, graph, late, halt, client>>

\* A node raises.
FailRun ==
  /\ at = "runs" /\ node # "end"
  /\ IF mode = "stream" THEN at' = "ends" /\ Puts("error") ELSE at' = "failed" /\ UNCHANGED reports
  /\ UNCHANGED <<mode, clock, graph, late, halt, client>>

\* No room for 30 seconds: the put gives up waiting, its item still gets its turn, and an
\* error follows; a put of a last item is not tried again.
WaitsForEver == FALSE
SlowReader == ~Fits
PutTimesOut ==
  /\ SlowReader
  /\ \/ at \in {"puts", "ends"} /\ reports[Len(reports)] # "error" /\ at' = "ends" /\ Puts("error")
     \/ at = "ends" /\ reports[Len(reports)] = "error" /\ at' = "gone" /\ UNCHANGED reports
  /\ UNCHANGED <<mode, clock, graph, late, halt, client>>
LastPut ==
  /\ at = "ends" /\ Fits
  /\ at' = "gone"
  /\ UNCHANGED <<mode, clock, graph, late, outlets>>

-----------------------------------------------------------------------------
(* The client. *)

\* The generator's finally sets the stop event.
Told(what) == client' = what /\ halt' = (mode = "stream")

ReadReport ==
  /\ mode = "stream" /\ client = "waits" /\ clock < Timeout
  /\ reports # <<>>
  /\ reports' = Tail(reports)
  /\ CASE Head(reports) = "node" -> UNCHANGED <<client, halt>>
       [] Head(reports) = "done" -> Told("answer")
       [] OTHER -> Told("error")
  /\ UNCHANGED <<mode, clock, graph, at, late>>

Returns ==
  /\ mode = "query" /\ client = "waits"
  /\ at \in {"gone", "failed"}
  /\ Told(IF at = "gone" THEN "answer" ELSE "error")
  /\ UNCHANGED <<mode, clock, graph, at, late, reports>>

TimesOut ==
  /\ client = "waits" /\ clock = Timeout
  /\ Told("timeout")
  /\ UNCHANGED <<mode, clock, graph, at, late, reports>>

Leaves ==
  /\ mode = "stream" /\ client = "waits"
  /\ Told("left")
  /\ UNCHANGED <<mode, clock, graph, at, late, reports>>

Tick ==
  /\ clock < Timeout
  /\ clock' = clock + 1
  /\ UNCHANGED <<mode, graph, at, late, outlets>>

Node ==
  \/ Plan \/ Select \/ Execute \/ Generate \/ Ship \/ StartsEvaluation \/ Finalize
  \/ \E c \in Calls : CallReturns(c)
  \/ \E v \in Verdicts : Evaluate(v)
Thread == Node \/ Check \/ Put \/ Done \/ FailRun \/ PutTimesOut \/ LastPut
AgentNext == Thread \/ ReadReport \/ Returns \/ TimesOut \/ Leaves \/ Tick

\* The calls of a node end, which is an assumption for the arXiv fetch (tool_executor waits for
\* its thread past the limit) and follows from time limits for the others; and time passes.
AgentSpec == AgentInit /\ [][AgentNext]_agentVars /\ WF_agentVars(Thread) /\ WF_agentVars(Tick)

-----------------------------------------------------------------------------
AgentTypeOK ==
  /\ mode \in {"stream", "query"} /\ clock \in 0..Timeout
  /\ node \in Nodes \cup {"end"}
  /\ count \in 0..MaxReflexion
  /\ scored \in (0..MaxComplete) \cup {NoScore}
  /\ calls \in SUBSET Calls
  /\ contexts \in Seq(Passages)
  /\ \A i, j \in DOMAIN contexts : contexts[i].text = contexts[j].text => i = j
  /\ draft \in [kind : {"none", "answer", "empty", "sorry"}, seen : Seq(Passages)]
  /\ shown \in 0..MaxShown
  /\ at \in {"runs", "checks", "puts", "ends", "gone", "failed"}
  /\ reports \in Seq({"node"} \cup Terminal)
  /\ halt \in BOOLEAN /\ late \in Nat
  /\ client \in {"waits", "answer", "error", "timeout", "left"}

\* MarksResolve: however many cycles and failures came before, a number in an answer means
\* to its readers the paper it meant to its author.  The evaluator looks it up in all of
\* retrieved_contexts (check_claims): there every number its author was shown is the paper
\* he was shown under it, though a number he made up may be one he never saw.  The routes
\* look it up in the first context_chunks_used (compact_citations): there such a number is
\* no paper at all.
MarksResolve ==
  draft.kind = "answer" =>
    /\ node \in {"evaluator", "verdict"} =>
         \A m \in 1..Len(draft.seen) :
           Paper(draft.seen, m) # {} => Paper(contexts, m) = Paper(draft.seen, m)
    /\ node \in {"finalizer", "end"} =>
         \A m \in 1..Len(contexts) : Paper(First(contexts, shown), m) = Paper(draft.seen, m)

\* FairShare: wherever the prompt cuts the passages, no tool has two more in it than another
\* that still has some to give, whichever tool answered first and whatever earlier cycles
\* found (_interleave_by_retriever).
Share(t, n) == Cardinality({i \in 1..n : contexts[i].tool = t})
FairShare ==
  node # "executor" =>
    \A n \in DOMAIN contexts : \A t, u \in Tools :
      Share(t, n) + 1 >= Share(u, n) \/ Share(t, n) = Share(t, Len(contexts))

\* TerminalArrives: a thread that is gone has left its reader an end to read, however slow
\* the reader was.
TerminalArrives ==
  mode = "stream" /\ at = "gone" /\ client = "waits" => \E i \in DOMAIN reports : reports[i] \in Terminal

\* StopsSoon: once the client is gone, the thread begins one more node at most.
StopsSoon == late <= 1

\* BudgetKept: past the budget no cycle starts, unless the model wrote nothing.
Cycles == node = "verdict" /\ node' \in {"planner", "selector", "generator"}
BudgetKept == [][Cycles /\ Written => ~OverBudget]_agentVars

\* EveryThreadEnds: no reader, however slow, and no verdict keeps a thread for ever.
EveryThreadEnds == <>(at \in {"gone", "failed"})

\* Said in config.py:450: once the budget is exceeded the evaluator finalizes the draft
\* instead of starting another cycle.
NoCyclePastBudget == [][Cycles => ~OverBudget]_agentVars
=============================================================================
