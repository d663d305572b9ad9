# Verification of IndicRAG in TLA+

IndicRAG answers questions over a corpus of papers. This directory holds TLA+ models of the
parts of it where order, failure and concurrency decide whether it is right, the TLC runs that
check them, and theorems about them proved with TLAPS.

`PROJECT.json` lists the components, runs, mutants, theorems and hazards, and maps each
definition to the source lines it stands for.

## Inventory of the system

| component | state it keeps | operations | hard behaviour |
|---|---|---|---|
| corpus writes (`ingest.py`, `vector_store.py`, `reindex.py`, `purge.py`, `routes/ingest.py`, `routes/management.py`) | the ChromaDB collection; the ingest log and `paper_index` in SQLite | ingest one or many PDFs, delete a paper, reindex a paper, replay the log, backfill the log, purge, patch metadata | two stores with no common transaction; a ChromaDB call that times out goes on running; rollback; a cascade that fails half-way; crashes |
| ChromaDB wrapper (`vector_store._chroma_call`) | failure count, cool-down | call with a timeout in a pool thread | late effects, an open circuit |
| background jobs (`deps.py`, `persistence.py`, `api_server.py`, routes) | `_jobs` of each process, table `jobs` with leases | submit, start, progress, finish, hydrate, reap, evict | several processes over one database, crash and restart, throttled heartbeats |
| URL ingest (`routes/ingest.py`) | `_inflight_paper_ids` | loop over items: skip, reserve, download, ingest, release | concurrent jobs, every way out of the loop body |
| BM25 index (`bm25_search.BM25Index`) | doc lists, postings, tombstones, counters | add, remove, compact, search, rebuild | search takes no lock; incremental counters; renumbering |
| BM25 cache (`bm25_search`, `cache_refresh.py`) | `_indices`, the saved file | build, load, save, remove, invalidate | builds that race with ingests; positional ids; a file written outside the lock |
| reconciliation (`check_db.py`) | last report | compare the three stores | - |
| watch scheduler (`watch_runner.py`, `routes/watch.py`) | table `watches` | claim, run, save, edit, delete | compare-and-set, leases, whole-row write-back |
| chat (`deps.py`, `routes/chat.py`) | `_sessions`, turn locks | turn, stream, delete, evict | a lock handed to a generator; lost updates |
| SSE bridge (`sse_utils.py`) | producer slots, a queue per stream | produce, drop, consume, disconnect | drop-oldest queue, terminal events, leaked slots |
| LLM dispatcher (`llm_client.py`, `providers/`) | breaker and failure count per provider and model, rate windows | generate, stream, fail over | consecutive failures counted by concurrent calls, the commit point of a stream, deadlines |
| agent (`agent/`, `routes/agent.py`) | graph state | plan, tools, synthesise, reflect | bounded loops, budget, a timeout that leaves a thread |
| caches (`cache.py`) | TTL and LRU stores | get, put, invalidate | a put after an invalidate |
| persistence (`persistence.py`, `backup.py`) | one SQLite connection, its lock and batch depth | writes, batches, migrations, backup, restore | one transaction shared by all writers, a COMMIT that fails, a full disk |
| retrieval and answers (`rag.py`, `rerank.py`, `verify.py`, ...) | - | retrieve, fuse, rerank, cite | degraded mode |
| embeddings, PDF and text processing, translation, figures, metadata, web client | model handles | - | - |

What makes each one correct:

- corpus: no operation leaves collection and log apart and returns as if it had succeeded; a
  rollback takes back its own rows only; the log never records chunks that are not there.
- jobs: a live job is not failed by another process, an outcome is final, the process that runs
  a job can always update it, an abandoned job comes to be failed.
- URL ingest: one job per paper id at a time, a registry without leftovers, each item counted.
- BM25 index: it is a dictionary; its counters are what a count would give.
- BM25 cache: what queries get is an index of what the collection holds.
- watches: one schedule loop at a time runs a watch, what was seen is not fetched again, what
  was indexed is announced, a watch that is due comes to run whatever failed before.
- chat and SSE: no lost turn, no stranded lock or slot, the stored answer is the whole answer.
- LLM dispatcher: no switch of model after the first chunk, a breaker that opens on consecutive
  failures only, no attempt that starts past the deadline, a rate cap that threads share, retries
  that come to an end.
- retrieval: a citation stands for a paper the model was shown, a result keeps to the filter of
  its query, a degraded one says so, a cache does not outlive what it was made from.
- persistence: a write happens at once or fails as a whole, whoever else writes; `paper_index` agrees
  with `ingest_log`; what a batch does not report as unlogged is there.
- agent: a number in an answer means the paper it meant to its author, every tool gets its share of
  the prompt, past the budget no cycle starts, the reader learns of the end, the thread ends.

## Modules

| module | models | composes |
|---|---|---|
| `Corpus` | the two stores and every operation that writes them | - |
| `Jobs` | background jobs, their rows and leases | - |
| `UrlIngest` | the loop of a URL job and the in-flight registry | - |
| `Bm25Dict` | abstract: a dictionary of chunks | - |
| `Bm25Index` | the inverted index and lock-free search | implements `Bm25Dict` by a refinement mapping |
| `Bm25Cache` | building, saving, loading and invalidating the index | an index is the dictionary that `Bm25Index` implements |
| `Watch` | watched topics: the schedule loops, claims, runs | an ingest is one step (`UrlIngest` and `Corpus` have its steps) |
| `LlmClient` | requests to language models: failover, breakers, rate limiter, deadline, thinking levels, streams | - |
| `SseBridge` | the thread, the queue and the reader of a streamed answer; producer slots | - |
| `Chat` | sessions, turn locks, turns that are plain, stream or run the agent | extends `SseBridge`: a turn that streams takes the steps of its bridge |
| `Retrieval` | a question from its caches to its citations, while the corpus changes | an index build is one step (`Bm25Cache` has its steps) |
| `Agent` | one run of the agent graph, its thread and its reports | a tool is its outcome (`Retrieval` has the steps of one) |
| `TxStore` | abstract: a store whose requests happen at once or fail as a whole | - |
| `Persistence` | the threads that write `sessions.db`: connection, lock, batches, savepoints | implements `TxStore` by a refinement mapping |
| `Corpus_proofs`, `Bm25Index_proofs`, `Bm25Cache_proofs`, `LlmClient_proofs`, `Retrieval_proofs` | theorems and proofs | extend the module they are named after |
| `Jobs_proofs`, `Chat_proofs`, `Watch_proofs` | theorems and proofs | extend `Jobs` and `UrlIngest`, `Chat` (with `SseBridge`) and `Agent`, `Watch` and `Persistence`: two systems side by side, proved apart |
| `MC*` | values of the constants for TLC | extend the module they are named after |

### Corpus

`chroma` maps a chunk id (paper, slot) to a chunk or `NoChunk`; `log` maps a paper to the chunks
its ingest-log row lists or `NoRow`. `op[w]` is what worker `w` (a request, a background task, a
command) is in the middle of: its `kind`, its program counter and the locals of the Python
functions it runs. One step is one ChromaDB call or one SQLite transaction:

    ingest          Check* Embed (DelGet DelDo Cascade)* Preexist UpsertBatch* [Rollback] Record
    delete          DelGet DelDo Cascade
    POST reindex    DelGet DelDo Cascade, then an ingest
    reindex.py      ReplayReset (ReplayPaper Preexist UpsertBatch* [Rollback])*
    --backfill-log  BackfillWrite
    purge           Purge [ClearLog]
    PATCH           PatchWrite

A ChromaDB write succeeds, is refused, or times out: then the caller sees an exception and the
call joins `late`, from which it may `Land` at any later moment or `Vanish`. `reported` collects
the papers an operation failed over aloud: an ERROR was logged about their rows, or the operation
raised and undid nothing; `suspect` the papers of operations cut short by a crash and of late
calls. These two are history variables, and a paper found in agreement at the end of an operation
leaves both.

What `NoSilentDivergence` says of the code is therefore that a divergence is never behind an answer
of success, and not that an operator can read off the log which papers to repair. The ERRORs of
`add_documents` list the first five ids of the batch (`vector_store.py:369`, `384`); the one of an
ingest whose delete raised says that the old chunks could not be deleted (`ingest.py:269`, `595`);
a replay cut short names no paper (`reindex.py:161-173`); and the count at the end of
`add_documents` (`vector_store.py:387`) stands outside its `try`: if it raises, every chunk stays
in the collection, nothing is rolled back, no row is logged and no ERROR is about the chunks. The
caller sees an exception, and ingesting the file again does not help, since its hash is found in
the collection and it is skipped as unchanged; `reindex.py --backfill-log` does. So there are two
ways past the all-or-nothing of `vector_store.py:327`: this count, which raises, and the batch that
lands late, of which nobody hears and which `claim_all_or_nothing` shows. Divergence after a late
call or a crash is excepted by `suspect`: the code has only `check_db.py` against it.

Left out: PDF extraction and embedding (one step that may fail), the text of a chunk (a version
of its paper, and whether PATCH edited its metadata), the order in which papers and batches are
taken (any), files on disk. A paper whose changed file yields no chunk at all is not modelled
(`SlotsOf` is never empty). The COMMIT that ends a batch of log writes is taken to succeed (`Persistence` has one that fails).
Concurrent operations are on different papers (`Overlap = FALSE`) in the checked instances.

### Jobs

`mem[p]` is `deps._jobs` of process `p`, `db` the table. Times are small numbers, 0 stands for
None. `Hydrate` is the import of `deps`, `Reap` the start of `lifespan`, `Submit` the request
handler, `Start`, `Progress`, `Finish`, `SaveReport` and `Die` the background task, `UpdateJob`
is `_update_job` whole with its hourly eviction. `Reports`, `Fragile` and `Silent` say which
jobs store a report after they finished, can end by an exception outside their `try`, and never
heartbeat. `Tick` lets time pass; a job that runs calls its progress callback every `Gap` at
least: this is an assumption on PDF and network work, not something the code enforces.

### UrlIngest

`pc[j]`, `list[j]`, `pos[j]`, `existing[j]` are the program counter and the locals of
`_run_batch_url_ingest` in job `j`; `inflight` is the registry; `index` says what the chunks of a
paper id were made from. Test and reservation are one step (`_ingest_lock`), download, check and
write are steps of their own. `Other` stands for every ingest and delete that does not use the
registry (`POST /ingest`, `/ingest/all`, watches, `DELETE /papers`). The history variable
When `ingest_pdf` raises, the chunks to replace may be gone, and new ones may stay: a rollback that failed
(`vector_store.py:377-384`), the `collection.count()` after the last batch (`:387`); or they come later,
when ChromaDB runs the call the ingest gave up on (`late`, `Lands`). The history variable
`strange[j]` holds the papers given chunks that job `j` does not know of since it read the ids of
the index: by others, or by an item of its own whose ingest raised. Its next item with that paper id
replaces them, which is why `OverwritesOnlyStrange` speaks of what a job read or counted as ingested.

### Bm25Index and Bm25Dict

`ids`, `texts`, the last of `tables`, `deleted`, `df` and `totalLen` are `doc_ids`, `doc_terms`
(and `doc_lens`), `postings`, `_deleted`, `df` and `_total_len`. A text is the set of its terms.
Writers hold the index's lock over several steps; each document is one step, each of the three
groups of assignments at the end of `compact` is one. A search takes no lock: it reads one
posting list, then one entry at a time, then the ids. `tables` keeps the posting lists a search
may still hold after a compaction put new ones in place. `quiet` and `torn` of a search record
whether a writer added or removed, or a compaction assigned, while it ran. The refinement
mapping `Content` reads the dictionary off the slots (off all of them half-way through a
compaction, when they are renumbered and `_deleted` is still the old set). Left out: term
frequencies, scores and their order, `top_k`. `totalLen` is a count: the pairs of a live slot and a
term it holds.

### Bm25Cache

`coll` is the live collection, `heap` every `BM25Index` object made so far (each a dictionary),
`mem` the one in `_indices`, `disk` the saved file. `StartBuild .. PublishBuilt` are
`get_or_build_index` under `_lock`, `SaveFind .. SaveReplace` are `save_index`, `RemoveFind` and
`RemoveDo` are `remove_from_index` inside a delete, `Invalidate` and `Unlink` are `invalidate`.
Left out: `add_to_index` (no caller reaches it: each calls `_post_ingest_refresh` with nothing),
cascade failures of the delete (they are in `Corpus`), calls that time out.

### Watch

`rows` is the table: `next_run` twice, as the column `due_watches` and `claim_watch` compare and
as the copy in the JSON that `due_watches` returns, and `seen_ids`. `loop[l]` is `watch_loop` of
process `l` (asleep, in a sweep, or dead: nobody catches what `due_watches` or `claim_watch`
raises) with the list it works through and the time it took for it; `run[r]` holds the locals of
`run_watch`, called by a loop after a claim or by `POST /watch/{id}/run` without one. `Read`,
`Fetch`, `Save` are its steps: the row and the search, one paper, the digest and the whole row
back. `seenBy`, `added`, `announced`, `cut`, `overlapped` are history: they record what completed
runs saw, what runs indexed, what digests were made of, the papers of runs that ended early and
the watches that had two runs at a time. Left out: the living review of a watch, and a title and
text (a paper is a model value). The times `RunTime`, `SweepTime` and `Prompt` are assumptions on
the network and the models a run waits for; the code sets none.

### LlmClient

`chain[r]` is the list `_attempts` makes of a request, `at[r]` the path it is at, `failures` and
`openUntil` are `_circuit_failures` and `_circuit_breaker` of every path, `sent` is `_sent` of each
`_RpmLimiter`, `known` what `GeminiBackend` learnt of refused budgets and levels. `Begin ..
Attempt` are the top of the loop of `generate_with_failover` and `generate_stream_with_failover`,
`Acquire` and `GivesUp` the limiter, `Retry`, `BadRequest`, `Misread`, `Transient`, `Answer` what a
call may come to, `FirstChunk`, `StreamEnds`, `Breaks` a stream. `blame` and `sends` are history.
Steps between two calls take no time, Gemini refuses a configuration at once, and an HTTP
request is assumed to take at most the timeout it is made with. A call may be more than one request:
the client of `OpenRouterBackend` is built with `max_retries=1` (`providers/openrouter.py:156-161`), so
`Longest` is two timeouts and the pause between them (`SdkRetries`, `SdkPause`), and only Gemini's is one.
`EndsInTime` bounds the overrun by that, not by the single `LLM_REQUEST_TIMEOUT_S` from which the comment at
`llm_client.py:234-236` gets its 180 s. The clock stands when no request is under way. `sends` counts
slots: the SDK's second request takes none, so `WindowRespected` bounds slots and not requests. The model names of the
environment are taken to carry no provider prefix, and no path to be listed twice in
`LLM_PROVIDER_ORDER`. `Misread` is how the code treats a 400 that is not about the budget when
there is a budget (`providers/gemini.py:269` describes the case as a refusal of it). Left out:
message conversion, client pools (`_init_pool` fills one before the other), token counts.

### SseBridge and Chat

`posted[r]` holds the callbacks the thread of stream `r` has posted and the event loop has yet to
run, `queue[r]` the bounded queue; a chunk drops the item in front of a full queue, `error` and
`done` wait for room. `producer` is the thread, `stage` the reader (`sse_stream`), `slots` is
`_producer_slots`, `others` what other routes hold, `lost` what went with a thread that could not
be started. `answer` is what the done event carries.

`sessions` is `deps._sessions`, `holder[s]` the turn that acquired the lock of session id `s`.
`Lock, NotFound, Known, Create, Answered, AppendExchange` are a plain turn; a stream goes `HandOver,
StreamStarts, Streaming*, StreamOver, AppendExchange`, or `HandOver, NeverStarts` when its client
leaves before the generator runs: then only garbage collection frees the lock (`Collect`). `Drop`
is the deletion and the eviction, which take no lock. `saw` and `cut` are history. The row of a
session is written in the critical section of the dict and is no state of its own. Left out:
translation, citations and follow-up questions in the done event; rate limits of the routes.

### Retrieval

`stored` and `tagged` are the collection (ids, and which papers carry the tag asked for), `index`
is the BM25 index in memory, `caches` are `retrieval_cache` and `tool_cache` in LRU order, `writer`
an operation that changed the corpus and refreshes: the index, then the retrieval cache, then the
tool cache; a PATCH drops the retrieval cache only. `Unrefreshed` is a change no refresh follows: an
ingest or a reindex that raised after it had deleted or written (`routes/ingest.py:202`,
`watch_runner.py:105`), a run of another process (`reindex.py`, `purge.py`), a call given
up on that lands late; `skipped` remembers its paper until each cache is next dropped. `Look .. Store` are `retrieve_context` with
its legs (scoped, dense, lexical, sparse fallback), each of which reads the corpus as it is then;
`LookTool` and `StoreTool` are the agent's tool around it. `Replies` are the answers a model may
give to what was found: a number of passages that fit and any set of numbers, some beyond the
titles (papers of one title, or of none, share a number: `TitleOf`). `Fused` is the set of orders the reciprocal rank fusion may give (exact fractions; chunks of
equal score in any order), `Picked` a filtered list, `Numbered`, `Kept`, `Cites`,
`Compacted` and `Checked` the citation functions. `dense`, `raced`, `wipes`, `skipped` and `since` are history.
`TopK` stands for `pool_k` and `MaxChunks` for `rerank_k`. The circuit of ChromaDB appears as calls
that fail; when the lexical leg fails the dense result stands and is cached like any other. The
tool's result loses the mark `degraded` on its way to the agent, so `DegradedTold` is about the
queries of users and about the retrieval cache. Left out: `llm_cache`, filters other than papers
and tags, scores, prompts, translation.

### Agent

`node` is the node of the graph that runs next, `count` is `reflexion_count`, `scored` the last
completeness score, `calls`, `contexts`, `draft`, `shown` are `tool_calls_requested`,
`retrieved_contexts`, `draft_answer` and `context_chunks_used`. `Plan .. Finalize` are the nodes,
`Route` is `_route_reflexion`. The selected calls, one of the corpus for each sub-query and a few of
other tools, are collected one by one in the order they finish (`CallReturns`; a text that is
there already is left out, a failed call leaves a passage that says so), and `Execute` shares what
was collected out, tool by tool (`RoundRobin`). `reports` is the queue, `halt` the stop event.
`Check`, `Put`, `Done`, `FailRun`, `PutTimesOut`, `LastPut` are the thread of
`/agent/stream`, which looks at the stop event before it reports; `/agent/query` waits for the
thread, and a thread it gave up on goes on. `late` and `draft.seen` (the passages the
author of the draft was shown) are history. The evaluator's
verdict is any combination of scores and action. `Paper(s, m)` is the paper that number `m` stands
for among the passages `s`, titles being numbered as they first come (`citation_number_map`;
passages without a title share a number). The evaluator looks numbers up in all passages
(`reflexion_evaluator.py:122-132`), the routes in the first `context_chunks_used`
(`routes/agent.py:226`, `474`). `MarksResolve` therefore says two things: in the evaluator every
number the author was shown stands for the paper it was shown for, and at the end any number
does, or stands for none. In the evaluator a number the model made up, past the cut of the prompt,
does stand for a paper its author never saw, so such a claim may be scored as grounded. What the model keeps as the code has it: the
finalizer pairs a new draft with the last scores when a gate ships it unverified; a draft that
could not be written replaces a good one; a reader slow for 30 s fails a run. Two branches cannot
be reached (`count >= MAX_REFLEXION` at the evaluator's entry, "regenerate" as an action of the
selector) and have no actions. Left out: the token stream, whose items may be dropped, the
admission slot, the inside of the tools, the Python sandbox.

### Persistence and TxStore

`file` is what is committed, `conn` what `_conn` sees (`file` and the rows of its open transaction),
`wlock` whether that transaction has SQLite's write lock, `depth` is `_batch_depth`, `held[t]` how often
thread `t` has taken `_db_lock`. A request has a kind, a value and units, which are sets of rows: one
unit for a plain write and for `record_ingest` (the rows of a paper in `ingest_log` and in
`paper_index`), one for each paper of a batch (`ingest_directory`, which goes on when a paper fails,
and `backfill_log`, which does not). A thread takes its steps in the order

    plain write, record     Call BeginUnit Statement* EndWrite
    batch                   Call EnterBatch (BeginUnit Statement* EndWrite)* EndBatch

`Statement` is one SQL statement, `WriteFails`, `PaperFails` and `BatchFails` are one that raises, with
what the savepoint or the rollback undoes; `EndWrite` is `_maybe_commit` and `EndBatch` the end of
`batch_writes`, and each COMMIT may fail, which leaves the transaction open or ends it. `Foreign` is a
transaction of another process, `Crash` the end of this one. Two constants say what SQLite and a
statement may do: with `MayTear` a plain write of several statements may fail after its first (it has no
savepoint), with `GivesUp` SQLite may answer a failed statement by ending the whole transaction (as it
does when the disk is full; `ROLLBACK TO` then finds no savepoint). `settled`, which is history, is
`conn` when the lock was last given back: it is what the next COMMIT would publish, and stands for
`pending` in `TxStore`. There a request takes effect in one step, or fails, and what a failed one left
may still be published later, but whole: the code does not roll back after a COMMIT that fails, and
the next writer publishes the rows whose caller was told of an error. Left out: values (a request writes
one value to all its rows), reads, migrations, backup and restore.

## Runs

| run | instance | properties | what it shows |
|---|---|---|---|
| `corpus` | 2 papers, 2 slots, 2 versions, 2 workers; every kind of operation but `DELETE /purge/database`; 2 faults, 1 timeout, 1 crash | `NoSilentDivergence`, `RollbackOnlyOwn`, `LogRowsAreBacked` | no operation returns success over stores it left apart, whichever of its calls fail (what late calls and crashes leave is excepted); a rollback keeps what was there; log rows are backed |
| `jobs` | 2 processes, 2 jobs, one of them a report | `LiveJobKept`, `RunnerKnowsJob`, `OutcomeKept` | reaping, heartbeats, eviction and finishing in every order |
| `url_ingest` | 2 jobs, 3 items with 2 paper ids, fairness | `OneJobPerPaper`, `RegistryExact`, `OverwritesOnlyStrange`, `JobEnds` | the registry, what may be replaced, termination |
| `bm25_index` | 2 chunks, 2 terms, 2 writers, 1 search | `CountersExact`, `SearchSound`, `IsDictionary`, `SearchExact` | the index refines a dictionary; searches outside compaction |
| `bm25_cache` | 2 chunk ids, 2 texts, 2 threads | `IdsCurrent`, `BuiltIsCurrent` | the index queries get is that of the collection |
| `watch` | 1 watch, 2 loops, 1 caller, 1 paper, lease and cadence 2, 1 failure, 1 restart, fairness | `OneScheduledRun`, `NotFetchedAgain`, `NewPapersAnnounced`, `DueWatchRuns` | claims exclude; seen papers stay seen; a failed run does not wedge its watch |
| `llm` | 3 requests (a Gemini call with a deadline whose model refuses every thinking level, a stream and a call of a provider capped at 1), 3 environments, fairness | `OneVoice`, `EndsInTime`, `WindowRespected`, `OpensOnConsecutiveFailures`, `EveryRequestEnds` | failover, breaker, limiter, deadline and retries with requests in parallel |
| `chat` | 3 turns (a stream, a plain one, an agent's stream of another key), 1 slot, a queue of 1, 2 chunks, 1 deletion or eviction, fairness | `SlotsConserved`, `ToldTheTruth`, `HistorySeen`, `EveryTurnEnds` | slots, answers, histories and locks with slow readers, disconnects, broken streams and generators that never start |
| `retrieval` | 3 queries (open, scoped, the agent's with a tag), 3 papers of one chunk, two of one title, 1 change with or without refresh, caches of 1 entry | `CitedWasShown`, `ScopeKept`, `DegradedTold`, `FreshUnlessRaced` | what a query is given and what the caches keep while the corpus changes |
| `agent` | 2 calls of the corpus and one of a tool that finds a passage in common with it, 2 cycles, a clock of 2, a queue of 2, fairness | `MarksResolve`, `FairShare`, `TerminalArrives`, `BudgetKept`, `EveryThreadEnds` | every path through the graph with failing tools and models, a slow reader, one that leaves |
| `persistence` | 2 threads, 2 papers, 2 other rows, 3 requests, 2 mishaps (failed statement, failed COMMIT, crash, write of another process) | `MirrorAgrees`, `IsTxStore` | requests on the shared connection are atomic; `paper_index` agrees with `ingest_log` |

`NoSilentDivergence` does not hold with the purge route, which empties the collection and leaves
the log by design of its handler (`routes/management.py:394`); `purge.py --db` clears both and is
in the run. `RollbackOnlyOwn` and `LogRowsAreBacked` do not speak of the papers in `suspect`:
those of an operation a crash cut short, or with a timed-out call that is still to land.
`HistorySeen` allows the session of a full history to have dropped its oldest exchanges, and
leaves out first turns, which bring no session id. `FreshUnlessRaced` excepts an entry whose query
was reading while its cache was invalidated: `TTLCache.put` cannot know, and the entry stays until
it expires or the next invalidation. It excepts too the papers changed without a refresh since the
cache was last invalidated (`skipped`). `BudgetKept` excepts a draft without any text, see below.

One run checks a sentence of the comments that the code does not keep, and TLC shows how:
`claim_wrong_paper`. The metadatas are to let each mark of an answer resolve to the right paper when
claims are checked (`rag.py:943`); marks are compacted first, then looked up in the list of all
retrieved papers, so a claim is checked against another paper than the one it cites.

Ten more configurations are kept beside it. Each states such a sentence as its one property,
and `tlc -config <name>.cfg <module>.tla` prints the counterexample:

| configuration | module | sentence | what happens |
|---|---|---|---|
| `claim_past_budget` | `MCAgent` | past the budget the evaluator finalizes instead of starting another cycle (`config.py:450`) | an empty draft is an empty `final_answer`, which the router takes for none |
| `claim_mirror` | `MCPersistence` | the mirror cannot lag the row it mirrors, and no half-written row waits for the next writer's commit (`persistence.py:674`, `persistence.py:654`) | `delete_ingest_events` and `clear_ingest_log` run two DELETEs without a savepoint: if the second fails, the next COMMIT publishes the first |
| `claim_batch_rest` | `MCPersistence` | a row that fails commits the rest of the batch (`ingest.py:612`) | on a full disk SQLite ends the transaction: papers of the batch that were reported as logged are not |
| `claim_all_or_nothing` | `MCCorpus` | a failed upsert is rolled back, all or nothing (`vector_store.py:327`, `README.md:106`) | the timed-out batch lands after the rollback |
| `claim_abandoned_job` | `MCJobs` | abandoned jobs are failed at startup (`README.md:90`) | a restart inside the lease reaps nothing, and nothing reaps later |
| `claim_url_overwrite` | `MCUrlIngest` | overlapping jobs cannot overwrite a paper (`routes/ingest.py:547`) | the list of existing ids is read once |
| `claim_watch_lease` | `MCWatch` | a lease longer than a run keeps other loops off (`config.py:217`, `README.md:635`, `watch_runner.py:165`) | the lease counts from the start of the sweep: its last watch may be due again while it runs |
| `claim_compaction` | `MCBm25Index` | compaction does not change what the index returns (`tests/test_bm25_search.py:471`) | a search reads between two of its assignments |
| `claim_stale_text` | `MCBm25Cache` | `invalidate()` deletes the saved index, so reused ids cannot bring back old text (`README.md:109`) | a save that began earlier puts the file back |
| `claim_first_turn` | `MCChat` | requests on one session queue, no answer is blind to the turn beside it (`deps.py`, `session_turn_lock`) | a stream tells its client the new session id in the done event and appends after it, without a lock: a second turn comes in between |

### Bounds

Every bound is a constant named `Max...` and stands as a guard in the action it bounds. Two
versions of a paper, one chunking into fewer slots than the other, suffice for every case of an
upsert over rows that were there before; a batch size of 1 with two slots gives a failure after
a batch that succeeded; a single fault, timeout or crash is enough to show what one of them
breaks, and `corpus` allows combinations of them. In `jobs` the lease is gap plus
throttle exactly, its least allowed value, and the clock runs past lease, eviction and day. In
`bm25_index` compaction starts at a smaller share of tombstones than in the code
(`CompactOver = 4` instead of 1 / `_COMPACT_RATIO`, for lists of two or three slots). In
`watch` a lease or a cadence ends twice within the bound of the clock, so that a claim can follow
a failed run and a run by hand can overlap a scheduled one; a run or a sweep takes one unit at
most, less than the lease. `claim_watch_lease` has two watches, runs shorter than the lease and
sweeps that are not. Symmetry is used in `corpus` (papers and workers), `bm25_index` and
`bm25_cache` and `persistence` (threads, papers, rows) only, where no liveness is checked and no definition distinguishes the elements
(terms are not symmetric: a fixed text holds both).

In `llm` a breaker trips at 2 failures instead of 3, a window and a cool-down last 2 units, a
request and the pause before the SDK's next one 1 unit: so a breaker opens, closes again and a request comes back to its path within one
chain, and a wait for the limiter both succeeds and is given up; requests begin at time 0 so that
they overlap, and the clock runs (`MaxTime`) until the longest chain is over. In `chat` one slot and
a queue of one item make every conflict over a slot and every drop of a chunk happen with two
chunks; `MaxTurns` is 2, so that a third exchange drops the first (`claim_first_turn` needs 1
only). In `retrieval` a cache of one entry is full at once, `TopK` and `MaxChunks` are smaller than
the corpus, the three orders of the chunks differ, and one write suffices for every race of a
query with a refresh; that a refresh may follow a change without one, or meet it, is left to the
theorem, which holds for any number of them. In `agent` the two calls
of the corpus give the same texts or a failure, as sub-queries may, and a third call finds one of
them too, so that texts meet again within a cycle and between cycles; a prompt holds two of up to four passages, the budget is over
after the first unit of time, the reserve after the second, and a queue of two fills before the
first cycle is over; completeness takes two values, which gives better, equal and worse (the
code asks for 0.05 more; scores that far apart are taken to be the only ones).

In `persistence` a batch of two papers has a paper before and one after the one that fails, the
second thread waits for the lock meanwhile, and a third request comes after both and publishes what they
left; two mishaps let a failure meet a failed COMMIT or another process. `MayTear` and `GivesUp` are
false there and true in `claim_mirror` and `claim_batch_rest`, which show what they break.

### Fairness

`UrlIngest.UrlFairSpec`: weak fairness of each job's next step. A background task runs in a thread
of its own, and a download or an ingest has timeouts or ends; the environment (`Other`) and the
start of a job have none. `Jobs.FairSpec`: the clock goes on, a stopped process is started again
(`restart: unless-stopped` in `docker-compose.yml:16`) and gets through its start, a task starts
and finishes. `Watch.FairSpec`: a loop that is not dead polls on
(`watch_loop` sleeps for a fixed interval) and its runs, whose downloads and model calls have
timeouts, go on to an end or fail; nothing is assumed of requests, and nothing of the clock:
`DueWatchRuns` is about watches that are due. Nothing is assumed of crashes.
`LlmClient.FairSpec`: threads are scheduled, a call returns within `Longest` (the clients are
made with a timeout and one retry) and time passes. `Chat.FairSpec`: the turns, the threads and the loop go on, a model's
stream ends, and the slowest reader reads on or leaves; nothing is assumed of deletions,
evictions, garbage collection and other routes, so `EveryTurnEnds` names the one turn that may
wait: for a lock stranded with a generator that never started. `AgentSpec`: the calls of a node
end, and time passes. For model calls, corpus searches and the other tools that follows from their time limits. For the arXiv
fetch it is an assumption: its limit is no limit, because `tool_executor.py:460-461` leaves the `with` of
its pool by waiting for the very thread it gave up on, so the tool ends when the fetch does; nothing is assumed of its reader.
`Corpus`,
`Bm25Index`, `Bm25Cache`, `Retrieval` and `Persistence` state safety only.

## Proofs

`Jobs_proofs` proves, for any sets of jobs and processes, every lease, throttle, gap and day that
satisfy `JobsAssumption`, `LeaseAssumption` (`Gap + MinInterval <= Lease`, `Gap <= TTL`) and
`NoJobAssumption`, that `TypeOK`, `LiveJobKept`, `RunnerKnowsJob` and `OutcomeKept` hold. The
inductive invariant is

    IInv == TypeOK /\ Held /\ Unstarted /\ Beating /\ Unreaped

`Held`: the process of a live task is there and its dict holds the job, pending or running as the
task's phase has it, and completed while a report is being stored. `Unstarted`: a job that has
not begun has no row, and no other dict knows it.
`Beating`: the lease in the row of a running job that heartbeats reaches beyond its last progress
by a gap, taking into account that a throttled call writes nothing: this is the fact behind
`LiveJobKept`, and where `LeaseAssumption` is used. `Unreaped`: what the other dicts hold of the
job cannot make an eviction delete its row.

Of `UrlIngest` the same module proves `UrlTypeOK`, `OneJobPerPaper`, `RegistryExact` and `AllCounted` for any
number of jobs, items, paper ids and lists, and `OverwritesOnlyStrange`. Its inductive invariant adds `AtItem` (a job between
reserving and releasing is at an item of its list), `OneHolder` (one holder per id among jobs at
work and stranded ones), `Counted` (what was counted so far is what was passed so far, plus
the item just written), and `KnownOrStrange` (a paper in the index is one that a job past
its reading of the ids knows of or is strange to it, and the job does not know the paper it is
at), on which `OverwritesOnlyStrange` rests.

`Watch_proofs` proves `TypeOK`, `OneScheduledRun`, `NotFetchedAgain` and `NewPapersAnnounced` for
any number of watches, loops, callers and papers, and any times, with `WatchAssumption` and
`NoRowAssumption` only. There are three invariants, each inductive with `TypeOK`. `Claimed`: the
two copies of `next_run` agree, what a sweep found due was due when it began, and a watch that a
loop runs is not due before that loop's sweep is over; so whoever claims it began its sweep
later than the first can last. `SweepFits` (a sweep is shorter than lease and cadence) is the
hypothesis of `OneScheduledRun` and is needed, as `claim_watch_lease` shows. `Seen`: the row of a
watch without overlapping runs has all that completed runs saw, and a run that has read it too.
`ToAnnounce`: what was indexed has been announced, was cut off, or is in the hands of a run that
lists it.

Of `Persistence` the same module proves, for any threads, papers, rows, values and requests,
`DbTypeOK`; `MirrorAgrees` if `~MayTear`, with or without `GivesUp`; and `IsTxStore` (the refinement) and
`RestCommitted` if `~MayTear /\ ~GivesUp`. The two hypotheses are what `claim_mirror` and
`claim_batch_rest` show to be needed: they say of the world that no second DELETE fails alone and that
the disk does not fill up in a batch. The inductive invariant is `DbTypeOK` with `Locked` (one thread at
most is past the lock, and depth and counts are what its place says), `Doing` (the units it has not
begun, could not record and is at are different), `Agreeing` (mirror and log agree wherever a COMMIT or a
savepoint may find them) and `Published`: the connection is `settled` with the finished units of the
thread past the lock and what it has written of the present one, and nothing is unpublished while no
transaction is open. A COMMIT is then one step of the abstract store, a failure one or a stutter, and
`RestCommitted` follows from the abstract step alone (`TxStores`).

`Corpus_proofs` proves `TypeOK` for any papers, slots, versions and workers and any mixture of
operations, overlapping or not, and `RollbackOnlyOwn` and `LogRowsAreBacked` under the hypothesis
`~Overlap`: nothing in the code keeps two operations off one paper, and without it one operation may
delete what another is about to log. `NoSilentDivergence` is proved under that hypothesis and
`"purgeRoute" \notin Kinds`, for any mixture of the other operations, any number of failed calls,
timeouts and crashes. `CorpusAssumption` says besides that the constants `NoChunk` and `NoRow` are
not chunks or log rows themselves. The inductive invariant has three parts. `TInv`: an operation
works within its papers (`Shape`). `SInv`: the papers of operations are disjoint, what a late call
touches is in doubt (`LateSuspect`), and of each operation (`Kept`): while `add_documents` runs, a row
of its papers that was not there before and is there now was created by it or is in doubt
(`OwnRows`), and a row it has written, or a backfill has read, is as it wrote or read it or is in
doubt (`Backed`). `NInv`, for `NoSilentDivergence`: a paper that no operation works on and that
none failed over agrees in both stores (`Agrees`), and of one that an operation works on there is a
`Story`, which says for each place of the operation how far the stores may be apart: for one that
replaces chunks (`Replacing`: deleted and not yet struck from the log, or written with no row to
compare it with), for a replay (`Replaying`: what is there is what the log says, and what was
replayed is there), for a purge and a backfill. At every failing call either the story goes on, or
the paper is named in the same step.

`Bm25Cache_proofs` proves `TypeOK`, `IdsCurrent` and `BuiltIsCurrent` for any ids, texts, threads and
numbers of operations, faults and restarts, whether or not operations overlap. `Settled` ids are
those no running operation may have written and no failed ingest left behind; on these the index
in the dict, what a loader compares with the file and what a builder fetched agree with the
collection (`Same`). It is inductive because an operation ends by emptying the dict while no
builder holds `_lock`, so no builder is on the way with what it read before.

`Bm25Index_proofs` proves, for any chunks, terms, texts, writers and searches, that the index
implements the dictionary (`IsDictionary`, the refinement), and `TypeOK`, `CountersExact`,
`SearchSound` and `SearchExact`. The invariant `IndexOK` says at each stage of an add, a removal
and a compaction how the parts fit together: a chunk has one slot that stands (`Unique`), the
tombstones are slots (`Tombs`), the counters are counts (`Summed`, `Counted`), and the postings of
a term are the slots that hold it, or are so once renumbered (`Listed`). `SearchOK` says of a search
that nothing disturbed that it has scored exactly the live slots which hold a term it has
been through. Each step is then a step of the dictionary or leaves `Content` as it is; the
compaction needs that numbering live slots is a bijection that keeps their order (`Numbering`).

`Retrieval_proofs` proves `TypeOK`, `CitedWasShown`, `ScopeKept`, `DegradedTold` and
`FreshUnlessRaced` for any corpus, queries, filters, orders of the legs, sizes of cache and prompt
and number of writes. The invariant says of every passage a query holds or a cache keeps how
current it still is: what the retrieval cache keeps is what the collection has, or the refresh
that will drop it is under way, or its paper was changed without one (`Fresh`), what the tool cache keeps is at least there or such a
refresh is under way, or its paper was changed without one (`Alive`), and a query knows this of what it has read for as long as the
cache was not invalidated since it looked there (`Held`). A put after an invalidation is the
case in which that is not known, and is what `raced` marks. `Honest` carries the filter and the
mark `degraded` through the legs and both caches. `CitedWasShown` is a fact about the citation
functions: the marks kept, renumbered and compacted stand for the titles they stood for.

`LlmClient_proofs` proves `TypeOK`, `OneVoice`, `EndsInTime`, `WindowRespected`, `Converges` (no
refusal finds a request without a retry) and `OpensOnConsecutiveFailures` for any requests, paths, caps, times and environments.
`Spoken`: nothing is shown before the call that answers. `Timely`: waits and calls begin early enough and
last no longer than they may (`Longest`). `Climbing`: a configuration says how often it can have been tried,
because each refusal takes it a rung up. For the window: what the limiter remembers is the end of
what it let pass and what it forgot is a window old (`Remembered`), so a request that finds room
is a window behind the one `Rpm` places before it (`Spaced`), and no window holds more than `Rpm`.
For the breaker: the failures counted of a path are exactly the requests that saw it fail since it
last answered or was opened, each of which is past it in its chain or over (`Blamed`, `Behind`); a
chain has no path twice (`ChainUnlike`), so none is counted again. This needs the hypothesis
`NoRepeats`: `LLM_PROVIDER_ORDER` names no provider twice. `_attempts` does not look for repeats; with
one, a single request may fail at the same path twice and both failures count.

`Chat_proofs` proves `TypeOK`, `SlotsConserved`, `ToldTheTruth` and `HistorySeen` for any turns, owners,
session ids, slots, queue sizes, deletions and evictions. `Flow`: what is on its way to a client is
chunks, then an error if the model's stream broke, then the end, so the drop of the item in front
can drop neither an error that matters nor the end. `Locked`: a turn with an id holds the lock of
that id from before it reads the history until its exchange is appended; `Reading`: so only first
turns write to its session beside it.

Of `Agent` the same module proves `AgentTypeOK`, `MarksResolve`, `FairShare`, `TerminalArrives`,
`BudgetKept`, `StopsSoon` (a thread begins at most one node after its client left) and
`EvaluationsBounded` for any corpus, tools, calls, queue size and limits. `MarksResolve` rests on
`WroteFrom` (from the draft on, `draft.seen` is the first `shown` of the passages) and on
`NumbersStay`: the number of a title depends on the passages up to its first only, and no two
titles have one (`NumbersRise`), so what comes after the cut changes no number before it. `Tells` ties the stop event to the client, `Leaving` says that a thread on its way out has
left a last report, `LastNode` that the node begun after the client left is the last one, `Left`
that every draft still to be evaluated has an evaluation left. For `FairShare`: positions that a
total order lines up are numbered without a gap (`RowPlaces`), so sharing out only moves passages; if
the n-th of them has rank k among those of its tool, no tool has more than k of the first n
(`FrontBelow`), and one with passages left has k - 1 at least (`FrontAbove`).

The assumptions used are those named in the modules (`CorpusAssumption`, `LlmAssumption`,
`ChatAssumption`, `BridgeAssumption`, `AgentAssumption`, `PersistenceAssumption`, `Bm25CacheAssumption`, ...), which TLC evaluates on
every run.

Proved and not in a run: the type invariants of all modules, `MirrorAgrees` where SQLite ends
transactions, `RestCommitted` of `Persistence`,
`UrlTypeOK` and `AllCounted` of `UrlIngest`, `Converges`, `StopsSoon`, `EvaluationsBounded`.
Model-checked only, by the nature of the prover: liveness under fairness (`JobEnds`,
`DueWatchRuns`, `EveryRequestEnds`, `EveryTurnEnds`, `EveryThreadEnds`) and ENABLED. No module proved
about uses recursion: filtering, sorting and sums are stated without it (`Picked`, `Fused`,
`Arranged`, `Ordered`, `SumOfLens`), so that what they give could be proved.

## Not modelled

- The failure count and cool-down of `_chroma_call`: a refused call stands for an open circuit.
- Migrations, backup, restore and the checkpoint of `sessions.db`.
- `llm_cache` and hit statistics; request coalescing of embeddings; admission slots.
- The living review of a watch, the text of reports, comparisons and contradictions.
- Operations on one paper at the same time (`Overlap = TRUE`): the code excludes them nowhere and
  promises nothing for them beyond the URL registry.
- Embedding, reranking and scoring (numeric code), PDF and text processing, translation, prompts,
  the Python sandbox of the agent, the web client, deployment files, evaluation scripts.
