------------------------------- MODULE Chat -------------------------------
(***************************************************************************)
(* Conversations (deps.py, routes/chat.py, routes/agent.py).  A turn reads *)
(* the session's history, generates for seconds, and appends its exchange; *)
(* a lock per session id keeps the turns of one session apart, for those   *)
(* that bring an id.  The first turn of a conversation brings none.        *)
(* Sessions are evicted and deleted without the lock.  A session is        *)
(* written through to its row in the same critical section, so the row is  *)
(* not modelled separately.                                                *)
(***************************************************************************)
EXTENDS SseBridge

CONSTANTS
  Turns,         \* requests; Streams of them are POST /chat/stream
  AgentStreams,  \* POST /agent/stream: a generator too, which appends before it says so
  Sids,          \* session ids
  OwnerOf,       \* the key of a turn
  NewId,         \* the uuid drawn for a turn that brings no id
  MaxTurns,      \* config.CHAT_HISTORY_MAX_TURNS
  MaxGone,       \* bound: deletions and evictions
  NoSid, NoTurn, NoSession

ASSUME ChatAssumption ==
  /\ Streams \subseteq Turns /\ AgentStreams \subseteq Turns \ Streams
  /\ DOMAIN OwnerOf = Turns
  /\ NewId \in [Turns -> Sids] /\ \A t, u \in Turns : NewId[t] = NewId[u] => t = u
  /\ MaxTurns \in Nat \ {0} /\ MaxGone \in Nat
  /\ NoSid \notin Sids /\ NoTurn \notin Turns
  /\ NoSession \notin [owner : Range(OwnerOf), log : Seq(Turns)]

VARIABLES
  sessions,  \* deps._sessions: who owns each, the exchanges it holds
  holder,    \* who acquired the turn lock of each session id
  pc,        \* where each turn is
  asked,     \* the session id it came with
  sid,       \* the session it belongs to
  saw,       \* the history it read
  given,     \* session ids clients were told
  gone,      \* deletions and evictions so far
  cut        \* history: turns whose session went away while they ran

chat == <<sessions, holder, pc, asked, sid, saw, given, gone, cut>>
vars == <<bridge, chat>>

Ids == Sids \cup {NoSid}
Sessions == [owner : Range(OwnerOf), log : Seq(Turns)]
Exists(s) == sessions[s] # NoSession

Init ==
  /\ BridgeInit
  /\ sessions = [s \in Sids |-> NoSession]
  /\ holder = [s \in Sids |-> NoTurn]
  /\ pc = [t \in Turns |-> "new"]
  /\ asked = [t \in Turns |-> NoSid]
  /\ sid = [t \in Turns |-> NoSid]
  /\ saw = [t \in Turns |-> <<>>]
  /\ given = {}
  /\ gone = 0
  /\ cut = {}

Goes(t, here, there) == pc[t] = here /\ pc' = [pc EXCEPT ![t] = there]
\* Bug: only a turn that found its session gives the lock back.
UnlocksIfFound(t) == holder' = IF sid[t] = NoSid THEN holder ELSE [holder EXCEPT ![sid[t]] = NoTurn]
\* The turn gives the lock back, if it is one that others know.
Unlocks(t) == holder' = IF asked[t] = NoSid THEN holder ELSE [holder EXCEPT ![asked[t]] = NoTurn]

-----------------------------------------------------------------------------
\* A request arrives: with no id, or with one that a client was told.
Begin(t, s) ==
  /\ s \in given \cup {NoSid}
  /\ Goes(t, "new", IF s = NoSid THEN "read" ELSE "lock")
  /\ asked' = [asked EXCEPT ![t] = s]
  /\ UNCHANGED <<bridge, sessions, holder, sid, saw, given, gone, cut>>

\* Bug: no lock for the session of a request that streams.
PlainAcquires(t) == IF t \in Streams THEN UNCHANGED holder
                    ELSE holder[asked[t]] = NoTurn /\ holder' = [holder EXCEPT ![asked[t]] = t]
Acquires(t) == holder[asked[t]] = NoTurn /\ holder' = [holder EXCEPT ![asked[t]] = t]

Lock(t) ==
  /\ Goes(t, "lock", "read")
  /\ Acquires(t)
  /\ UNCHANGED <<bridge, sessions, asked, sid, saw, given, gone, cut>>

\* _get_or_create_session: another key's session is not found; a new one has a new id.
NotFound(t) ==
  /\ Goes(t, "read", "over")
  /\ asked[t] # NoSid /\ Exists(asked[t]) /\ sessions[asked[t]].owner # OwnerOf[t]
  /\ Unlocks(t)
  /\ UNCHANGED <<bridge, sessions, asked, sid, saw, given, gone, cut>>

Known(t) ==
  /\ Goes(t, "read", "work")
  /\ asked[t] # NoSid /\ Exists(asked[t]) /\ sessions[asked[t]].owner = OwnerOf[t]
  /\ sid' = [sid EXCEPT ![t] = asked[t]]
  /\ saw' = [saw EXCEPT ![t] = sessions[asked[t]].log]
  /\ UNCHANGED <<bridge, sessions, holder, asked, given, gone, cut>>

Create(t) ==
  LET s == IF asked[t] = NoSid THEN NewId[t] ELSE asked[t] IN
  /\ Goes(t, "read", "work")
  /\ ~Exists(s)
  /\ sid' = [sid EXCEPT ![t] = s]
  /\ sessions' = [sessions EXCEPT ![s] = [owner |-> OwnerOf[t], log |-> <<>>]]
  /\ UNCHANGED <<bridge, holder, asked, saw, given, gone, cut>>

\* Retrieval or generation raises, or the agent times out.
Fail(t) ==
  /\ Goes(t, "work", "over")
  /\ Unlocks(t)
  /\ UNCHANGED <<bridge, sessions, asked, sid, saw, given, gone, cut>>

\* The answer is there: of a plain turn, of an agent's stream, of a search that found nothing.
Answered(t) ==
  /\ Goes(t, "work", "append")
  /\ t \notin AgentStreams
  /\ UNCHANGED <<bridge, sessions, holder, asked, sid, saw, given, gone, cut>>

\* The handler returns its generator, which now has to release the lock.
HandOver(t) ==
  /\ Goes(t, "work", "handed")
  /\ t \in Streams \cup AgentStreams
  /\ UNCHANGED <<bridge, sessions, holder, asked, sid, saw, given, gone, cut>>

\* The client is gone before the generator starts: nobody runs its finally.
NeverStarts(t) ==
  /\ Goes(t, "handed", "dropped")
  /\ UNCHANGED <<bridge, sessions, holder, asked, sid, saw, given, gone, cut>>

\* The generator starts: it waits for a slot of the bridge, or runs the agent.
StreamStarts(t) ==
  /\ Goes(t, "handed", "stream")
  /\ t \in Streams
  /\ Stage(t, "off", "waiting")
  /\ UNCHANGED <<slots, others, lost, stop, thread, channel, got, answer>>
  /\ UNCHANGED <<sessions, holder, asked, sid, saw, given, gone, cut>>

AgentRuns(t) ==
  /\ t \in AgentStreams
  /\ \/ Goes(t, "handed", "append") /\ UNCHANGED holder
     \/ Goes(t, "handed", "over") /\ Unlocks(t)     \* an error, a timeout, a disconnect
  /\ UNCHANGED <<bridge, sessions, asked, sid, saw, given, gone, cut>>

\* A step of the bridge; the done event tells the client its session id.
Streaming(t) ==
  /\ pc[t] = "stream"
  /\ BridgeStep(t)
  /\ given' = given \cup {sid[u] : u \in {u \in {t} : answer'[u] # answer[u]}}
  /\ UNCHANGED <<sessions, holder, pc, asked, sid, saw, gone, cut>>

\* The producer and the loop go on when the reader is gone.
Outlives(t) ==
  /\ t \in Streams /\ pc[t] # "stream"
  /\ ThreadStep(t) \/ Deliver(t)
  /\ UNCHANGED chat

\* Only an answer without an error event is kept.
StreamOver(t) ==
  /\ t \in Streams
  /\ stage[t] \in BridgeOver
  /\ IF stage[t] = "told" THEN Goes(t, "stream", "append") /\ UNCHANGED holder
                          ELSE Goes(t, "stream", "over") /\ Unlocks(t)
  /\ UNCHANGED <<bridge, sessions, asked, sid, saw, given, gone, cut>>

\* The client disconnects between the done event and the end of the stream.
StreamLeft(t) ==
  /\ t \in Streams
  /\ Goes(t, "append", "over")
  /\ Unlocks(t)
  /\ UNCHANGED <<bridge, sessions, asked, sid, saw, given, gone, cut>>

Trimmed(log) == IF Len(log) > MaxTurns THEN SubSeq(log, Len(log) - MaxTurns + 1, Len(log)) ELSE log

\* The exchange goes to the session as it is now, re-created if it is gone.
WithExchange(t) ==
  LET now == IF Exists(sid[t]) THEN sessions[sid[t]] ELSE [owner |-> OwnerOf[t], log |-> <<>>]
  IN [now EXCEPT !.log = Trimmed(Append(@, t))]

AppendExchange(t) ==
  /\ Goes(t, "append", "over")
  /\ sessions' = [sessions EXCEPT ![sid[t]] = WithExchange(t)]
  /\ Unlocks(t)
  /\ given' = given \cup {sid[t]}
  /\ UNCHANGED <<bridge, asked, sid, saw, gone, cut>>

\* A lock whose holder is gone, and that nobody waits for, is collected.
Stranded(s) == holder[s] # NoTurn /\ pc[holder[s]] = "dropped"
Collect(s) ==
  /\ Stranded(s)
  /\ \A t \in Turns : ~(pc[t] = "lock" /\ asked[t] = s)
  /\ holder' = [holder EXCEPT ![s] = NoTurn]
  /\ UNCHANGED <<bridge, sessions, pc, asked, sid, saw, given, gone, cut>>

\* DELETE /chat/{id} by its owner, or the sweep that finds it idle for hours: a session
\* without an exchange is as young as the turn that created it.
Running(s) == {t \in Turns : sid[t] = s /\ pc[t] \notin {"dropped", "over"}}
Drop(s) ==
  /\ Exists(s) /\ gone < MaxGone
  /\ s \in given \/ Running(s) = {}
  /\ sessions' = [sessions EXCEPT ![s] = NoSession]
  /\ gone' = gone + 1
  /\ cut' = cut \cup Running(s)
  /\ UNCHANGED <<bridge, holder, pc, asked, sid, saw, given>>

Elsewhere == (OtherTakes \/ OtherReturns) /\ UNCHANGED chat

Turn(t) ==
  \/ Lock(t) \/ NotFound(t) \/ Known(t) \/ Create(t) \/ Fail(t) \/ Answered(t)
  \/ HandOver(t) \/ NeverStarts(t) \/ StreamStarts(t) \/ AgentRuns(t) \/ StreamOver(t)
  \/ StreamLeft(t) \/ AppendExchange(t)

Next ==
  \/ \E t \in Turns : Turn(t) \/ \E s \in Ids : Begin(t, s)
  \/ \E t \in Streams : Streaming(t) \/ Outlives(t)
  \/ \E s \in Sids : Collect(s) \/ Drop(s)
  \/ Elsewhere

Spec == Init /\ [][Next]_vars

\* Threads and the loop run; a generation ends, the slowest client reads on or leaves.
FairSpec ==
  /\ Spec
  /\ \A t \in Turns : WF_vars(Turn(t))
  /\ \A t \in Streams :
       /\ WF_vars(ReaderStep(t) /\ Streaming(t))
       /\ WF_vars(Deliver(t) /\ (Streaming(t) \/ Outlives(t)))
       /\ WF_vars(ThreadStep(t) /\ (Streaming(t) \/ Outlives(t)))

-----------------------------------------------------------------------------
\* TypeOK: every variable of the sessions and of the bridge has its type.
TypeOK ==
  /\ BridgeTypeOK
  /\ sessions \in [Sids -> Sessions \cup {NoSession}]
  /\ holder \in [Sids -> Turns \cup {NoTurn}]
  /\ pc \in [Turns -> {"new", "lock", "read", "work", "handed", "dropped", "stream", "append", "over"}]
  /\ asked \in [Turns -> Ids]
  /\ sid \in [Turns -> Ids]
  /\ saw \in [Turns -> Seq(Turns)]
  /\ given \subseteq Sids
  /\ gone \in 0..MaxGone
  /\ cut \subseteq Turns

\* What a turn answered from is what was said in its session since: every exchange there, but
\* those of first turns, was in the history it read, and none of that history is missing, unless
\* the session is full and may have dropped it.
UpToDate(t) ==
  /\ Exists(sid[t])
  /\ LET log == sessions[sid[t]].log IN
     /\ \A i \in DOMAIN log : asked[log[i]] # NoSid => log[i] \in Range(saw[t])
     /\ Len(log) < MaxTurns => Range(saw[t]) \subseteq Range(log)

\* HistorySeen: a turn that appends its exchange answered from all that was said before it, unless
\* the session was deleted or evicted meanwhile: it is not blind to a turn that ran beside it, and
\* overwrites none.  First turns are left out: nobody else can know their lock (session_turn_lock).
HistorySeen ==
  [][\A t \in Turns :
       pc[t] = "append" /\ sessions' # sessions /\ pc'[t] = "over" /\ asked[t] # NoSid /\ t \notin cut
         => UpToDate(t)]_vars

\* EveryTurnEnds: a turn that arrived ends, and its producer gives its slot back.  The one turn
\* that may wait for ever is one whose lock went down with a generator that never started.
EveryTurnEnds ==
  \A t \in Turns : pc[t] # "new" ~>
    \/ pc[t] \in {"dropped", "over"} /\ (t \in Streams => producer[t] \in {"none", "finished"})
    \/ pc[t] = "lock" /\ Stranded(asked[t])

\* Said by session_turn_lock: concurrent requests on one session queue, so that no answer is
\* blind to the turn running beside it.
EveryTurnSeesHistory ==
  [][\A t \in Turns :
       pc[t] = "append" /\ sessions' # sessions /\ pc'[t] = "over" /\ t \notin cut
         => Exists(sid[t]) /\ sessions[sid[t]].log = saw[t]]_vars
=============================================================================
