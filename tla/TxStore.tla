------------------------------ MODULE TxStore ------------------------------
(***************************************************************************)
(* What a caller of persistence.py may count on, whatever the other        *)
(* threads do on the connection they share.  A request takes effect in one *)
(* step, at its COMMIT, or it fails and the stored rows stay as they are.  *)
(* A failed request may still be published by a later COMMIT of the        *)
(* process (its rows wait in pending), but as a whole.                     *)
(*                                                                         *)
(* A request writes one value to the rows of each of its units.  Only a    *)
(* batch of ingested papers may do without some of its units, and then it  *)
(* says which.                                                             *)
(***************************************************************************)
CONSTANTS Writers, Rows, Requests, NoValue, NoRequest

VARIABLES
  store,    \* the rows as every reader sees them
  pending,  \* the rows as the next COMMIT of this process would leave them
  asked,    \* the request a thread is waiting for
  answer    \* to its last one: done or not, and the units a done one did without

txVars == <<store, pending, asked, answer>>

NoAnswer == [said |-> "nothing", missing |-> {}]
Failure == [said |-> "error", missing |-> {}]
Done(missing) == [said |-> "done", missing |-> missing]

Put(v, U, s) == [x \in Rows |-> IF x \in U THEN v ELSE s[x]]

\* What of a request may be written.
Parts(r) == {S \in SUBSET r.units : r.kind # "ingest" => S = r.units}

TxInit ==
  /\ store = [x \in Rows |-> NoValue]
  /\ pending = store
  /\ asked = [t \in Writers |-> NoRequest]
  /\ answer = [t \in Writers |-> NoAnswer]

Ask(t, r) ==
  /\ asked[t] = NoRequest
  /\ asked' = [asked EXCEPT ![t] = r]
  /\ answer' = [answer EXCEPT ![t] = NoAnswer]
  /\ UNCHANGED <<store, pending>>

Answered(t, a) ==
  /\ asked' = [asked EXCEPT ![t] = NoRequest]
  /\ answer' = [answer EXCEPT ![t] = a]

Performed(t) ==
  /\ asked[t] # NoRequest
  /\ \E S \in Parts(asked[t]) :
       /\ Answered(t, Done(asked[t].units \ S))
       /\ store' = Put(asked[t].value, UNION S, pending)
  /\ pending' = store'

Failed(t) ==
  /\ asked[t] # NoRequest
  /\ Answered(t, Failure)
  /\ \/ pending' \in {pending, store}
     \/ \E S \in Parts(asked[t]) : pending' = Put(asked[t].value, UNION S, pending)
  /\ UNCHANGED store

\* The process dies, and with it what was not committed.
Lost ==
  /\ pending' = store
  /\ asked' = [t \in Writers |-> NoRequest]
  /\ answer' = [t \in Writers |-> NoAnswer]
  /\ UNCHANGED store

\* Another process writes, which it can only while this one has nothing uncommitted.
Foreign ==
  /\ pending = store
  /\ \E r \in Requests : \E S \in Parts(r) : store' = Put(r.value, UNION S, store)
  /\ pending' = store'
  /\ UNCHANGED <<asked, answer>>

TxNext ==
  \/ \E t \in Writers : (\E r \in Requests : Ask(t, r)) \/ Performed(t) \/ Failed(t)
  \/ Lost \/ Foreign

TxSpec == TxInit /\ [][TxNext]_txVars
=============================================================================
