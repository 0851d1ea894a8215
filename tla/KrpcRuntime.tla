---------------------------- MODULE KrpcRuntime ----------------------------
(***************************************************************************)
(* The request side of the Go runtime (go/krpc_runtime.go).  A goroutine   *)
(* that runs rpcCall registers a channel under a random transaction id,    *)
(* writes its query, and waits for a response or for a timer.  The one     *)
(* goroutine of receiveMessages looks the id of a response up, and hands   *)
(* the response to the channel it finds.                                   *)
(*                                                                         *)
(* Every invocation of rpcCall is a member of Calls, and its channel is    *)
(* named by it.  A section under pendingRequestsLock is one action; what   *)
(* follows the unlock is another.  The network loses, duplicates, delays   *)
(* and reorders datagrams: a query written may be answered any number of   *)
(* times or never, a response sent may be received any number of times or  *)
(* never.  Besides the nodes that were asked, anyone may send a response   *)
(* that answers nothing: receiveMessages looks at the id only, and never   *)
(* compares the sender with the destination of the request.                *)
(*                                                                         *)
(* A panic in a goroutine that nothing recovers ends the program: nothing  *)
(* happens afterwards.                                                     *)
(***************************************************************************)
EXTENDS Integers, FiniteSets

CONSTANTS
  MaxCalls,             \* bound: how many times rpcCall is invoked
  Callers,              \* how many goroutines invoke it, main.go has one
  TransactionIds,       \* what generateTransactionId chooses from
  Contents,             \* what a response says, error responses included
  Strays,               \* what responses of nodes that were not asked say
  NoCall,               \* no channel is registered for an id
  NoId,                 \* the call has not chosen an id yet
  Nothing,              \* an empty channel, a receiver at ReadFromUDP
  Timeout, WriteError   \* the errors rpcCall returns

Calls == 1 .. MaxCalls

\* A response: the id it carries, the call it is the answer to, if any (which
\* the code does not know), and what it says.
Message == [transactionId : TransactionIds, of : Calls \cup {NoCall},
            content : Contents]

\* The responses of whoever was not asked, with any id: the comment at
\* krpc_runtime.go:128 reckons with them.
Unsolicited == [transactionId : TransactionIds, of : {NoCall}, content : Strays]

Errors == {Timeout, WriteError}

ASSUME KrpcAssumption ==
  /\ MaxCalls \in Nat
  /\ Callers \in Nat
  /\ Strays \subseteq Contents
  /\ NoCall \notin Calls
  /\ NoId \notin TransactionIds
  /\ Timeout # WriteError
  /\ Nothing \notin Message \cup Errors \cup [to : Calls, msg : Message]
  /\ Errors \cap Message = {}

VARIABLES
  pendingRequests,      \* the map from transaction ids to channels
  channel,              \* the content of each channel, of capacity 1
  transactionId,        \* the id each call has chosen
  state,                \* where each call is in rpcCall
  result,               \* what each call has returned
  sent,                 \* the calls whose query was written
  responses,            \* the responses sent to this node
  delivering,           \* the response dequeued but not yet handed over
  ended                 \* a panic has ended the program

vars == <<pendingRequests, channel, transactionId, state, result, sent,
          responses, delivering, ended>>

States == {"new", "enqueued", "waiting", "timer", "returned"}

Init ==
  /\ pendingRequests = [id \in TransactionIds |-> NoCall]
  /\ channel = [k \in Calls |-> Nothing]
  /\ transactionId = [k \in Calls |-> NoId]
  /\ state = [k \in Calls |-> "new"]
  /\ result = [k \in Calls |-> Nothing]
  /\ sent = {}
  /\ responses = {}
  /\ delivering = Nothing
  /\ ended = FALSE

Active == {k \in Calls : state[k] \notin {"new", "returned"}}

-----------------------------------------------------------------------------
\* rpcCall.

\* Mutant: enqueuePendingRequest generates the id it registers and the id it
\* returns separately.
EnqueueAnother(k, id) ==
  /\ ~ended
  /\ state[k] = "new"
  /\ \A j \in 1 .. k - 1 : state[j] # "new"
  /\ Cardinality(Active) < Callers
  /\ state' = [state EXCEPT ![k] = "enqueued"]
  /\ transactionId' = [transactionId EXCEPT ![k] = id]
  /\ \E other \in TransactionIds :
       pendingRequests' = [pendingRequests EXCEPT ![other] = k]
  /\ UNCHANGED <<channel, result, sent, responses, delivering, ended>>

\* Mutant: rpcCall does not put the id into the query.
EnqueueWithoutId(k, id) ==
  /\ ~ended
  /\ state[k] = "new"
  /\ \A j \in 1 .. k - 1 : state[j] # "new"
  /\ Cardinality(Active) < Callers
  /\ state' = [state EXCEPT ![k] = "enqueued"]
  /\ pendingRequests' = [pendingRequests EXCEPT ![id] = k]
  /\ UNCHANGED <<channel, transactionId, result, sent, responses, delivering,
                 ended>>

\* enqueuePendingRequest.  Any id is chosen, whether it is in use or not, and
\* the channel registered under it before, if any, is forgotten.
Enqueue(k, id) ==
  /\ ~ended
  /\ state[k] = "new"
  /\ \A j \in 1 .. k - 1 : state[j] # "new"
  /\ Cardinality(Active) < Callers
  /\ state' = [state EXCEPT ![k] = "enqueued"]
  /\ transactionId' = [transactionId EXCEPT ![k] = id]
  /\ pendingRequests' = [pendingRequests EXCEPT ![id] = k]
  /\ UNCHANGED <<channel, result, sent, responses, delivering, ended>>

\* WriteToUDP succeeds.
WriteQuery(k) ==
  /\ state[k] = "enqueued"
  /\ state' = [state EXCEPT ![k] = "waiting"]
  /\ sent' = sent \cup {k}
  /\ UNCHANGED <<pendingRequests, channel, transactionId, result, responses,
                 delivering, ended>>

\* WriteToUDP fails: rpcCall returns, its request stays registered.
WriteFails(k) ==
  /\ state[k] = "enqueued"
  /\ state' = [state EXCEPT ![k] = "returned"]
  /\ result' = [result EXCEPT ![k] = WriteError]
  /\ UNCHANGED <<pendingRequests, channel, transactionId, sent, responses,
                 delivering, ended>>

\* The select takes the response ...
TakeResponse(k) ==
  /\ state[k] = "waiting"
  /\ channel[k] # Nothing
  /\ state' = [state EXCEPT ![k] = "returned"]
  /\ result' = [result EXCEPT ![k] = channel[k]]
  /\ channel' = [channel EXCEPT ![k] = Nothing]
  /\ UNCHANGED <<pendingRequests, transactionId, sent, responses, delivering,
                 ended>>

\* ... or the timer, which may win when both are ready.
TimerFires(k) ==
  /\ state[k] = "waiting"
  /\ state' = [state EXCEPT ![k] = "timer"]
  /\ UNCHANGED <<pendingRequests, channel, transactionId, result, sent,
                 responses, delivering, ended>>

\* Mutant: the timeout returns without cancelling the request.
CancelNothing(k) ==
  /\ state[k] = "timer"
  /\ state' = [state EXCEPT ![k] = "returned"]
  /\ result' = [result EXCEPT ![k] = Timeout]
  /\ UNCHANGED <<pendingRequests, channel, transactionId, sent, responses,
                 delivering, ended>>

\* cancelPendingRequest, which deletes whatever is registered under the id.
Cancel(k) ==
  /\ state[k] = "timer"
  /\ state' = [state EXCEPT ![k] = "returned"]
  /\ result' = [result EXCEPT ![k] = Timeout]
  /\ pendingRequests' = [pendingRequests EXCEPT ![transactionId[k]] = NoCall]
  /\ UNCHANGED <<channel, transactionId, sent, responses, delivering, ended>>

-----------------------------------------------------------------------------
\* The peer and the network.

\* The node that was asked answers.
Answer(k, content) ==
  /\ ~ended
  /\ k \in sent
  /\ responses' = responses \cup
       {[transactionId |-> transactionId[k], of |-> k, content |-> content]}
  /\ UNCHANGED <<pendingRequests, channel, transactionId, state, result, sent,
                 delivering, ended>>

-----------------------------------------------------------------------------
\* receiveMessages, for responses.

\* Mutant: the lookup leaves the request registered.
ReceiveKnownAndKeep(msg) ==
  /\ delivering = Nothing
  /\ pendingRequests[msg.transactionId] # NoCall
  /\ delivering' = [to |-> pendingRequests[msg.transactionId], msg |-> msg]
  /\ UNCHANGED <<pendingRequests, channel, transactionId, state, result, sent,
                 responses, ended>>

\* dequeuePendingRequest finds a channel and removes it from the map.
ReceiveKnown(msg) ==
  /\ delivering = Nothing
  /\ pendingRequests[msg.transactionId] # NoCall
  /\ delivering' = [to |-> pendingRequests[msg.transactionId], msg |-> msg]
  /\ pendingRequests' = [pendingRequests EXCEPT ![msg.transactionId] = NoCall]
  /\ UNCHANGED <<channel, transactionId, state, result, sent, responses, ended>>

\* The id is unknown: the response is logged and forgotten.
ReceiveUnknown(msg) ==
  /\ delivering = Nothing
  /\ pendingRequests[msg.transactionId] = NoCall
  /\ UNCHANGED vars

\* `ch <- msg`: waits while the channel is full.
Deliver ==
  /\ ~ended
  /\ delivering # Nothing
  /\ channel[delivering.to] = Nothing
  /\ channel' = [channel EXCEPT ![delivering.to] = delivering.msg]
  /\ delivering' = Nothing
  /\ UNCHANGED <<pendingRequests, transactionId, state, result, sent, responses,
                 ended>>

-----------------------------------------------------------------------------

Write(k) == WriteQuery(k) \/ WriteFails(k)

\* Mutant: no time limit.
TakeResponseOnly(k) == TakeResponse(k)

Select(k) == TakeResponse(k) \/ TimerFires(k)

rpcCall(k) == ~ended /\ (Write(k) \/ Select(k) \/ Cancel(k))

\* A response of anyone's.
Receive ==
  /\ ~ended
  /\ \E msg \in responses \cup Unsolicited :
       ReceiveKnown(msg) \/ ReceiveUnknown(msg)

\* The scanner panics on a string whose length overflows (bencode.go:55-59).
\* What else cannot be read, decoded or understood is logged and forgotten.
ReceivePanics ==
  /\ ~ended
  /\ delivering = Nothing
  /\ ended' = TRUE
  /\ UNCHANGED <<pendingRequests, channel, transactionId, state, result, sent,
                 responses, delivering>>

Next ==
  \/ \E k \in Calls, id \in TransactionIds : Enqueue(k, id)
  \/ \E k \in Calls : rpcCall(k)
  \/ \E k \in Calls, content \in Contents : Answer(k, content)
  \/ Receive
  \/ Deliver
  \/ ReceivePanics

\* The goroutines run while the program does: a write returns, a timer
\* fires, a select that is ready is taken, and so is a send to a channel with
\* room.  Nothing is assumed of the peer, of the network, or of when a
\* response is read.
Fairness == WF_vars(Deliver) /\ \A k \in Calls : WF_vars(rpcCall(k))

Spec == Init /\ [][Next]_vars /\ Fairness

-----------------------------------------------------------------------------
\* Properties.

TypeOK ==
  /\ pendingRequests \in [TransactionIds -> Calls \cup {NoCall}]
  /\ channel \in [Calls -> Message \cup {Nothing}]
  /\ transactionId \in [Calls -> TransactionIds \cup {NoId}]
  /\ state \in [Calls -> States]
  /\ result \in [Calls -> Message \cup Errors \cup {Nothing}]
  /\ sent \subseteq Calls
  /\ responses \subseteq Message
  /\ delivering \in [to : Calls, msg : Message] \cup {Nothing}
  /\ ended \in BOOLEAN

\* The receiver never waits at `ch <- msg`: no channel it has dequeued holds
\* a response already, however often a response is duplicated.  One caller
\* that does not read its channel could otherwise stop all reception.
ReceiverNeverBlocks == delivering # Nothing => channel[delivering.to] = Nothing

\* A call that has taken its response is not handed another one.
DuplicatesAreDropped ==
  \A k \in Calls :
    result[k] \in Message =>
      /\ channel[k] = Nothing
      /\ delivering # Nothing => delivering.to # k

\* The request of a call that has returned is registered no more, except
\* when its query could not be written (krpc_runtime.go:71).
OnlyFailedWritesLeak ==
  \A id \in TransactionIds, k \in Calls :
    pendingRequests[id] = k /\ state[k] = "returned" => result[k] = WriteError

\* What a call returns carries the id it chose, so that it returns the
\* response to another call only if both chose the same one, and a response
\* to none only if its sender found the id.
ForeignAnswersShareTheId ==
  \A k \in Calls :
    result[k] \in Message =>
      /\ result[k].transactionId = transactionId[k]
      /\ result[k].of \in Calls =>
           transactionId[result[k].of] = transactionId[k]

\* Every rpcCall returns, whatever the network does, unless the program ends.
EveryCallReturns ==
  \A k \in Calls : state[k] = "enqueued" ~> state[k] = "returned" \/ ended

\* "we already handled an earlier response or the request timed out"
\* (krpc_runtime.go:128) is said of responses with an unknown id: no call
\* returns the response to a call that has timed out.
LateResponsesAreUnknown ==
  \A k \in Calls :
    result[k] \in Message /\ result[k].of \in Calls =>
      result[result[k].of] # Timeout

=============================================================================
