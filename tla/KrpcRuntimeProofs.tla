-------------------------- MODULE KrpcRuntimeProofs --------------------------
(***************************************************************************)
(* Safety of the Go runtime, for every number of calls and callers and     *)
(* every set of transaction ids, a single id included.                     *)
(*                                                                         *)
(* None of the properties is inductive alone.  That a channel which was    *)
(* dequeued is empty rests on a channel being empty while it is            *)
(* registered, and that on each channel being registered under the id of   *)
(* its call only, and dequeued once.  IInv states how a response travels:  *)
(* Registered, then InTransit, then InChannel, then Returned.              *)
(***************************************************************************)
EXTENDS KrpcRuntime, TLAPS

\* A registered channel: under the id its call chose, empty, nothing on its
\* way to it, and its call waits for it or could not write its query.
Registered ==
  \A id \in TransactionIds, k \in Calls : pendingRequests[id] = k =>
    /\ transactionId[k] = id
    /\ channel[k] = Nothing
    /\ delivering # Nothing => delivering.to # k
    /\ state[k] # "new"
    /\ result[k] \notin Message
    /\ state[k] = "returned" => result[k] = WriteError

\* The response the receiver has in its hand.
InTransit ==
  delivering # Nothing =>
    /\ delivering.msg \in responses \cup Unsolicited
    /\ delivering.msg.transactionId = transactionId[delivering.to]
    /\ channel[delivering.to] = Nothing
    /\ state[delivering.to] # "new"
    /\ result[delivering.to] \notin Message

\* A response nobody has taken yet, or ever will.
InChannel ==
  \A k \in Calls : channel[k] # Nothing =>
    /\ channel[k] \in responses \cup Unsolicited
    /\ channel[k].transactionId = transactionId[k]
    /\ state[k] # "new"
    /\ result[k] \notin Message

\* A response that rpcCall has returned.
Returned ==
  \A k \in Calls : result[k] \in Message =>
    /\ result[k] \in responses \cup Unsolicited
    /\ result[k].transactionId = transactionId[k]
    /\ state[k] = "returned"

\* The nodes that are asked answer queries that were written, under their id.
Genuine ==
  /\ \A k \in sent : transactionId[k] \in TransactionIds /\ state[k] # "new"
  /\ \A k \in Calls : state[k] # "new" => transactionId[k] \in TransactionIds
  /\ \A m \in responses : /\ m.of \in Calls
                          /\ m.transactionId = transactionId[m.of]
                          /\ state[m.of] # "new"

\* The inductive invariant.
IInv ==
  /\ TypeOK
  /\ Registered
  /\ InTransit
  /\ InChannel
  /\ Returned
  /\ Genuine

-----------------------------------------------------------------------------
\* Every initial state satisfies it.
LEMMA IInvInit == Init => IInv
<1> SUFFICES ASSUME Init PROVE IInv
  OBVIOUS
<1> USE KrpcAssumption DEF Init
<1>1. TypeOK
  BY DEF TypeOK, States
<1>2. Registered /\ InTransit /\ InChannel /\ Returned /\ Genuine
  BY DEF Registered, InTransit, InChannel, Returned, Genuine
<1> QED
  BY <1>1, <1>2 DEF IInv

-----------------------------------------------------------------------------
\* One lemma per action.

\* enqueuePendingRequest may overwrite a registration; the call is new, so nothing is
\* registered for it, sent to it or returned by it yet.
LEMMA EnqueueKeeps ==
  ASSUME IInv, NEW k \in Calls, NEW id \in TransactionIds, Enqueue(k, id)
  PROVE  IInv'
<1> USE KrpcAssumption DEF IInv, Enqueue
<1>1. TypeOK'
  BY DEF TypeOK, States, Message, Unsolicited, Errors
<1>2. Registered'
  BY DEF Registered, TypeOK, Message, Unsolicited, Errors, InTransit, InChannel, Returned
<1>3. InTransit'
  BY DEF InTransit, TypeOK, Message, Unsolicited, Errors
<1>4. InChannel'
  BY DEF InChannel, TypeOK, Message, Unsolicited, Errors
<1>5. Returned'
  BY DEF Returned, TypeOK, Message, Unsolicited, Errors
<1>6. Genuine'
  BY DEF Genuine, TypeOK, Message, Unsolicited, Errors
<1> QED
  BY <1>1, <1>2, <1>3, <1>4, <1>5, <1>6

\* Writing the query only records that it can be answered now.
LEMMA WriteQueryKeeps ==
  ASSUME IInv, NEW k \in Calls, WriteQuery(k)
  PROVE  IInv'
<1> USE KrpcAssumption DEF IInv, WriteQuery
<1>1. TypeOK'
  BY DEF TypeOK, States, Message, Unsolicited, Errors
<1>2. Registered'
  BY DEF Registered, TypeOK, Message, Unsolicited, Errors
<1>3. InTransit'
  BY DEF InTransit, TypeOK, Message, Unsolicited, Errors
<1>4. InChannel'
  BY DEF InChannel, TypeOK, Message, Unsolicited, Errors
<1>5. Returned'
  BY DEF Returned, TypeOK, Message, Unsolicited, Errors
<1>6. Genuine'
  BY DEF Genuine, TypeOK, Message, Unsolicited, Errors
<1> QED
  BY <1>1, <1>2, <1>3, <1>4, <1>5, <1>6

\* A call that could not write is the one that may return while registered.
LEMMA WriteFailsKeeps ==
  ASSUME IInv, NEW k \in Calls, WriteFails(k)
  PROVE  IInv'
<1> USE KrpcAssumption DEF IInv, WriteFails
<1>1. TypeOK'
  BY DEF TypeOK, States, Message, Unsolicited, Errors
<1>2. Registered'
  BY DEF Registered, TypeOK, Message, Unsolicited, Errors
<1>3. InTransit'
  BY DEF InTransit, TypeOK, Message, Unsolicited, Errors
<1>4. InChannel'
  BY DEF InChannel, TypeOK, Message, Unsolicited, Errors
<1>5. Returned'
  BY DEF Returned, TypeOK, Message, Unsolicited, Errors
<1>6. Genuine'
  BY DEF Genuine, TypeOK, Message, Unsolicited, Errors
<1> QED
  BY <1>1, <1>2, <1>3, <1>4, <1>5, <1>6

\* A call whose channel holds a response is registered no more, and nothing is on its way.
LEMMA TakeResponseKeeps ==
  ASSUME IInv, NEW k \in Calls, TakeResponse(k)
  PROVE  IInv'
<1> USE KrpcAssumption DEF IInv, TakeResponse
<1>1. TypeOK'
  BY DEF TypeOK, States, Message, Unsolicited, Errors
<1>2. Registered'
  BY DEF Registered, TypeOK, Message, Unsolicited, Errors
<1>3. InTransit'
  BY DEF InTransit, TypeOK, Message, Unsolicited, Errors
<1>4. InChannel'
  BY DEF InChannel, TypeOK, Message, Unsolicited, Errors
<1>5. Returned'
  BY DEF Returned, TypeOK, Message, Unsolicited, Errors, InChannel
<1>6. Genuine'
  BY DEF Genuine, TypeOK, Message, Unsolicited, Errors
<1> QED
  BY <1>1, <1>2, <1>3, <1>4, <1>5, <1>6

\* The timer changes only where the call is.
LEMMA TimerFiresKeeps ==
  ASSUME IInv, NEW k \in Calls, TimerFires(k)
  PROVE  IInv'
<1> USE KrpcAssumption DEF IInv, TimerFires
<1>1. TypeOK'
  BY DEF TypeOK, States, Message, Unsolicited, Errors
<1>2. Registered'
  BY DEF Registered, TypeOK, Message, Unsolicited, Errors
<1>3. InTransit'
  BY DEF InTransit, TypeOK, Message, Unsolicited, Errors
<1>4. InChannel'
  BY DEF InChannel, TypeOK, Message, Unsolicited, Errors
<1>5. Returned'
  BY DEF Returned, TypeOK, Message, Unsolicited, Errors
<1>6. Genuine'
  BY DEF Genuine, TypeOK, Message, Unsolicited, Errors
<1> QED
  BY <1>1, <1>2, <1>3, <1>4, <1>5, <1>6

\* A cancelled call is registered under no id afterwards, since it chose only one.
LEMMA CancelKeeps ==
  ASSUME IInv, NEW k \in Calls, Cancel(k)
  PROVE  IInv'
<1> USE KrpcAssumption DEF IInv, Cancel
<1>1. TypeOK'
  BY DEF TypeOK, States, Message, Unsolicited, Errors
<1>2. Registered'
  BY DEF Registered, TypeOK, Message, Unsolicited, Errors
<1>3. InTransit'
  BY DEF InTransit, TypeOK, Message, Unsolicited, Errors
<1>4. InChannel'
  BY DEF InChannel, TypeOK, Message, Unsolicited, Errors
<1>5. Returned'
  BY DEF Returned, TypeOK, Message, Unsolicited, Errors
<1>6. Genuine'
  BY DEF Genuine, TypeOK, Message, Unsolicited, Errors
<1> QED
  BY <1>1, <1>2, <1>3, <1>4, <1>5, <1>6

\* A new response carries the id of the call it answers.
LEMMA AnswerKeeps ==
  ASSUME IInv, NEW k \in Calls, NEW content \in Contents, Answer(k, content)
  PROVE  IInv'
<1> USE KrpcAssumption DEF IInv, Answer
<1>1. TypeOK'
  BY DEF TypeOK, States, Message, Unsolicited, Errors, Genuine
<1>2. Registered'
  BY DEF Registered, TypeOK, Message, Unsolicited, Errors
<1>3. InTransit'
  BY DEF InTransit, TypeOK, Message, Unsolicited, Errors
<1>4. InChannel'
  BY DEF InChannel, TypeOK, Message, Unsolicited, Errors
<1>5. Returned'
  BY DEF Returned, TypeOK, Message, Unsolicited, Errors
<1>6. Genuine'
  BY DEF Genuine, TypeOK, Message, Unsolicited, Errors
<1> QED
  BY <1>1, <1>2, <1>3, <1>4, <1>5, <1>6

\* What is dequeued was registered under the id of the response, and nowhere else.
LEMMA ReceiveKnownKeeps ==
  ASSUME IInv, NEW msg \in responses \cup Unsolicited, ReceiveKnown(msg)
  PROVE  IInv'
<1> USE KrpcAssumption DEF IInv, ReceiveKnown
<1>1. TypeOK'
  BY DEF TypeOK, States, Message, Unsolicited, Errors
<1>2. Registered'
  BY DEF Registered, TypeOK, Message, Unsolicited, Errors
<1>3. InTransit'
  BY DEF InTransit, TypeOK, Message, Unsolicited, Errors, Registered
<1>4. InChannel'
  BY DEF InChannel, TypeOK, Message, Unsolicited, Errors
<1>5. Returned'
  BY DEF Returned, TypeOK, Message, Unsolicited, Errors
<1>6. Genuine'
  BY DEF Genuine, TypeOK, Message, Unsolicited, Errors
<1> QED
  BY <1>1, <1>2, <1>3, <1>4, <1>5, <1>6

\* The channel that gets the response is not registered.
LEMMA DeliverKeeps ==
  ASSUME IInv, Deliver
  PROVE  IInv'
<1> USE KrpcAssumption DEF IInv, Deliver
<1>1. TypeOK'
  BY DEF TypeOK, States, Message, Unsolicited, Errors
<1>2. Registered'
  BY DEF Registered, TypeOK, Message, Unsolicited, Errors
<1>3. InTransit'
  BY DEF InTransit, TypeOK, Message, Unsolicited, Errors
<1>4. InChannel'
  BY DEF InChannel, TypeOK, Message, Unsolicited, Errors, InTransit
<1>5. Returned'
  BY DEF Returned, TypeOK, Message, Unsolicited, Errors
<1>6. Genuine'
  BY DEF Genuine, TypeOK, Message, Unsolicited, Errors
<1> QED
  BY <1>1, <1>2, <1>3, <1>4, <1>5, <1>6

\* A panic leaves everything where it is.
LEMMA ReceivePanicsKeeps ==
  ASSUME IInv, ReceivePanics
  PROVE  IInv'
BY DEF ReceivePanics, IInv, TypeOK, Registered, InTransit, InChannel, Returned, Genuine

-----------------------------------------------------------------------------
\* Every step preserves it.
LEMMA IInvNext == IInv /\ [Next]_vars => IInv'
<1> SUFFICES ASSUME IInv, [Next]_vars PROVE IInv'
  OBVIOUS
<1>1. ASSUME NEW k \in Calls, NEW id \in TransactionIds, Enqueue(k, id)
      PROVE  IInv'
  BY <1>1, EnqueueKeeps
<1>2. ASSUME NEW k \in Calls, rpcCall(k)
      PROVE  IInv'
  BY <1>2, WriteQueryKeeps, WriteFailsKeeps, TakeResponseKeeps, TimerFiresKeeps, CancelKeeps
     DEF rpcCall, Write, Select
<1>3. ASSUME NEW k \in Calls, NEW content \in Contents, Answer(k, content)
      PROVE  IInv'
  BY <1>3, AnswerKeeps
<1>4. CASE UNCHANGED vars
  BY <1>4 DEF vars, IInv, TypeOK, Registered, InTransit, InChannel, Returned, Genuine
<1>5. CASE Receive
  <2>1. PICK msg \in responses \cup Unsolicited : ReceiveKnown(msg) \/ ReceiveUnknown(msg)
    BY <1>5 DEF Receive
  <2> QED
    BY <2>1, <1>4, ReceiveKnownKeeps DEF ReceiveUnknown
<1>6. CASE Deliver
  BY <1>6, DeliverKeeps
<1>7. CASE ReceivePanics
  BY <1>7, ReceivePanicsKeeps
<1> QED
  BY <1>1, <1>2, <1>3, <1>4, <1>5, <1>6, <1>7 DEF Next

\* The strengthening is an invariant of the runtime.
THEOREM InductiveInvariant == Spec => []IInv
<1> QED
  BY IInvInit, IInvNext, PTL DEF Spec

\* Type correctness.
THEOREM TypeCorrect == Spec => []TypeOK
<1>1. IInv => TypeOK
  BY DEF IInv
<1> QED
  BY <1>1, InductiveInvariant, PTL

\* `ch <- msg` (krpc_runtime.go:126) never finds the channel full: no peer and
\* no caller can stop the receiving goroutine.
THEOREM ReceiverIsNeverBlocked == Spec => []ReceiverNeverBlocks
<1>1. IInv => ReceiverNeverBlocks
  BY DEF IInv, InTransit, ReceiverNeverBlocks
<1> QED
  BY <1>1, InductiveInvariant, PTL

\* After a call has returned a response, a duplicate of it goes nowhere.
THEOREM DuplicatesGoNowhere == Spec => []DuplicatesAreDropped
<1>1. IInv => DuplicatesAreDropped
  BY DEF IInv, InTransit, InChannel, DuplicatesAreDropped
<1> QED
  BY <1>1, InductiveInvariant, PTL

\* The map of pending requests grows for good only by queries that could not
\* be written.
THEOREM PendingRequestsAreCleanedUp == Spec => []OnlyFailedWritesLeak
<1>1. IInv => OnlyFailedWritesLeak
  BY DEF IInv, Registered, OnlyFailedWritesLeak
<1> QED
  BY <1>1, InductiveInvariant, PTL

\* rpcCall returns only what carries the id it chose: a response of anyone who
\* finds it, or one to another call that chose the same id.
THEOREM OnlySharedIdsMixUpAnswers == Spec => []ForeignAnswersShareTheId
<1>1. IInv => ForeignAnswersShareTheId
  BY KrpcAssumption
     DEF IInv, Returned, Genuine, Unsolicited, ForeignAnswersShareTheId
<1> QED
  BY <1>1, InductiveInvariant, PTL

=============================================================================
