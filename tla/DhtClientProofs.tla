-------------------------- MODULE DhtClientProofs --------------------------
(***************************************************************************)
(* Safety of the Go node, for every number of pings and of goroutines that *)
(* make them, and whatever queries come in.                                *)
(*                                                                         *)
(* The node conjoins steps of its two components, so that their inductive  *)
(* invariants are conjuncts of this one (TP and RP are the components with *)
(* their theorems); what the node adds relates them: which call a ping     *)
(* waits for, whose entry holds the table's lock, and what became of it.   *)
(***************************************************************************)
EXTENDS DhtClient, TLAPS

TP == INSTANCE GoRoutingTableProofs WITH Offered <- Contacts

RP == INSTANCE KrpcRuntimeProofs WITH Contents <- NodeId \cup {Invalid}

-----------------------------------------------------------------------------
\* The inductive invariant.

ClientTypes ==
  /\ dest \in [Calls -> Addresses \cup {NoAddress}]
  /\ ping \in [Calls -> {"new", "calling", "adding", "returned"}]
  /\ handling \subseteq Queries

\* A ping is as far as its rpcCall is, or further, and knows where it went.
PingFollowsCall ==
  \A k \in Calls :
    /\ (ping[k] = "new") <=> (state[k] = "new")
    /\ ping[k] # "new" => dest[k] \in Addresses
    /\ ping[k] \in {"adding", "returned"} => state[k] = "returned"

\* The entry under way is that of the ping that waits for it.
LockHolder ==
  /\ \A k \in Calls : ping[k] = "adding" =>
       /\ AnsweredBy(k) \in NodeId
       /\ adding = [nodeId |-> AnsweredBy(k), address |-> dest[k]]
  /\ adding # NoEntry => \E k \in Calls : ping[k] = "adding"

\* An answer with an identifier is what the node that was asked says.
AnswersAreGenuine ==
  \A m \in responses : m.content \in NodeId => m.content = NodeAt[dest[m.of]]

\* A ping that returned has settled the identifier it got.
AnswersAreSettled ==
  \A k \in Calls :
    ping[k] = "returned" /\ AnsweredBy(k) \in NodeId => TP!Settled(AnsweredBy(k))

IInv ==
  /\ TP!IInv
  /\ RP!IInv
  /\ ClientTypes
  /\ PingFollowsCall
  /\ LockHolder
  /\ AnswersAreGenuine
  /\ AnswersAreSettled
  /\ OnlyRespondersAreStored

-----------------------------------------------------------------------------
\* The components: what their theorems assume holds here, and the definitions
\* the theorems are about are those the node uses.

LEMMA SameIds == TP!NodeId = NodeId /\ TP!nodeInfo = Contacts
BY DEF TP!NodeId, TP!BitIndex, TP!nodeInfo, Contacts, NodeId, BitIndex

LEMMA SameCalls ==
  /\ RP!Calls = Calls
  /\ RP!Message = Runtime!Message /\ RP!Errors = Runtime!Errors
  /\ RP!Unsolicited = Runtime!Unsolicited
  /\ RP!Message = [transactionId : TransactionIds, of : Calls \cup {NoCall},
                   content : NodeId \cup {Invalid}]
BY DEF RP!Calls, Calls, Runtime!Calls, RP!Message, RP!Errors, Runtime!Message,
       Runtime!Errors, RP!Unsolicited, Runtime!Unsolicited

LEMMA TableAssumed ==
  /\ IdBits \in Nat \ {0}
  /\ bucketSize \in Nat \ {0}
  /\ thisNodeId \in TP!NodeId
  /\ Contacts \subseteq TP!nodeInfo
  /\ NoEntry \notin TP!nodeInfo
BY SameIds, IdBitsAssumption, ComponentsAssumption

LEMMA RuntimeAssumed ==
  /\ MaxCalls \in Nat
  /\ Callers \in Nat
  /\ Strays \subseteq NodeId \cup {Invalid}
  /\ NoCall \notin RP!Calls
  /\ NoId \notin TransactionIds
  /\ Timeout # WriteError
  /\ Nothing \notin RP!Message \cup RP!Errors \cup [to : RP!Calls, msg : RP!Message]
  /\ RP!Errors \cap RP!Message = {}
BY SameCalls, ComponentsAssumption, ClientAssumption

\* Where an identifier is looked for.
LEMMA SameBuckets ==
  ASSUME NEW id
  PROVE  /\ Table!bucketOf(id) = TP!bucketOf(id)
         /\ \A b : Table!containsNodeId(b, id) <=> TP!containsNodeId(b, id)
BY DEF Table!bucketOf, TP!bucketOf, Table!bucketIndex, TP!bucketIndex,
       Table!prefixLength, TP!prefixLength, Table!currentMaxPrefixLength,
       TP!currentMaxPrefixLength, Table!commonPrefixLength, TP!commonPrefixLength,
       Table!containsNodeId, TP!containsNodeId, Table!isEqual, TP!isEqual

LEMMA SameTable ==
  /\ Table!Init <=> TP!Init
  /\ Table!addEntryRec <=> TP!addEntryRec
  /\ Table!Next <=> TP!Next
  /\ Table!vars = TP!vars
  /\ Table!Known = TP!Known
<1>1. Table!addEntryRec <=> TP!addEntryRec
  BY DEF Table!addEntryRec, TP!addEntryRec, Table!StoreEntry, TP!StoreEntry,
         Table!DropEntry, TP!DropEntry, Table!SplitBucket, TP!SplitBucket,
         Table!MustSplit, TP!MustSplit, Table!Refused, TP!Refused,
         Table!addSucceeds, TP!addSucceeds, Table!containsNodeId, TP!containsNodeId,
         Table!isEqual, TP!isEqual, Table!bucketOf, TP!bucketOf,
         Table!bucketIndex, TP!bucketIndex, Table!prefixLength, TP!prefixLength,
         Table!currentMaxPrefixLength, TP!currentMaxPrefixLength,
         Table!commonPrefixLength, TP!commonPrefixLength,
         Table!bucketAddEntry, TP!bucketAddEntry, Table!splitAt, TP!splitAt,
         Table!isBitSet, TP!isBitSet, Table!Subsequence, TP!Subsequence,
         Table!Rank, TP!Rank, Table!Cardinality, TP!Cardinality
<1>2. Table!Next <=> TP!Next
  BY <1>1 DEF Table!Next, TP!Next, Table!addEntry, TP!addEntry
<1>3. /\ Table!Init <=> TP!Init
      /\ Table!vars = TP!vars
      /\ Table!Known = TP!Known
  BY DEF Table!Init, TP!Init, Table!newBucket, TP!newBucket, Table!vars, TP!vars,
         Table!Known, TP!Known
<1> QED
  BY <1>1, <1>2, <1>3

LEMMA SameRuntime ==
  /\ Runtime!Init <=> RP!Init
  /\ Runtime!Next <=> RP!Next
  /\ Runtime!vars = RP!vars
BY DEF Runtime!Init, RP!Init, Runtime!vars, RP!vars, Runtime!Next, RP!Next,
       Runtime!Calls, RP!Calls, Runtime!Enqueue, RP!Enqueue, Runtime!Active, RP!Active,
       Runtime!rpcCall, RP!rpcCall, Runtime!Write, RP!Write, Runtime!WriteQuery,
       RP!WriteQuery, Runtime!WriteFails, RP!WriteFails, Runtime!Select, RP!Select,
       Runtime!TakeResponse, RP!TakeResponse, Runtime!TimerFires, RP!TimerFires,
       Runtime!Cancel, RP!Cancel, Runtime!Answer, RP!Answer, Runtime!Receive,
       RP!Receive, Runtime!ReceiveKnown, RP!ReceiveKnown, Runtime!ReceiveUnknown,
       RP!ReceiveUnknown, Runtime!Deliver, RP!Deliver, Runtime!Cardinality, RP!Cardinality,
       Runtime!Unsolicited, RP!Unsolicited, Runtime!ReceivePanics, RP!ReceivePanics

-----------------------------------------------------------------------------
\* Operators.

\* A node answers a ping with its own identifier.
LEMMA HandleQueryFacts == \A node, k : handleQuery(node, PingQuery(k)) = node
BY DEF handleQuery, handlePing, PingQuery

\* An answer with an identifier is a response, and the call has returned it.
LEMMA AnswerFacts ==
  ASSUME RP!IInv, NEW k \in Calls, AnsweredBy(k) \in NodeId
  PROVE  /\ result[k] \in responses \cup Runtime!Unsolicited
         /\ result[k] \in Runtime!Message
         /\ result[k].content = AnsweredBy(k)
         /\ result[k].transactionId \in TransactionIds
         /\ result[k].transactionId = transactionId[k]
         /\ state[k] = "returned"
<1>1. result[k] \in Runtime!Message /\ result[k].content = AnsweredBy(k)
  BY ClientAssumption DEF AnsweredBy
<1>2. result[k] \in RP!Message /\ k \in RP!Calls
  BY <1>1, SameCalls
<1>3. /\ result[k] \in responses \cup Runtime!Unsolicited
      /\ result[k].transactionId = transactionId[k]
      /\ state[k] = "returned"
  BY <1>2, SameCalls DEF RP!IInv, RP!Returned
<1>4. result[k].transactionId \in TransactionIds
  BY <1>2, SameCalls
<1> QED
  BY <1>1, <1>3, <1>4

-----------------------------------------------------------------------------
\* What a step of the node is to its components, and what it leaves alone.

\* addEntry is called by one ping at a time, with an identifier and the
\* address of a node, and a peer answers what the runtime expects.
LEMMA ComponentSteps ==
  IInv /\ [Next]_vars => [TP!Next]_(TP!vars) /\ [RP!Next]_(RP!vars)
<1> SUFFICES ASSUME IInv, [Next]_vars
             PROVE  [Table!Next]_(Table!vars) /\ [Runtime!Next]_(Runtime!vars)
  BY SameTable, SameRuntime DEF Table!vars, TP!vars, Runtime!vars, RP!vars
<1> USE DEF Table!vars, Runtime!vars, tableVars, runtimeVars
<1>1. ASSUME NEW k \in Calls, NEW address \in Addresses, NEW id \in TransactionIds,
             Ping(k, address, id)
      PROVE  UNCHANGED Table!vars /\ Runtime!Next
  BY <1>1 DEF Ping, Runtime!Next, Calls
<1>2. ASSUME NEW k \in Calls, Call(k)
      PROVE  UNCHANGED Table!vars /\ Runtime!Next
  BY <1>2 DEF Call, Runtime!Next, Calls
<1>3. ASSUME NEW k \in Calls, Learn(k)
      PROVE  Table!Next /\ UNCHANGED Runtime!vars
  <2>1. dest[k] \in Addresses
    BY <1>3 DEF Learn, RpcCallReturned, IInv, PingFollowsCall
  <2>2. [nodeId |-> AnsweredBy(k), address |-> dest[k]] \in Contacts
    BY <1>3, <2>1 DEF Learn, Contacts
  <2> QED
    BY <1>3, <2>2 DEF Learn, Table!Next
<1>4. ASSUME NEW k \in Calls, GiveUp(k)
      PROVE  UNCHANGED Table!vars /\ UNCHANGED Runtime!vars
  BY <1>4 DEF GiveUp
<1>5. ASSUME NEW k \in Calls, PeerAnswers(k)
      PROVE  UNCHANGED Table!vars /\ Runtime!Next
  <2>1. NodeAt[dest[k]] \in NodeId
    BY <1>5, ClientAssumption DEF PeerAnswers
  <2>2. Runtime!Answer(k, NodeAt[dest[k]])
    BY <1>5, HandleQueryFacts DEF PeerAnswers
  <2> QED
    BY <1>5, <2>1, <2>2 DEF PeerAnswers, Runtime!Next, Calls
<1>6. CASE AddEntryRec
  BY <1>6 DEF AddEntryRec, Table!Next
<1>7. CASE ReceiveResponse
  BY <1>7 DEF ReceiveResponse, Runtime!Next
<1>8. ASSUME NEW query \in Queries, ReceiveQuery(query) \/ HandleQuery(query)
      PROVE  UNCHANGED Table!vars /\ UNCHANGED Runtime!vars
  BY <1>8 DEF ReceiveQuery, HandleQuery
<1>9. CASE UNCHANGED vars
  BY <1>9 DEF vars
<1> QED
  BY <1>1, <1>2, <1>3, <1>4, <1>5, <1>6, <1>7, <1>8, <1>9 DEF Next

\* The invariants of the components are preserved.
LEMMA ComponentsKeep == IInv /\ [Next]_vars => TP!IInv' /\ RP!IInv'
<1> SUFFICES ASSUME IInv, [Next]_vars
             PROVE  TP!IInv' /\ RP!IInv'
  OBVIOUS
<1>1. TP!IInv /\ [TP!Next]_(TP!vars) => TP!IInv'
  BY TableAssumed, TP!IInvNext
<1>2. RP!IInv /\ [RP!Next]_(RP!vars) => RP!IInv'
  BY RuntimeAssumed, RP!IInvNext
<1> QED
  BY <1>1, <1>2, ComponentSteps DEF IInv

\* A call that returned keeps its result, and no call becomes new again.
LEMMA CallsStay ==
  ASSUME IInv, [Next]_vars, NEW k \in Calls
  PROVE  /\ state[k] # "new" => state'[k] # "new"
         /\ state[k] = "returned" => state'[k] = "returned" /\ result'[k] = result[k]
         /\ AnsweredBy(k) \in NodeId => AnsweredBy(k)' = AnsweredBy(k)
<1>1. RP!Next \/ UNCHANGED RP!vars
  BY ComponentSteps
<1>2. RP!TypeOK /\ k \in RP!Calls
  BY SameCalls DEF IInv, RP!IInv
<1>3. /\ state[k] # "new" => state'[k] # "new"
      /\ state[k] = "returned" => state'[k] = "returned" /\ result'[k] = result[k]
  BY <1>1, <1>2
     DEF RP!Next, RP!vars, RP!TypeOK, RP!Enqueue, RP!rpcCall, RP!Write, RP!WriteQuery,
         RP!WriteFails, RP!Select, RP!TakeResponse, RP!TimerFires, RP!Cancel, RP!Answer,
         RP!Receive, RP!ReceiveKnown, RP!ReceiveUnknown, RP!Deliver, RP!ReceivePanics
<1>4. AnsweredBy(k) \in NodeId => state[k] = "returned"
  BY AnswerFacts DEF IInv
<1> QED
  BY <1>3, <1>4 DEF AnsweredBy, Runtime!Message, Runtime!Calls

\* A ping that was called keeps its destination, and returns once.
LEMMA PingsStay ==
  ASSUME IInv, [Next]_vars, NEW k \in Calls
  PROVE  /\ ping[k] # "new" => ping'[k] # "new" /\ dest'[k] = dest[k]
         /\ ping[k] = "returned" => ping'[k] = "returned"
<1> USE DEF IInv, ClientTypes, clientVars
<1>1. ASSUME NEW j \in Calls, NEW address \in Addresses, NEW id \in TransactionIds,
             Ping(j, address, id)
      PROVE  /\ ping[k] # "new" => ping'[k] # "new" /\ dest'[k] = dest[k]
             /\ ping[k] = "returned" => ping'[k] = "returned"
  <2>1. ping[j] = "new"
    BY <1>1 DEF Ping, Runtime!Enqueue, PingFollowsCall
  <2> QED
    BY <1>1, <2>1 DEF Ping
<1>2. ASSUME NEW j \in Calls, Call(j) \/ Learn(j) \/ GiveUp(j) \/ PeerAnswers(j)
      PROVE  /\ ping[k] # "new" => ping'[k] # "new" /\ dest'[k] = dest[k]
             /\ ping[k] = "returned" => ping'[k] = "returned"
  BY <1>2 DEF Call, Learn, GiveUp, PeerAnswers, RpcCallReturned
<1>3. CASE AddEntryRec
  BY <1>3 DEF AddEntryRec
<1>4. CASE \/ ReceiveResponse
           \/ \E query \in Queries : ReceiveQuery(query) \/ HandleQuery(query)
           \/ UNCHANGED vars
  BY <1>4 DEF ReceiveResponse, ReceiveQuery, HandleQuery, vars
<1> QED
  BY <1>1, <1>2, <1>3, <1>4 DEF Next

-----------------------------------------------------------------------------
\* The inductive invariant, one lemma for each part that the node adds.

LEMMA IInvInit == Init => IInv
<1> SUFFICES ASSUME Init PROVE IInv
  OBVIOUS
<1>1. TP!IInv
  BY TableAssumed, SameTable, TP!IInvInit DEF Init
<1>2. RP!IInv
  BY RuntimeAssumed, SameRuntime, RP!IInvInit DEF Init
<1>3. ClientTypes /\ PingFollowsCall /\ AnswersAreGenuine /\ LockHolder
  BY DEF Init, Runtime!Init, Table!Init, Calls, ClientTypes, PingFollowsCall,
         AnswersAreGenuine, LockHolder
<1>4. AnswersAreSettled
  BY DEF Init, AnswersAreSettled
<1>5. OnlyRespondersAreStored
  <2>1. table = << <<>> >>
    BY DEF Init, Table!Init, Table!newBucket
  <2>2. DOMAIN table = {1} /\ DOMAIN table[1] = {}
    BY <2>1
  <2>3. Table!Known = {}
    BY <2>2 DEF Table!Known
  <2> QED
    BY <2>3 DEF OnlyRespondersAreStored
<1> QED
  BY <1>1, <1>2, <1>3, <1>4, <1>5 DEF IInv

LEMMA TypesKeep == IInv /\ [Next]_vars => ClientTypes'
<1> SUFFICES ASSUME IInv, [Next]_vars
             PROVE  ClientTypes'
  OBVIOUS
<1> USE DEF IInv, ClientTypes, clientVars, queryVars
<1>1. ASSUME NEW k \in Calls, NEW address \in Addresses, NEW id \in TransactionIds,
             Ping(k, address, id)
      PROVE  ClientTypes'
  BY <1>1 DEF Ping
<1>2. ASSUME NEW k \in Calls, Call(k) \/ Learn(k) \/ GiveUp(k) \/ PeerAnswers(k)
      PROVE  ClientTypes'
  BY <1>2 DEF Call, Learn, GiveUp, PeerAnswers
<1>3. CASE AddEntryRec
  BY <1>3 DEF AddEntryRec
<1>4. ASSUME NEW query \in Queries, ReceiveQuery(query) \/ HandleQuery(query)
      PROVE  ClientTypes'
  BY <1>4 DEF ReceiveQuery, HandleQuery
<1>5. CASE ReceiveResponse \/ UNCHANGED vars
  BY <1>5 DEF ReceiveResponse, vars
<1> QED
  BY <1>1, <1>2, <1>3, <1>4, <1>5 DEF Next

\* Ping registers the call as it leaves "new"; nothing else of a ping comes
\* before its call has returned.
LEMMA PingFollowsCallKeep == IInv /\ [Next]_vars => PingFollowsCall'
<1> SUFFICES ASSUME IInv, [Next]_vars
             PROVE  PingFollowsCall'
  OBVIOUS
<1> USE DEF IInv, ClientTypes, PingFollowsCall, clientVars, runtimeVars
<1>1. state \in [Calls -> RP!States] /\ RP!Calls = Calls
  BY SameCalls DEF RP!IInv, RP!TypeOK
<1>2. ASSUME NEW k \in Calls, NEW address \in Addresses, NEW id \in TransactionIds,
             Ping(k, address, id)
      PROVE  PingFollowsCall'
  BY <1>1, <1>2 DEF Ping, Runtime!Enqueue
<1>3. ASSUME NEW k \in Calls, Call(k)
      PROVE  PingFollowsCall'
  <2>1. /\ \A j \in Calls : (state'[j] = "new") <=> (state[j] = "new")
        /\ \A j \in Calls : state[j] = "returned" => state'[j] = "returned"
    BY <1>1, <1>3
       DEF Call, Runtime!rpcCall, Runtime!Write, Runtime!WriteQuery, Runtime!WriteFails,
           Runtime!Select, Runtime!TakeResponse, Runtime!TimerFires, Runtime!Cancel
  <2> QED
    BY <1>3, <2>1 DEF Call
<1>4. ASSUME NEW k \in Calls, Learn(k) \/ GiveUp(k)
      PROVE  PingFollowsCall'
  BY <1>4 DEF Learn, GiveUp, RpcCallReturned
<1>5. ASSUME NEW k \in Calls, PeerAnswers(k)
      PROVE  PingFollowsCall'
  BY <1>5 DEF PeerAnswers, Runtime!Answer
<1>6. CASE AddEntryRec
  BY <1>6 DEF AddEntryRec
<1>7. CASE ReceiveResponse
  BY <1>7 DEF ReceiveResponse, Runtime!Receive, Runtime!ReceiveKnown,
              Runtime!ReceiveUnknown, Runtime!vars, Runtime!Deliver, Runtime!ReceivePanics
<1>8. CASE UNCHANGED vars \/ \E query \in Queries : ReceiveQuery(query) \/ HandleQuery(query)
  BY <1>8 DEF ReceiveQuery, HandleQuery, vars
<1> QED
  BY <1>2, <1>3, <1>4, <1>5, <1>6, <1>7, <1>8 DEF Next

\* A ping takes the table's lock when nobody has it, and gives it back when its
\* entry is stored or dropped: while it holds it, its call has returned, so that the
\* entry is still that of its answer.
LEMMA LockHolderKeep == IInv /\ [Next]_vars => LockHolder'
<1> SUFFICES ASSUME IInv, [Next]_vars
             PROVE  LockHolder'
  OBVIOUS
<1> USE DEF tableVars, clientVars, runtimeVars
<1>1. ASSUME NEW k \in Calls, ping[k] = "adding"
      PROVE  /\ AnsweredBy(k)' = AnsweredBy(k) /\ AnsweredBy(k) \in NodeId
             /\ dest'[k] = dest[k]
             /\ adding = [nodeId |-> AnsweredBy(k), address |-> dest[k]]
             /\ adding # NoEntry
  <2>1. /\ AnsweredBy(k) \in NodeId
        /\ adding = [nodeId |-> AnsweredBy(k), address |-> dest[k]]
        /\ dest[k] \in Addresses
    BY <1>1 DEF IInv, LockHolder, PingFollowsCall
  <2>2. adding \in Contacts
    BY <2>1 DEF Contacts
  <2> QED
    BY <1>1, <2>1, <2>2, CallsStay, PingsStay, ComponentsAssumption
<1>2. ASSUME UNCHANGED adding,
             \A k \in Calls : (ping'[k] = "adding") <=> (ping[k] = "adding")
      PROVE  LockHolder'
  BY <1>1, <1>2 DEF IInv, LockHolder
<1>3. ASSUME NEW k \in Calls, NEW address \in Addresses, NEW id \in TransactionIds,
             Ping(k, address, id)
      PROVE  LockHolder'
  <2>1. ping[k] = "new"
    BY <1>3 DEF Ping, Runtime!Enqueue, IInv, PingFollowsCall
  <2>2. \A j \in Calls : (ping'[j] = "adding") <=> (ping[j] = "adding")
    BY <1>3, <2>1 DEF Ping, IInv, ClientTypes
  <2> QED
    BY <1>2, <1>3, <2>2 DEF Ping
<1>4. ASSUME NEW k \in Calls, Learn(k)
      PROVE  LockHolder'
  <2>1. /\ adding = NoEntry
        /\ adding' = [nodeId |-> AnsweredBy(k), address |-> dest[k]]
        /\ ping' = [ping EXCEPT ![k] = "adding"]
        /\ dest' = dest /\ AnsweredBy(k) \in NodeId
    BY <1>4 DEF Learn, Table!addEntry
  <2>2. AnsweredBy(k)' = AnsweredBy(k)
    BY <1>4 DEF Learn, AnsweredBy, Runtime!Message, Runtime!Calls
  <2>3. \A j \in Calls : ping[j] # "adding"
    BY <1>1, <2>1
  <2>4. \A j \in Calls : (ping'[j] = "adding") <=> (j = k)
    BY <2>1, <2>3 DEF IInv, ClientTypes
  <2> QED
    BY <2>1, <2>2, <2>4 DEF LockHolder
<1>5. ASSUME NEW k \in Calls, GiveUp(k)
      PROVE  LockHolder'
  <2>1. \A j \in Calls : (ping'[j] = "adding") <=> (ping[j] = "adding")
    BY <1>5 DEF GiveUp, RpcCallReturned, IInv, ClientTypes
  <2> QED
    BY <1>2, <1>5, <2>1 DEF GiveUp
<1>6. CASE AddEntryRec
  <2>1. adding' = adding \/ adding' = NoEntry
    BY <1>6 DEF AddEntryRec, Table!addEntryRec, Table!StoreEntry, Table!DropEntry,
                Table!SplitBucket
  <2>2. ping' = [k \in Calls |->
                   IF ping[k] = "adding" /\ adding' = NoEntry THEN "returned" ELSE ping[k]]
    BY <1>6 DEF AddEntryRec
  <2>3. CASE adding' = NoEntry
    BY <2>2, <2>3 DEF LockHolder
  <2>4. CASE adding' # NoEntry
    BY <1>2, <2>1, <2>2, <2>4
  <2> QED
    BY <2>3, <2>4
<1>7. CASE \/ \E k \in Calls : Call(k) \/ PeerAnswers(k)
           \/ ReceiveResponse
           \/ \E query \in Queries : ReceiveQuery(query) \/ HandleQuery(query)
           \/ UNCHANGED vars
  BY <1>2, <1>7 DEF Call, PeerAnswers, ReceiveResponse, ReceiveQuery, HandleQuery, vars
<1> QED
  BY <1>3, <1>4, <1>5, <1>6, <1>7 DEF Next

\* Only calls that were made are answered, and their destination stays.
LEMMA GenuineKeep == IInv /\ [Next]_vars => AnswersAreGenuine'
<1> SUFFICES ASSUME IInv, [Next]_vars, NEW m \in responses', m.content \in NodeId
             PROVE  m.content = NodeAt[dest'[m.of]]
  BY DEF AnswersAreGenuine
<1>1. CASE m \in responses
  <2>1. m.of \in Calls
    BY <1>1, SameCalls DEF IInv, RP!IInv, RP!Genuine
  <2>2. state[m.of] # "new"
    BY <1>1 DEF IInv, RP!IInv, RP!Genuine
  <2>3. dest'[m.of] = dest[m.of]
    BY <2>1, <2>2, PingsStay DEF IInv, PingFollowsCall
  <2> QED
    BY <1>1, <2>3 DEF IInv, AnswersAreGenuine
<1>2. ASSUME NEW k \in Calls, PeerAnswers(k)
      PROVE  m.content = NodeAt[dest'[m.of]]
  <2>1. \/ m \in responses
        \/ m = [transactionId |-> transactionId[k], of |-> k, content |-> NodeAt[dest[k]]]
    BY <1>2, HandleQueryFacts DEF PeerAnswers, Runtime!Answer
  <2>2. dest' = dest
    BY <1>2 DEF PeerAnswers, clientVars
  <2> QED
    BY <1>1, <2>1, <2>2
<1>3. CASE ~ (\E k \in Calls : PeerAnswers(k))
  <2>1. responses' = responses
    BY <1>3
       DEF Next, Ping, Runtime!Enqueue, Call, Runtime!rpcCall, Runtime!Write,
           Runtime!WriteQuery, Runtime!WriteFails, Runtime!Select, Runtime!TakeResponse,
           Runtime!TimerFires, Runtime!Cancel, Learn, GiveUp, AddEntryRec,
           ReceiveResponse, Runtime!Receive, Runtime!ReceiveKnown,
           Runtime!ReceiveUnknown, Runtime!vars, Runtime!Deliver,
           Runtime!ReceivePanics, ReceiveQuery, HandleQuery, runtimeVars, vars
  <2> QED
    BY <1>1, <2>1
<1> QED
  BY <1>2, <1>3

\* The ping whose addEntry returns has settled its identifier, and neither the
\* table nor the result of a call forgets.
LEMMA SettledKeep == IInv /\ [Next]_vars => AnswersAreSettled'
<1> SUFFICES ASSUME IInv, [Next]_vars, NEW k \in Calls, ping'[k] = "returned",
                    NEW id \in NodeId, AnsweredBy(k)' = id
             PROVE  TP!Settled(id)'
  BY DEF AnswersAreSettled
<1> USE DEF runtimeVars, clientVars
<1>1. CASE ping[k] = "returned"
  <2>1. state[k] = "returned"
    BY <1>1 DEF IInv, PingFollowsCall
  <2>2. AnsweredBy(k) = id
    BY <2>1, CallsStay DEF AnsweredBy, Runtime!Message, Runtime!Calls
  <2>3. TP!Settled(id)
    BY <1>1, <2>2 DEF IInv, AnswersAreSettled
  <2>4. TP!IInv /\ [TP!Next]_(TP!vars) /\ id \in TP!NodeId
    BY ComponentSteps, SameIds DEF IInv
  <2> QED
    BY <2>3, <2>4, TableAssumed, TP!SettledStays
<1>2. CASE ping[k] # "returned"
  <2>1. CASE AddEntryRec
    <3>1. ping[k] = "adding" /\ adding' = NoEntry
      BY <1>2, <2>1 DEF AddEntryRec
    <3>2. /\ adding = [nodeId |-> AnsweredBy(k), address |-> dest[k]]
          /\ AnsweredBy(k) \in NodeId
      BY <3>1 DEF IInv, LockHolder
    <3>3. adding.nodeId = id
      BY <3>2, CallsStay
    <3>4. TP!addEntryRec /\ TP!IInv
      BY <2>1, SameTable DEF AddEntryRec, IInv
    <3> QED
      BY <3>1, <3>3, <3>4, TableAssumed, TP!AddEntrySettles
  <2>2. ASSUME NEW j \in Calls, GiveUp(j)
        PROVE  FALSE
    <3>1. j = k
      BY <1>2, <2>2 DEF GiveUp, IInv, ClientTypes
    <3>2. AnsweredBy(k)' = AnsweredBy(k)
      BY <2>2 DEF GiveUp, AnsweredBy, Runtime!Message, Runtime!Calls
    <3> QED
      BY <2>2, <3>1, <3>2 DEF GiveUp
  <2>3. ASSUME NEW j \in Calls, NEW address \in Addresses, NEW t \in TransactionIds,
               Ping(j, address, t)
        PROVE  FALSE
    BY <1>2, <2>3 DEF Ping, IInv, ClientTypes
  <2>4. ASSUME NEW j \in Calls, Call(j) \/ Learn(j) \/ PeerAnswers(j)
        PROVE  FALSE
    BY <1>2, <2>4 DEF Call, Learn, PeerAnswers, IInv, ClientTypes
  <2>5. ~ \/ ReceiveResponse
          \/ \E query \in Queries : ReceiveQuery(query) \/ HandleQuery(query)
          \/ UNCHANGED vars
    BY <1>2 DEF ReceiveResponse, ReceiveQuery, HandleQuery, vars
  <2> QED
    BY <2>1, <2>2, <2>3, <2>4, <2>5 DEF Next
<1> QED
  BY <1>1, <1>2

\* The table learns the entry of the ping that holds its lock, and a ping never
\* changes its destination or its answer.
LEMMA RespondersKeep == IInv /\ [Next]_vars => OnlyRespondersAreStored'
<1>1. (Table!Known = TP!Known)'
  BY SameTable, PTL
<1> SUFFICES ASSUME IInv, [Next]_vars, NEW entry \in TP!Known'
             PROVE  \E k \in Calls : dest'[k] = entry.address /\ AnsweredBy(k)' = entry.nodeId
  BY <1>1 DEF OnlyRespondersAreStored
<1>2. TP!IInv /\ [TP!Next]_(TP!vars)
  BY ComponentSteps DEF IInv
<1>3. entry \in TP!Known \/ (adding # NoEntry /\ entry = adding)
  BY <1>2, TableAssumed, TP!OnlyAddedIsLearned
<1>4. SUFFICES \E k \in Calls : /\ dest[k] = entry.address /\ AnsweredBy(k) = entry.nodeId
                                /\ AnsweredBy(k) \in NodeId
  <2>1. ASSUME NEW k \in Calls, AnsweredBy(k) \in NodeId
        PROVE  dest'[k] = dest[k] /\ AnsweredBy(k)' = AnsweredBy(k)
    <3>1. ping[k] # "new"
      BY <2>1, AnswerFacts DEF IInv, PingFollowsCall
    <3> QED
      BY <2>1, <3>1, CallsStay, PingsStay
  <2> QED
    BY <1>4, <2>1
<1>5. CASE entry \in TP!Known
  <2>1. entry \in TP!nodeInfo
    BY <1>2, <1>5, TableAssumed, TP!KnownAreContacts
  <2>2. entry.nodeId \in NodeId
    BY <2>1, SameIds DEF Contacts
  <2> QED
    BY <1>5, <2>2, SameTable DEF IInv, OnlyRespondersAreStored
<1>6. CASE adding # NoEntry /\ entry = adding
  BY <1>6 DEF IInv, LockHolder
<1> QED
  BY <1>3, <1>5, <1>6

\* The invariant is preserved by every step of the node.
LEMMA IInvNext == IInv /\ [Next]_vars => IInv'
BY ComponentsKeep, TypesKeep, PingFollowsCallKeep, LockHolderKeep, GenuineKeep,
   SettledKeep, RespondersKeep
   DEF IInv

-----------------------------------------------------------------------------
\* Theorems.

\* The inductive invariant holds in every state of the node.
THEOREM InductiveInvariant == Spec => []IInv
<1> QED
  BY IInvInit, IInvNext, PTL DEF Spec

\* What the routing table and the runtime do in the node are behaviours of their
\* modules (their safety part), so that every invariant proved of them holds here.
THEOREM ComponentsBehaveAsSpecified == Spec => ComponentsAreUsedAsSpecified
<1>1. Init => Table!Init /\ Runtime!Init
  BY DEF Init
<1>2. IInv /\ [Next]_vars => [Table!Next]_(Table!vars) /\ [Runtime!Next]_(Runtime!vars)
  BY ComponentSteps, SameTable, SameRuntime
     DEF Table!vars, TP!vars, Runtime!vars, RP!vars
<1> QED
  BY <1>1, <1>2, InductiveInvariant, PTL DEF Spec, ComponentsAreUsedAsSpecified

\* The table holds only nodes that answered a ping, as they answered it and
\* where they were asked: no query and no error response gets an entry in.
THEOREM OnlyRespondersGetIn == Spec => []OnlyRespondersAreStored
<1>1. IInv => OnlyRespondersAreStored
  BY DEF IInv
<1> QED
  BY <1>1, InductiveInvariant, PTL

\* A node is stored under another node's address only after a ping of that
\* address was given a response that is not its answer: no loss, delay or
\* duplication of answers does it.
THEOREM OnlyForeignResponsesMislead == Spec => []WrongAddressNeedsAForeignResponse
<1>1. ASSUME IInv, NEW entry \in Table!Known, NodeAt[entry.address] # entry.nodeId
      PROVE  \E k \in Calls : /\ dest[k] = entry.address /\ AnsweredBy(k) = entry.nodeId
                               /\ IsForeign(result[k], k)
  <2>1. PICK k \in Calls : dest[k] = entry.address /\ AnsweredBy(k) = entry.nodeId
    BY <1>1 DEF IInv, OnlyRespondersAreStored
  <2>2. entry \in TP!nodeInfo
    BY <1>1, SameTable, TableAssumed, TP!KnownAreContacts DEF IInv
  <2>3. AnsweredBy(k) \in NodeId
    BY <2>1, <2>2, SameIds DEF Contacts
  <2> DEFINE m == result[k]
  <2>4. /\ m \in responses \cup Runtime!Unsolicited /\ m.content = AnsweredBy(k)
        /\ m.transactionId = transactionId[k]
    BY <1>1, <2>3, AnswerFacts DEF IInv
  <2>5. CASE m \in Runtime!Unsolicited
    BY <2>1, <2>4, <2>5 DEF IsForeign
  <2>6. CASE m \in responses
    <3>1. m.of \in Calls /\ m.transactionId = transactionId[m.of]
      BY <1>1, <2>6, SameCalls DEF IInv, RP!IInv, RP!Genuine
    <3>2. m.content = NodeAt[dest[m.of]]
      BY <1>1, <2>3, <2>4, <2>6 DEF IInv, AnswersAreGenuine
    <3>3. m.of # k
      BY <1>1, <2>1, <2>4, <3>2
    <3> QED
      BY <2>1, <2>4, <3>1, <3>3 DEF IsForeign
  <2> QED
    BY <2>4, <2>5, <2>6
<1>2. IInv => WrongAddressNeedsAForeignResponse
  BY <1>1 DEF WrongAddressNeedsAForeignResponse
<1> QED
  BY <1>2, InductiveInvariant, PTL

\* A ping that got a usable answer did not waste it: its node is in the table, or its
\* bucket is full of others and is never split again.
THEOREM AnswersAreNotWasted == Spec => []AnsweredIsKnownOrCrowdedOut
<1>1. ASSUME IInv, NEW k \in Calls, ping[k] = "returned", AnsweredBy(k) \in NodeId
      PROVE  LET bucket == Table!bucketOf(AnsweredBy(k))
             IN  Table!containsNodeId(bucket, AnsweredBy(k)) \/ Len(bucket) = bucketSize
  BY <1>1, SameBuckets DEF IInv, AnswersAreSettled, TP!Settled
<1>2. IInv => AnsweredIsKnownOrCrowdedOut
  BY <1>1 DEF AnsweredIsKnownOrCrowdedOut
<1> QED
  BY <1>2, InductiveInvariant, PTL

=============================================================================
