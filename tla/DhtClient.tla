----------------------------- MODULE DhtClient -----------------------------
(***************************************************************************)
(* The Go node (go/dht_client.go): ping makes an rpcCall of the runtime    *)
(* and offers the node that answers to the routing table, each query       *)
(* received is answered by a goroutine of its own.                         *)
(*                                                                         *)
(* The module composes KrpcRuntime and GoRoutingTable, whose actions it    *)
(* conjoins with what the client itself does.  A ping is named by the      *)
(* rpcCall it makes.                                                       *)
(***************************************************************************)
EXTENDS NodeIds, FiniteSets, Sequences

CONSTANTS
  bucketSize, thisNodeId, Addresses, NoEntry,          \* of the routing table
  MaxCalls, Callers, TransactionIds,                   \* of the runtime
  NoCall, NoId, Nothing, Timeout, WriteError,
  Strays,               \* what responses of nodes that were not asked say
  NodeAt,               \* the identifier of the node at each address
  NoAddress,            \* the ping has not been called yet
  KrpcErrorProtocol, KrpcErrorUnknownMethod,
  Invalid,              \* an error response, one with no or a malformed id
  Queries,              \* the queries that other nodes send
  MaxReplies            \* bound: how many replies are written or under way

VARIABLES
  table, adding,                                       \* of the routing table
  pendingRequests, channel, transactionId, state,      \* of the runtime
  result, sent, responses, delivering, ended,
  dest,                 \* the argument of each ping
  ping,                 \* where each call of ping is
  handling,             \* the queries that a goroutine handles
  replies               \* the replies sent to them

tableVars == <<table, adding>>
runtimeVars == <<pendingRequests, channel, transactionId, state, result, sent,
                 responses, delivering, ended>>
clientVars == <<dest, ping>>
queryVars == <<handling, replies>>
vars == <<tableVars, runtimeVars, clientVars, queryVars>>

Contacts == [nodeId : NodeId, address : Addresses]

Table == INSTANCE GoRoutingTable WITH Offered <- Contacts

Runtime == INSTANCE KrpcRuntime WITH Contents <- NodeId \cup {Invalid}

Calls == Runtime!Calls

\* A query, what of it handleQuery looks at: idArgument says whether its "id"
\* is a string of 20 bytes.
Query == [from : Addresses, transactionId : TransactionIds,
          methodName : {"ping", "find_node"}, idArgument : BOOLEAN]

ASSUME ClientAssumption ==
  /\ NodeAt \in [Addresses -> NodeId]
  /\ Queries \subseteq Query
  /\ Strays \subseteq NodeId \cup {Invalid}
  /\ NodeId \cap {Invalid, KrpcErrorProtocol, KrpcErrorUnknownMethod} = {}
  /\ NoAddress \notin Addresses

\* What the table and the runtime assume of their constants.
ASSUME ComponentsAssumption ==
  /\ bucketSize \in Nat \ {0}
  /\ thisNodeId \in NodeId
  /\ NoEntry \notin Contacts
  /\ MaxCalls \in Nat
  /\ Callers \in Nat
  /\ NoCall \notin Calls
  /\ NoId \notin TransactionIds
  /\ Timeout # WriteError
  /\ Nothing \notin Runtime!Message \cup Runtime!Errors
                      \cup [to : Calls, msg : Runtime!Message]
  /\ Runtime!Errors \cap Runtime!Message = {}

Init ==
  /\ Table!Init
  /\ Runtime!Init
  /\ dest = [k \in Calls |-> NoAddress]
  /\ ping = [k \in Calls |-> "new"]
  /\ handling = {}
  /\ replies = {}

-----------------------------------------------------------------------------
\* ping.

\* The pings under way.
Pinging == {k \in Calls : ping[k] \notin {"new", "returned"}}

\* ping is called; its rpcCall registers the request.
Ping(k, address, id) ==
  /\ Cardinality(Pinging) < Callers
  /\ Runtime!Enqueue(k, id)
  /\ dest' = [dest EXCEPT ![k] = address]
  /\ ping' = [ping EXCEPT ![k] = "calling"]
  /\ UNCHANGED <<tableVars, queryVars>>

Call(k) == Runtime!rpcCall(k) /\ UNCHANGED <<tableVars, clientVars, queryVars>>

\* rpcCall has returned, with a response that has an id of 20 bytes.
AnsweredBy(k) == IF result[k] \in Runtime!Message THEN result[k].content ELSE Invalid

RpcCallReturned(k) == ~ended /\ ping[k] = "calling" /\ state[k] = "returned"

\* Mutant: the entry is added without the lock.
LearnUnlocked(k) ==
  /\ RpcCallReturned(k)
  /\ AnsweredBy(k) \in NodeId
  /\ adding' = [nodeId |-> AnsweredBy(k), address |-> dest[k]]
  /\ ping' = [ping EXCEPT ![k] = "adding"]
  /\ UNCHANGED <<table, dest, runtimeVars, queryVars>>

\* ping calls addEntry, with the id of the response and the address that was
\* pinged.
Learn(k) ==
  /\ RpcCallReturned(k)
  /\ AnsweredBy(k) \in NodeId
  /\ Table!addEntry([nodeId |-> AnsweredBy(k), address |-> dest[k]])
  /\ ping' = [ping EXCEPT ![k] = "adding"]
  /\ UNCHANGED <<dest, runtimeVars, queryVars>>

\* Mutant: an answer is dropped while another ping holds the table's lock.
GiveUpWhenLocked(k) ==
  /\ RpcCallReturned(k)
  /\ AnsweredBy(k) \notin NodeId \/ adding # NoEntry
  /\ ping' = [ping EXCEPT ![k] = "returned"]
  /\ UNCHANGED <<dest, tableVars, runtimeVars, queryVars>>

\* An error, an error response, or a response without a usable id.
GiveUp(k) ==
  /\ RpcCallReturned(k)
  /\ AnsweredBy(k) \notin NodeId
  /\ ping' = [ping EXCEPT ![k] = "returned"]
  /\ UNCHANGED <<dest, tableVars, runtimeVars, queryVars>>

\* The ping that holds the table's lock returns when addEntry does.
AddEntryRec ==
  /\ ~ended
  /\ Table!addEntryRec
  /\ ping' = [k \in Calls |->
                IF ping[k] = "adding" /\ adding' = NoEntry THEN "returned"
                ELSE ping[k]]
  /\ UNCHANGED <<dest, runtimeVars, queryVars>>

-----------------------------------------------------------------------------
\* Queries, and the network.

\* receiveMessages starts a goroutine for a query.
ReceiveQuery(query) ==
  /\ ~ended
  /\ delivering = Nothing
  /\ query \notin handling
  /\ Cardinality(handling) + Cardinality(replies) < MaxReplies
  /\ handling' = handling \cup {query}
  /\ UNCHANGED <<replies, tableVars, runtimeVars, clientVars>>

\* handlePing of a given node.
handlePing(node, query) == IF query.idArgument THEN node ELSE KrpcErrorProtocol

\* handleQuery of a given node.
handleQuery(node, query) ==
  IF query.methodName = "ping" THEN handlePing(node, query)
  ELSE KrpcErrorUnknownMethod

ReplyTo(query) == [to |-> query.from, transactionId |-> query.transactionId,
                   content |-> handleQuery(thisNodeId, query)]

\* Mutant: the node that asks is added to the table, under whatever id.
HandleQueryAndLearn(query) ==
  /\ ~ended
  /\ query \in handling
  /\ handling' = handling \ {query}
  /\ replies' = replies \cup {ReplyTo(query)}
  /\ \E id \in NodeId : Table!addEntry([nodeId |-> id, address |-> query.from])
  /\ UNCHANGED <<runtimeVars, clientVars>>

\* The goroutine: handle the query, write the reply.  A failure of the write
\* is logged only.
HandleQuery(query) ==
  /\ ~ended
  /\ query \in handling
  /\ handling' = handling \ {query}
  /\ \/ replies' = replies \cup {ReplyTo(query)}
     \/ UNCHANGED replies
  /\ UNCHANGED <<tableVars, runtimeVars, clientVars>>

\* The query that ping writes, and the answer of the node at its destination:
\* what handleQuery returns there.  Whoever answers anything else, as another
\* implementation may, or without being asked, is among the senders of the
\* Unsolicited responses, which say what they like: ping takes any identifier
\* of 20 bytes.
PingQuery(k) == [methodName |-> "ping", idArgument |-> TRUE]

PeerAnswers(k) ==
  /\ dest[k] \in Addresses
  /\ Runtime!Answer(k, handleQuery(NodeAt[dest[k]], PingQuery(k)))
  /\ UNCHANGED <<tableVars, clientVars, queryVars>>

\* receiveMessages, for responses and for what makes it panic.
ReceiveResponse ==
  /\ Runtime!Receive \/ Runtime!Deliver \/ Runtime!ReceivePanics
  /\ UNCHANGED <<tableVars, clientVars, queryVars>>

-----------------------------------------------------------------------------

Next ==
  \/ \E k \in Calls, address \in Addresses, id \in TransactionIds :
       Ping(k, address, id)
  \/ \E k \in Calls : Call(k) \/ Learn(k) \/ GiveUp(k) \/ PeerAnswers(k)
  \/ AddEntryRec
  \/ ReceiveResponse
  \/ \E query \in Queries : ReceiveQuery(query) \/ HandleQuery(query)

\* As in the two components, and a goroutine that runs ping or handles a
\* query runs on while the program does.
Fairness ==
  /\ WF_vars(AddEntryRec)
  /\ WF_vars(Runtime!Deliver /\ UNCHANGED <<tableVars, clientVars, queryVars>>)
  /\ \A k \in Calls : WF_vars(Call(k)) /\ WF_vars(Learn(k) \/ GiveUp(k))
  /\ \A query \in Queries : WF_vars(HandleQuery(query))

Spec == Init /\ [][Next]_vars /\ Fairness

-----------------------------------------------------------------------------
\* Properties.

\* The table and the runtime are used as their own modules say they are, so
\* that what is checked and proved of their states and steps holds in the
\* client: addEntry is called by one goroutine at a time and with what it may
\* be called with, and the runtime's state is its own.
ComponentsAreUsedAsSpecified ==
  /\ Table!Init /\ [][Table!Next]_(Table!vars)
  /\ Runtime!Init /\ [][Runtime!Next]_(Runtime!vars)

\* Only an identifier that a response gave a ping is in the table, with the
\* address that was pinged.  A query teaches nothing.
OnlyRespondersAreStored ==
  \A entry \in Table!Known : \E k \in Calls :
    dest[k] = entry.address /\ AnsweredBy(k) = entry.nodeId

\* A response that is not the answer of the node that ping k asked: it carries
\* the id that k chose, because it answers another call that chose the same
\* id (krpc_runtime.go:30), or because its sender found or guessed the id.
IsForeign(response, k) ==
  /\ response.transactionId = transactionId[k]
  /\ \/ response \in Runtime!Unsolicited
     \/ /\ response.of \in Calls \ {k}
        /\ transactionId[response.of] = transactionId[k]

\* The table names a wrong address for a node only when a ping of that very
\* address was given a foreign response with the node's identifier: no loss,
\* delay, repetition or reordering of the responses of the nodes asked does
\* it.  The address is wrong for good (KnownContactsAreKept).
WrongAddressNeedsAForeignResponse ==
  \A entry \in Table!Known : NodeAt[entry.address] # entry.nodeId =>
    \E k \in Calls :
      /\ dest[k] = entry.address /\ AnsweredBy(k) = entry.nodeId
      /\ IsForeign(result[k], k)

\* A ping that returned a usable answer has its node in the table, or left
\* it out because its bucket is full, and the bucket has stayed so.
AnsweredIsKnownOrCrowdedOut ==
  \A k \in Calls :
    ping[k] = "returned" /\ AnsweredBy(k) \in NodeId =>
      LET bucket == Table!bucketOf(AnsweredBy(k))
      IN  Table!containsNodeId(bucket, AnsweredBy(k)) \/ Len(bucket) = bucketSize

\* Every ping returns, lost responses and waiting for the lock included, unless
\* the program ends.
EveryPingReturns ==
  \A k \in Calls : ping[k] # "new" ~> ping[k] = "returned" \/ ended

=============================================================================
