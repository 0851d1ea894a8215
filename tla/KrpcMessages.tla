---------------------------- MODULE KrpcMessages ----------------------------
(***************************************************************************)
(* The messages of the Go node (go/krpc_message.go), the dictionaries they *)
(* are sent as, and what it makes of a dictionary it receives.             *)
(* A byte string is a sequence of symbols; the name of a message type or   *)
(* of a method is a single one.                                            *)
(***************************************************************************)
EXTENDS BencodeData, Integers, Sequences

CONSTANT IdLength      \* bytes of a node identifier, 20 in the code

KrpcTypeQuery == <<"q">>
KrpcTypeReply == <<"r">>
KrpcTypeError == <<"e">>

KrpcErrorProtocol      == 203
KrpcErrorUnknownMethod == 204

krpcQuery(transactionId, methodName, arguments) ==
  [type |-> KrpcTypeQuery, transactionId |-> transactionId,
   methodName |-> methodName, arguments |-> arguments]

krpcResponse(transactionId, returnValues) ==
  [type |-> KrpcTypeReply, transactionId |-> transactionId,
   returnValues |-> returnValues]

krpcError(transactionId, code, message) ==
  [type |-> KrpcTypeError, transactionId |-> transactionId,
   code |-> code, message |-> message]

\* The error that decodeKrpcMessage returns instead of a message.
NoMessage == [type |-> <<>>]

\* What the three types of messages have under keys of their own.
encodeQuery(msg)    == [q |-> String(msg.methodName), a |-> Dict(msg.arguments)]
encodeResponse(msg) == [r |-> Dict(msg.returnValues)]
encodeError(msg)    == [e |-> List(<<Integer(msg.code), String(msg.message)>>)]

encode(msg) ==
  LET common == [t |-> String(msg.transactionId), y |-> String(msg.type)]
      own    == CASE msg.type = KrpcTypeQuery -> encodeQuery(msg)
                  [] msg.type = KrpcTypeReply -> encodeResponse(msg)
                  [] msg.type = KrpcTypeError -> encodeError(msg)
  IN  [key \in DOMAIN common \cup DOMAIN own |->
         IF key \in DOMAIN common THEN common[key] ELSE own[key]]

\* The three types, each with what it must have besides its transaction id.
IsQuery(data) ==
  /\ data["y"].string = KrpcTypeQuery
  /\ Has(data, "q", "string") /\ Has(data, "a", "dict")

IsReply(data) == data["y"].string = KrpcTypeReply /\ Has(data, "r", "dict")

IsError(data) ==
  /\ data["y"].string = KrpcTypeError
  /\ Has(data, "e", "list")
  /\ LET e == data["e"].list
     IN  Len(e) = 2 /\ e[1].kind = "integer" /\ e[2].kind = "string"

decodeKrpcMessage(data) ==
  IF ~ Has(data, "t", "string") \/ ~ Has(data, "y", "string") THEN NoMessage
  ELSE LET t == data["t"].string
       IN  CASE IsQuery(data) -> krpcQuery(t, data["q"].string, data["a"].dict)
             [] IsReply(data) -> krpcResponse(t, data["r"].dict)
             [] IsError(data) -> krpcError(t, data["e"].list[1].integer,
                                              data["e"].list[2].string)
             [] OTHER         -> NoMessage

-----------------------------------------------------------------------------
\* What the node answers a query (dht_client.go), the transaction id filled
\* in by the runtime.

HasId(values) == Has(values, "id", "string") /\ Len(values["id"].string) = IdLength

handlePing(thisNodeId, query) ==
  IF HasId(query.arguments)
  THEN krpcResponse(query.transactionId, [id |-> String(thisNodeId)])
  ELSE krpcError(query.transactionId, KrpcErrorProtocol, <<"id">>)

\* Mutant: the runtime does not set the transaction id.
handleQueryWithoutId(thisNodeId, query) ==
  IF query.methodName = <<"ping">>
  THEN handlePing(thisNodeId, [query EXCEPT !.transactionId = <<>>])
  ELSE krpcError(<<>>, KrpcErrorUnknownMethod, query.methodName)

handleQuery(thisNodeId, query) ==
  IF query.methodName = <<"ping">> THEN handlePing(thisNodeId, query)
  ELSE krpcError(query.transactionId, KrpcErrorUnknownMethod, query.methodName)

=============================================================================
