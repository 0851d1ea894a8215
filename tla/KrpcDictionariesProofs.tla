----------------------- MODULE KrpcDictionariesProofs -----------------------
(***************************************************************************)
(* What the two programs make of each other's messages, for every          *)
(* dictionary, whatever its keys and values are, and every length of       *)
(* identifiers.  No invariant is needed: each fact holds in every state.   *)
(***************************************************************************)
EXTENDS KrpcDictionaries, TLAPS

-----------------------------------------------------------------------------
\* The four results of decodeKrpcMessage.
LEMMA QueryIsRead ==
  ASSUME NEW d, Go!Has(d, "t", "string"), Go!Has(d, "y", "string"), Go!IsQuery(d)
  PROVE  Go!decodeKrpcMessage(d) =
           Go!krpcQuery(d["t"].string, d["q"].string, d["a"].dict)
<1>1. ~ Go!IsReply(d) /\ ~ Go!IsError(d)
  BY DEF Go!IsQuery, Go!IsReply, Go!IsError, Go!KrpcTypeQuery, Go!KrpcTypeReply,
         Go!KrpcTypeError
<1> QED
  BY <1>1 DEF Go!decodeKrpcMessage

LEMMA ReplyIsRead ==
  ASSUME NEW d, Go!Has(d, "t", "string"), Go!Has(d, "y", "string"), Go!IsReply(d)
  PROVE  Go!decodeKrpcMessage(d) = Go!krpcResponse(d["t"].string, d["r"].dict)
<1>1. ~ Go!IsQuery(d) /\ ~ Go!IsError(d)
  BY DEF Go!IsQuery, Go!IsReply, Go!IsError, Go!KrpcTypeQuery, Go!KrpcTypeReply,
         Go!KrpcTypeError
<1> QED
  BY <1>1 DEF Go!decodeKrpcMessage

LEMMA ErrorIsRead ==
  ASSUME NEW d, Go!Has(d, "t", "string"), Go!Has(d, "y", "string"), Go!IsError(d)
  PROVE  Go!decodeKrpcMessage(d) =
           Go!krpcError(d["t"].string, d["e"].list[1].integer, d["e"].list[2].string)
<1>1. ~ Go!IsQuery(d) /\ ~ Go!IsReply(d)
  BY DEF Go!IsQuery, Go!IsReply, Go!IsError, Go!KrpcTypeQuery, Go!KrpcTypeReply,
         Go!KrpcTypeError
<1> QED
  BY <1>1 DEF Go!decodeKrpcMessage

LEMMA OthersAreNotRead ==
  ASSUME NEW d,
         \/ ~ Go!Has(d, "t", "string") \/ ~ Go!Has(d, "y", "string")
         \/ ~ Go!IsQuery(d) /\ ~ Go!IsReply(d) /\ ~ Go!IsError(d)
  PROVE  Go!decodeKrpcMessage(d) = Go!NoMessage
BY DEF Go!decodeKrpcMessage

\* The type of a message is the one under "y".
LEMMA TypeIsRead ==
  ASSUME NEW d,
         Go!decodeKrpcMessage(d).type
           \in {Go!KrpcTypeQuery, Go!KrpcTypeReply, Go!KrpcTypeError}
  PROVE  /\ Go!Has(d, "t", "string") /\ Go!Has(d, "y", "string")
         /\ Go!decodeKrpcMessage(d).type = d["y"].string
         /\ Go!decodeKrpcMessage(d).transactionId = d["t"].string
<1> DEFINE m == Go!decodeKrpcMessage(d)
<1>1. Go!NoMessage.type = <<>>
  BY DEF Go!NoMessage
<1>2. m # Go!NoMessage
  BY <1>1 DEF Go!KrpcTypeQuery, Go!KrpcTypeReply, Go!KrpcTypeError
<1>3. /\ Go!Has(d, "t", "string") /\ Go!Has(d, "y", "string")
      /\ Go!IsQuery(d) \/ Go!IsReply(d) \/ Go!IsError(d)
  BY <1>2, OthersAreNotRead
<1>4. CASE Go!IsQuery(d)
  <2>1. m = Go!krpcQuery(d["t"].string, d["q"].string, d["a"].dict)
    BY <1>3, <1>4, QueryIsRead
  <2> QED
    BY <1>3, <1>4, <2>1 DEF Go!krpcQuery, Go!IsQuery
<1>5. CASE Go!IsReply(d)
  <2>1. m = Go!krpcResponse(d["t"].string, d["r"].dict)
    BY <1>3, <1>5, ReplyIsRead
  <2> QED
    BY <1>3, <1>5, <2>1 DEF Go!krpcResponse, Go!IsReply
<1>6. CASE Go!IsError(d)
  <2>1. m = Go!krpcError(d["t"].string, d["e"].list[1].integer, d["e"].list[2].string)
    BY <1>3, <1>6, ErrorIsRead
  <2> QED
    BY <1>3, <1>6, <2>1 DEF Go!krpcError, Go!IsError
<1> QED
  BY <1>3, <1>4, <1>5, <1>6

-----------------------------------------------------------------------------
\* encode, then decodeKrpcMessage.
LEMMA QueryIsReadBack ==
  ASSUME NEW t, NEW methodName, NEW arguments
  PROVE  LET m == Go!krpcQuery(t, methodName, arguments)
         IN  Go!decodeKrpcMessage(Go!encode(m)) = m
<1> DEFINE m == Go!krpcQuery(t, methodName, arguments)
           d == Go!encode(m)
<1>1. /\ m.type = Go!KrpcTypeQuery /\ m.transactionId = t
      /\ m.methodName = methodName /\ m.arguments = arguments
  BY DEF Go!krpcQuery
<1>2. /\ DOMAIN d = {"t", "y", "q", "a"}
      /\ d["t"] = Go!String(t) /\ d["y"] = Go!String(Go!KrpcTypeQuery)
      /\ d["q"] = Go!String(methodName) /\ d["a"] = Go!Dict(arguments)
  BY <1>1 DEF Go!encode, Go!encodeQuery, Go!KrpcTypeQuery, Go!KrpcTypeReply,
              Go!KrpcTypeError, Go!String, Go!Dict
<1>3. Go!Has(d, "t", "string") /\ Go!Has(d, "y", "string") /\ Go!IsQuery(d)
  BY <1>2 DEF Go!Has, Go!IsQuery, Go!String, Go!Dict
<1>4. d["t"].string = t /\ d["q"].string = methodName /\ d["a"].dict = arguments
  BY <1>2 DEF Go!String, Go!Dict
<1> QED
  BY <1>3, <1>4, QueryIsRead

LEMMA ResponseIsReadBack ==
  ASSUME NEW t, NEW returnValues
  PROVE  LET m == Go!krpcResponse(t, returnValues)
         IN  /\ Go!decodeKrpcMessage(Go!encode(m)) = m
             /\ Rust!krpc_handle(Dict(Go!encode(m))) = Rust!Ok("krpc_on_return")
<1> DEFINE m == Go!krpcResponse(t, returnValues)
           d == Go!encode(m)
<1>1. m.type = Go!KrpcTypeReply /\ m.transactionId = t /\ m.returnValues = returnValues
  BY DEF Go!krpcResponse
<1>2. /\ DOMAIN d = {"t", "y", "r"}
      /\ d["t"] = Go!String(t) /\ d["y"] = Go!String(Go!KrpcTypeReply)
      /\ d["r"] = Go!Dict(returnValues)
  BY <1>1 DEF Go!encode, Go!encodeResponse, Go!KrpcTypeQuery, Go!KrpcTypeReply,
              Go!KrpcTypeError, Go!String, Go!Dict
<1>3. Go!Has(d, "t", "string") /\ Go!Has(d, "y", "string") /\ Go!IsReply(d)
  BY <1>2 DEF Go!Has, Go!IsReply, Go!String, Go!Dict
<1>4. d["t"].string = t /\ d["r"].dict = returnValues
  BY <1>2 DEF Go!String, Go!Dict
<1>5. Dict(d).kind = "dict" /\ Dict(d).dict = d
  BY DEF Dict
<1>6. Rust!Has(d, "y", "string") /\ d["y"].string = <<"r">>
  BY <1>2 DEF Rust!Has, Go!String, Go!KrpcTypeReply
<1>7. Rust!krpc_handle(Dict(d)) = Rust!Ok("krpc_on_return")
  BY <1>5, <1>6 DEF Rust!krpc_handle
<1> QED
  BY <1>3, <1>4, <1>7, ReplyIsRead

LEMMA ErrorIsReadBack ==
  ASSUME NEW t, NEW code, NEW message
  PROVE  LET m == Go!krpcError(t, code, message)
         IN  /\ Go!decodeKrpcMessage(Go!encode(m)) = m
             /\ Rust!krpc_handle(Dict(Go!encode(m))) = Rust!Ok("krpc_on_error")
<1> DEFINE m == Go!krpcError(t, code, message)
           d == Go!encode(m)
           e == <<Go!Integer(code), Go!String(message)>>
<1>1. /\ m.type = Go!KrpcTypeError /\ m.transactionId = t
      /\ m.code = code /\ m.message = message
  BY DEF Go!krpcError
<1>2. /\ DOMAIN d = {"t", "y", "e"}
      /\ d["t"] = Go!String(t) /\ d["y"] = Go!String(Go!KrpcTypeError)
      /\ d["e"] = Go!List(e)
  BY <1>1 DEF Go!encode, Go!encodeError, Go!KrpcTypeQuery, Go!KrpcTypeReply,
              Go!KrpcTypeError, Go!String
<1>3. d["e"].list = e /\ d["e"].kind = "list"
  BY <1>2 DEF Go!List
<1>4. /\ Len(e) = 2 /\ e[1] = Go!Integer(code) /\ e[2] = Go!String(message)
  OBVIOUS
<1>5. /\ e[1].kind = "integer" /\ e[1].integer = code
      /\ e[2].kind = "string" /\ e[2].string = message
  BY <1>4 DEF Go!Integer, Go!String
<1>6. Go!Has(d, "t", "string") /\ Go!Has(d, "y", "string") /\ Go!IsError(d)
  BY <1>2, <1>3, <1>4, <1>5 DEF Go!Has, Go!IsError, Go!String
<1>7. d["t"].string = t
  BY <1>2 DEF Go!String
<1>8. Dict(d).kind = "dict" /\ Dict(d).dict = d
  BY DEF Dict
<1>9. Rust!Has(d, "y", "string") /\ d["y"].string = <<"e">>
  BY <1>2 DEF Rust!Has, Go!String, Go!KrpcTypeError
<1>10. Rust!krpc_handle(Dict(d)) = Rust!Ok("krpc_on_error")
  BY <1>8, <1>9 DEF Rust!krpc_handle
<1>11. Go!decodeKrpcMessage(d) = m
  BY <1>3, <1>5, <1>6, <1>7, ErrorIsRead
<1> QED
  BY <1>10, <1>11

\* What a Go node sends, every Go node reads as it was (krpc_message.go:44 to
\* 97 against 99 to 154), whatever is in it.
THEOREM MessagesAreReadBack ==
  \A t, x, y : \A m \in {Go!krpcQuery(t, x, y), Go!krpcResponse(t, x), Go!krpcError(t, x, y)} :
    Go!decodeKrpcMessage(Go!encode(m)) = m
<1> QED
  BY QueryIsReadBack, ResponseIsReadBack, ErrorIsReadBack

-----------------------------------------------------------------------------
\* What Go answers to a query, it can be told by both programs to be.
LEMMA QueriesAreAnswered == QueriesGetTheirAnswer
<1> SUFFICES ASSUME goMessage.type = Go!KrpcTypeQuery
             PROVE  LET answer == Go!encode(Go!handleQuery(ThisId, goMessage))
                        read   == Go!decodeKrpcMessage(answer)
                    IN  /\ read.type \in {Go!KrpcTypeReply, Go!KrpcTypeError}
                        /\ read.transactionId = goMessage.transactionId
                        /\ Rust!IsOk(Rust!krpc_handle(Dict(answer)))
                        /\ read.type = Go!KrpcTypeReply => Go!HasId(read.returnValues)
  BY DEF QueriesGetTheirAnswer
<1> DEFINE id     == goMessage.transactionId
           answer == Go!handleQuery(ThisId, goMessage)
           values == [id |-> Go!String(ThisId)]
<1>1. \/ \E code, message : answer = Go!krpcError(id, code, message)
      \/ answer = Go!krpcResponse(id, values)
  BY DEF Go!handleQuery, Go!handlePing
<1>2. ASSUME NEW code, NEW message, answer = Go!krpcError(id, code, message)
      PROVE  /\ Go!decodeKrpcMessage(Go!encode(answer)) = answer
             /\ Rust!krpc_handle(Dict(Go!encode(answer))) = Rust!Ok("krpc_on_error")
             /\ answer.type = Go!KrpcTypeError /\ answer.transactionId = id
  <2>1. answer.type = Go!KrpcTypeError /\ answer.transactionId = id
    BY <1>2 DEF Go!krpcError
  <2> QED
    BY <1>2, <2>1, ErrorIsReadBack
<1>3. ASSUME answer = Go!krpcResponse(id, values)
      PROVE  /\ Go!decodeKrpcMessage(Go!encode(answer)) = answer
             /\ Rust!krpc_handle(Dict(Go!encode(answer))) = Rust!Ok("krpc_on_return")
             /\ answer.type = Go!KrpcTypeReply /\ answer.transactionId = id
             /\ Go!HasId(answer.returnValues)
  <2>1. /\ answer.type = Go!KrpcTypeReply /\ answer.transactionId = id
        /\ answer.returnValues = values
    BY <1>3 DEF Go!krpcResponse
  <2>2. Go!HasId(values)
    BY DictionariesAssumption DEF Go!HasId, Go!Has, Go!String
  <2> QED
    BY <1>3, <2>1, <2>2, ResponseIsReadBack
<1>4. Rust!IsOk(Rust!Ok("krpc_on_error")) /\ Rust!IsOk(Rust!Ok("krpc_on_return"))
  BY DEF Rust!IsOk, Rust!Ok
<1>5. Go!KrpcTypeReply # Go!KrpcTypeError
  BY DEF Go!KrpcTypeReply, Go!KrpcTypeError
<1> QED
  BY <1>1, <1>2, <1>3, <1>4, <1>5

\* krpc_handle, of the type under "y" alone.
LEMMA HandledByType ==
  /\ Go!Has(data, "y", "string") /\ data["y"].string = <<"r">> =>
       rustHandler = Rust!Ok("krpc_on_return")
  /\ Go!Has(data, "y", "string") /\ data["y"].string = <<"e">> =>
       rustHandler = Rust!Ok("krpc_on_error")
  /\ rustHandler = Rust!Ok("krpc_on_return") =>
       Go!Has(data, "y", "string") /\ data["y"].string = <<"r">>
<1>1. Dict(data).kind = "dict" /\ Dict(data).dict = data
  BY DEF Dict
<1>2. Go!Has(data, "y", "string") <=> Rust!Has(data, "y", "string")
  BY DEF Go!Has, Rust!Has
<1>3. <<"r">> # <<"e">>
  OBVIOUS
<1>4. /\ Rust!Err # Rust!Ok("krpc_on_return")
      /\ Rust!Ok("krpc_on_error") # Rust!Ok("krpc_on_return")
  BY DEF Rust!Err, Rust!Ok
<1> QED
  BY <1>1, <1>2, <1>3, <1>4 DEF rustHandler, Rust!krpc_handle

\* What passes krpc_handle and from_bencode is a response to Go, of the same
\* node to the same query.
LEMMA ResponsesMeanTheSame ==
  ASSUME rustHandler = Rust!Ok("krpc_on_return"), Rust!IsOk(rustResponse)
  PROVE  /\ goMessage.type = Go!KrpcTypeReply
         /\ goMessage.transactionId = rustResponse.value.transaction_id
         /\ Go!HasId(goMessage.returnValues)
         /\ goMessage.returnValues["id"].string = rustResponse.value.responder_id
<1> DEFINE values == data["r"].dict
<1>1. Go!Has(data, "y", "string") /\ data["y"].string = <<"r">>
  BY HandledByType
<1>2. ~ Rust!IsOk(Rust!Err)
  BY DEF Rust!IsOk, Rust!Err
<1>3. /\ Rust!Has(data, "t", "string") /\ Rust!Has(data, "r", "dict")
      /\ Rust!IsOk(Rust!responder_id(data))
      /\ rustResponse.value.transaction_id = data["t"].string
      /\ rustResponse.value.responder_id = Rust!responder_id(data).value
  BY <1>2 DEF rustResponse, Rust!from_bencode, Rust!Ok
<1>4. /\ Rust!Has(values, "id", "string")
      /\ Rust!responder_id(data) = Rust!from_slice(values["id"].string)
  BY <1>2, <1>3 DEF Rust!responder_id
<1>5. /\ Len(values["id"].string) = IdLength
      /\ Rust!responder_id(data).value = values["id"].string
  BY <1>2, <1>3, <1>4 DEF Rust!from_slice, Rust!Ok
<1>6. Go!Has(data, "t", "string") /\ Go!IsReply(data) /\ Go!HasId(values)
  BY <1>1, <1>3, <1>4, <1>5
     DEF Go!Has, Rust!Has, Go!IsReply, Go!HasId, Go!KrpcTypeReply
<1>7. goMessage = Go!krpcResponse(data["t"].string, values)
  BY <1>1, <1>6, ReplyIsRead DEF goMessage
<1>8. /\ goMessage.type = Go!KrpcTypeReply
      /\ goMessage.transactionId = data["t"].string
      /\ goMessage.returnValues = values
  BY <1>7 DEF Go!krpcResponse
<1> QED
  BY <1>3, <1>5, <1>6, <1>8

LEMMA AnswersAgree == AnswersMeanTheSame
<1>1. ASSUME goMessage.type = Go!KrpcTypeReply
      PROVE  rustHandler = Rust!Ok("krpc_on_return")
  <2>1. Go!Has(data, "y", "string") /\ data["y"].string = Go!KrpcTypeReply
    BY <1>1, TypeIsRead DEF goMessage
  <2> QED
    BY <2>1, HandledByType DEF Go!KrpcTypeReply
<1>2. ASSUME goMessage.type = Go!KrpcTypeError
      PROVE  rustHandler = Rust!Ok("krpc_on_error")
  <2>1. Go!Has(data, "y", "string") /\ data["y"].string = Go!KrpcTypeError
    BY <1>2, TypeIsRead DEF goMessage
  <2> QED
    BY <2>1, HandledByType DEF Go!KrpcTypeError
<1> QED
  BY <1>1, <1>2, ResponsesMeanTheSame DEF AnswersMeanTheSame

\* The two programs take a dictionary for the same answer
\* (krpc_message.go:99, main.rs:503 and 543), whatever is in it.
THEOREM ProgramsAgreeOnAnswers == Spec => []AnswersMeanTheSame
<1> QED
  BY AnswersAgree, PTL

\* No query is left without an answer, or with one that cannot be told to be of
\* it (dht_client.go:27 to 67).
THEOREM EveryQueryIsAnswered == Spec => []QueriesGetTheirAnswer
<1> QED
  BY QueriesAreAnswered, PTL

=============================================================================
