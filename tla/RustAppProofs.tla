---------------------------- MODULE RustAppProofs ----------------------------
(***************************************************************************)
(* Safety of the Rust program's two threads, for any number of commands    *)
(* and of datagrams, and whatever other programs send.                     *)
(***************************************************************************)
EXTENDS RustApp, TLAPS

-----------------------------------------------------------------------------
\* The query of the Rust program, as the Go node reads it: find_node, with
\* the transaction id and without a client version.
LEMMA QueryIsFindNode ==
  ASSUME NEW query \in Queries
  PROVE  /\ Has(query.dict, "t", "string")
         /\ query.dict["t"] = String(query.dict["t"].string)
         /\ Go!decodeKrpcMessage(query.dict) =
              Go!krpcQuery(query.dict["t"].string, <<"find_node">>,
                           query.dict["a"].dict)
<1>1. PICK t \in TransactionIds, address \in Addresses : query = Query(t, address)
  BY DEF Queries
<1> DEFINE args == [id |-> String(my_node_id), target |-> String(my_node_id)]
           d    == query.dict
<1>2. d = Rust!krpc_request(t, <<"find_node">>, args, <<>>)
  BY <1>1 DEF Query
<1>3. /\ DOMAIN d = {"t", "y", "q", "a"}
      /\ d["t"] = String(t)
      /\ d["y"] = String(<<"q">>)
      /\ d["q"] = String(<<"find_node">>)
      /\ d["a"] = Dict(args)
  BY <1>2 DEF Rust!krpc_request, Rust!String, Rust!Dict, String, Dict
<1>4. /\ Go!Has(d, "t", "string") /\ Go!Has(d, "y", "string")
      /\ Go!IsQuery(d) /\ ~ Go!IsReply(d) /\ ~ Go!IsError(d)
  BY <1>3 DEF Go!Has, Go!IsQuery, Go!IsReply, Go!IsError, Go!KrpcTypeQuery,
              Go!KrpcTypeReply, Go!KrpcTypeError, String, Dict
<1>5. Go!decodeKrpcMessage(d) =
        Go!krpcQuery(d["t"].string, d["q"].string, d["a"].dict)
  BY <1>4 DEF Go!decodeKrpcMessage
<1> QED
  BY <1>3, <1>4, <1>5 DEF Has, Go!Has, String

\* What the Go node answers is an error with the id of the query: neither its
\* method nor its arguments are looked at by krpc_handle.
LEMMA AnswerIsError ==
  ASSUME NEW query \in Queries
  PROVE  /\ Answer(query)["t"] = query.dict["t"]
         /\ Rust!krpc_handle(Dict(Answer(query))) = Rust!Ok("krpc_on_error")
<1> DEFINE id  == query.dict["t"].string
           msg == Go!krpcError(id, Go!KrpcErrorUnknownMethod, <<"find_node">>)
           ans == Answer(query)
<1>1. ans = Go!encode(msg)
  <2> DEFINE read == Go!decodeKrpcMessage(query.dict)
  <2>0. read = Go!krpcQuery(id, <<"find_node">>, query.dict["a"].dict)
    BY QueryIsFindNode
  <2>1. read.methodName = <<"find_node">> /\ read.transactionId = id
    BY <2>0 DEF Go!krpcQuery
  <2>2. <<"find_node">> # <<"ping">>
    OBVIOUS
  <2>3. Go!handleQuery(GoNodeId, read) = msg
    BY <2>1, <2>2 DEF Go!handleQuery
  <2> QED
    BY <2>3 DEF Answer
<1>2. msg.type = Go!KrpcTypeError /\ msg.transactionId = id
  BY DEF Go!krpcError
<1>3. /\ DOMAIN ans = {"t", "y", "e"}
      /\ ans["t"] = String(id)
      /\ ans["y"] = String(<<"e">>)
  <2> HIDE DEF ans, msg, id
  <2> DEFINE common == [t |-> Go!String(msg.transactionId), y |-> Go!String(msg.type)]
             own    == Go!encodeError(msg)
  <2>1. ans = [key \in DOMAIN common \cup DOMAIN own |->
                 IF key \in DOMAIN common THEN common[key] ELSE own[key]]
    BY <1>1, <1>2 DEF Go!encode, Go!KrpcTypeQuery, Go!KrpcTypeReply, Go!KrpcTypeError
  <2>2. DOMAIN own = {"e"}
    BY DEF Go!encodeError
  <2>3. DOMAIN common = {"t", "y"}
    OBVIOUS
  <2>4. common["t"] = String(id) /\ common["y"] = String(<<"e">>)
    BY <1>2 DEF Go!KrpcTypeError, Go!String, String
  <2> HIDE DEF common, own
  <2> QED
    BY <2>1, <2>2, <2>3, <2>4
<1>4. /\ Rust!Has(Dict(ans).dict, "y", "string")
      /\ Dict(ans).dict["y"].string = <<"e">>
      /\ Dict(ans).kind = "dict"
  BY <1>3 DEF Rust!Has, Dict, String
<1> QED
  BY <1>3, <1>4, QueryIsFindNode DEF Rust!krpc_handle

-----------------------------------------------------------------------------
\* The inductive invariant.

\* The query that is about to be sent is the one that was announced last.
AboutToSend ==
  /\ net = "sending" <=> request # NoRequest
  /\ net = "sending" => /\ lines # <<>>
                        /\ lines[Len(lines)] = Sending(request)

\* What came from the Go node answers a query that was sent to it.
AnswersAreToQueries ==
  \A datagram \in arrived : datagram.by = "go" =>
    \E query \in sent : query.to = GoAddress /\ datagram.content = Answer(query)

IInv ==
  /\ TypeOK
  /\ AboutToSend
  /\ AnswersAreToQueries
  /\ CommandsAreAnnouncedInOrder
  /\ LinesTellWhatWasSent
  /\ AnswersFollowTheirQuery

LEMMA IInvInit == Init => IInv
<1> SUFFICES ASSUME Init PROVE IInv
  OBVIOUS
<1>1. TypeOK /\ AboutToSend /\ AnswersAreToQueries
  BY DEF Init, TypeOK, AboutToSend, AnswersAreToQueries
<1>2. LinesTellWhatWasSent /\ AnswersFollowTheirQuery
  BY DEF Init, LinesTellWhatWasSent, AnswersFollowTheirQuery
<1>3. CommandsAreAnnouncedInOrder
  <2> DEFINE at == [k \in 1 .. 0 |-> 0]
  <2>1. taken = 0 /\ DOMAIN lines = {}
    BY DEF Init
  <2>2. at \in [1 .. taken -> DOMAIN lines]
    BY <2>1
  <2> QED
    BY <2>1, <2>2 DEF CommandsAreAnnouncedInOrder
<1> QED
  BY <1>1, <1>2, <1>3 DEF IInv

-----------------------------------------------------------------------------
\* Steps that write no line.

\* What the lines say stays true when they and what was sent stay as they are.
LEMMA SameLines ==
  ASSUME IInv, UNCHANGED <<taken, lines, request, sent>>,
         net' = "sending" <=> net = "sending",
         \A k \in 1 .. taken : submitted'[k] = submitted[k]
  PROVE  /\ AboutToSend'
         /\ CommandsAreAnnouncedInOrder'
         /\ LinesTellWhatWasSent'
         /\ AnswersFollowTheirQuery'
<1>1. AboutToSend' /\ LinesTellWhatWasSent' /\ AnswersFollowTheirQuery'
  BY DEF IInv, AboutToSend, LinesTellWhatWasSent, AnswersFollowTheirQuery,
         SentBy, HasFailed, IsAboutToSend
<1>2. CommandsAreAnnouncedInOrder'
  <2>1. PICK at \in [1 .. taken -> DOMAIN lines] :
          /\ {at[k] : k \in 1 .. taken} = {i \in DOMAIN lines : IsSending(lines[i])}
          /\ \A j, k \in 1 .. taken : j < k => at[j] < at[k]
          /\ \A k \in 1 .. taken : lines[at[k]].query.to = submitted[k]
    BY DEF IInv, CommandsAreAnnouncedInOrder
  <2>2. \A k \in 1 .. taken' : lines'[at[k]].query.to = submitted'[k]
    BY <2>1
  <2> QED
    BY <2>1, <2>2, Zenon DEF CommandsAreAnnouncedInOrder
<1> QED
  BY <1>1, <1>2

\* The user, the other nodes, and the steps of the network thread that only
\* move on.
LEMMA SubmitKeeps ==
  ASSUME IInv, NEW address \in Addresses, Submit(address)
  PROVE  IInv'
<1>1. /\ submitted' \in Seq(Addresses) /\ taken \in 0 .. Len(submitted')
      /\ \A k \in 1 .. taken : submitted'[k] = submitted[k]
  BY DEF Submit, IInv, TypeOK
<1>2. UNCHANGED <<shown, main, netVars, arrived>>
  BY DEF Submit
<1>3. TypeOK' /\ AnswersAreToQueries'
  BY <1>1, <1>2 DEF netVars, IInv, TypeOK, AnswersAreToQueries
<1> QED
  BY <1>1, <1>2, <1>3, SameLines DEF netVars, IInv

LEMMA EndAndShowKeep ==
  ASSUME IInv, End \/ Show
  PROVE  IInv'
<1>1. /\ main' \in {"running", "ended"} /\ shown' \in 0 .. Len(lines)
      /\ UNCHANGED <<submitted, netVars, arrived>>
  BY DEF End, Show, IInv, TypeOK
<1>2. TypeOK' /\ AnswersAreToQueries'
  BY <1>1 DEF netVars, IInv, TypeOK, AnswersAreToQueries
<1> QED
  BY <1>1, <1>2, SameLines DEF netVars, IInv

LEMMA OthersKeep ==
  ASSUME IInv,
         \/ \E query \in sent : GoAnswers(query)
         \/ \E content \in Foreign : OthersSend(content)
  PROVE  IInv'
<1>1. UNCHANGED <<userVars, netVars>>
  BY DEF GoAnswers, OthersSend
<1>2. arrived' \subseteq Datagrams /\ AnswersAreToQueries' /\ arrived \subseteq arrived'
  <2>1. CASE \E query \in sent : GoAnswers(query)
    <3>1. PICK query \in sent : GoAnswers(query)
      BY <2>1
    <3>2. query \in Queries /\ query.to = GoAddress
      BY <3>1 DEF IInv, TypeOK, GoAnswers
    <3>3. arrived' = arrived \cup {[by |-> "go", content |-> Answer(query)]}
      BY <3>1 DEF GoAnswers
    <3> QED
      BY <1>1, <3>2, <3>3 DEF netVars, IInv, TypeOK, Datagrams, AnswersAreToQueries
  <2>2. CASE \E content \in Foreign : OthersSend(content)
    BY <1>1, <2>2 DEF OthersSend, netVars, IInv, TypeOK, Datagrams, AnswersAreToQueries
  <2> QED
    BY <2>1, <2>2
<1>3. TypeOK'
  BY <1>1, <1>2 DEF userVars, netVars, IInv, TypeOK
<1> QED
  BY <1>1, <1>2, <1>3, SameLines DEF userVars, netVars, IInv

\* The steps of the network thread that neither take a command nor write.
LEMMA MovingOnKeeps ==
  ASSUME IInv,
         \/ Bind \/ NoCommand \/ ReceiveNothing
         \/ \E datagram \in arrived : ReceivePanics(datagram)
  PROVE  IInv'
<1>1. /\ UNCHANGED <<userVars, taken, lines, request, sent, arrived>>
      /\ net \in {"starting", "command", "receive"}
      /\ net' \in {"command", "unbound", "receive", "panicked"}
  BY DEF Bind, NoCommand, ReceiveNothing, ReceivePanics, At
<1>2. TypeOK' /\ AnswersAreToQueries'
  BY <1>1 DEF userVars, IInv, TypeOK, AnswersAreToQueries
<1> QED
  BY <1>1, <1>2, SameLines DEF userVars, IInv

-----------------------------------------------------------------------------
\* Steps of the network thread that write a line, or send what the last one
\* announces.

\* A line that does not report an error while nothing is about to be sent, or
\* one that does while something is, leaves what the lines before it say.
LEMMA WrittenLine ==
  ASSUME IInv, NEW line \in Lines, lines' = Append(lines, line),
         \/ net # "sending" /\ line # ErrorSending
         \/ net = "sending" /\ line = ErrorSending,
         net' = "sending" <=> IsSending(line)
  PROVE  /\ Len(lines') = Len(lines) + 1
         /\ \A i \in DOMAIN lines : lines'[i] = lines[i]
         /\ lines'[Len(lines) + 1] = line
         /\ {i \in DOMAIN lines' : SentBy(i)'} = {i \in DOMAIN lines : SentBy(i)}
<1>1. /\ Len(lines) \in Nat /\ Len(lines') = Len(lines) + 1
      /\ DOMAIN lines = 1 .. Len(lines) /\ DOMAIN lines' = 1 .. Len(lines) + 1
      /\ \A i \in DOMAIN lines : lines'[i] = lines[i]
      /\ lines'[Len(lines) + 1] = line
  BY DEF IInv, TypeOK
<1>2. ASSUME NEW i \in DOMAIN lines, i # Len(lines)
      PROVE  SentBy(i)' <=> SentBy(i)
  BY <1>1, <1>2 DEF SentBy, HasFailed, IsAboutToSend, IsSending
<1>3. ASSUME NEW i \in DOMAIN lines, i = Len(lines)
      PROVE  SentBy(i)' <=> SentBy(i)
  <2>1. HasFailed(i)' <=> line = ErrorSending
    BY <1>1, <1>3 DEF HasFailed
  <2>2. ~ HasFailed(i) /\ ~ IsAboutToSend(i)'
    <3>1. i + 1 \notin 1 .. Len(lines)
      BY <1>1, <1>3
    <3>2. Len(lines') = i + 1 /\ i \in Nat
      BY <1>1, <1>3
    <3>3. Len(lines') # i
      BY <3>2
    <3> QED
      BY <1>1, <3>1, <3>3 DEF HasFailed, IsAboutToSend
  <2>3. IsAboutToSend(i) <=> net = "sending"
    BY <1>3 DEF IsAboutToSend
  <2>4. IsSending(lines[i])' <=> IsSending(lines[i])
    BY <1>1, <1>3 DEF IsSending
  <2> QED
    BY <2>1, <2>2, <2>3, <2>4 DEF SentBy
<1>4. ASSUME NEW i \in DOMAIN lines', i \notin DOMAIN lines
      PROVE  ~ SentBy(i)'
  <2>1. i = Len(lines') /\ lines'[i] = line
    BY <1>1, <1>4
  <2> QED
    BY <2>1 DEF SentBy, IsAboutToSend, IsSending
<1> QED
  BY <1>1, <1>2, <1>3, <1>4

\* What is announced, when the line written announces nothing.
LEMMA OtherLine ==
  ASSUME IInv, NEW line \in Lines, lines' = Append(lines, line),
         ~ IsSending(line), UNCHANGED <<submitted, taken>>
  PROVE  CommandsAreAnnouncedInOrder'
<1>1. /\ lines \in Seq(Lines) /\ DOMAIN lines = 1 .. Len(lines)
      /\ DOMAIN lines' = 1 .. Len(lines) + 1
      /\ \A i \in DOMAIN lines : lines'[i] = lines[i]
      /\ lines'[Len(lines) + 1] = line
  BY DEF IInv, TypeOK
<1>2. PICK at \in [1 .. taken -> DOMAIN lines] :
        /\ {at[k] : k \in 1 .. taken} = {i \in DOMAIN lines : IsSending(lines[i])}
        /\ \A j, k \in 1 .. taken : j < k => at[j] < at[k]
        /\ \A k \in 1 .. taken : lines[at[k]].query.to = submitted[k]
  BY DEF IInv, CommandsAreAnnouncedInOrder
<1>3. {i \in DOMAIN lines' : IsSending(lines'[i])} =
        {i \in DOMAIN lines : IsSending(lines[i])}
  BY <1>1 DEF IsSending
<1>4. at \in [1 .. taken' -> DOMAIN lines']
  BY <1>1, <1>2
<1>5. \A k \in 1 .. taken : lines'[at[k]] = lines[at[k]]
  BY <1>1
<1>6. {at[k] : k \in 1 .. taken'} = {i \in DOMAIN lines' : IsSending(lines'[i])}
  BY <1>2, <1>3
<1>7. /\ \A j, k \in 1 .. taken' : j < k => at[j] < at[k]
      /\ \A k \in 1 .. taken' : lines'[at[k]].query.to = submitted'[k]
  BY <1>2, <1>5
<1> QED
  BY <1>4, <1>6, <1>7, Zenon DEF CommandsAreAnnouncedInOrder

\* A line that is no answer of the Go node leaves the answers where they are.
LEMMA NoAnswer ==
  ASSUME IInv, NEW line, lines' = Append(lines, line),
         line.kind # "received",
         {i \in DOMAIN lines : SentBy(i)} \subseteq {i \in DOMAIN lines' : SentBy(i)'}
  PROVE  AnswersFollowTheirQuery'
<1>1. /\ DOMAIN lines = 1 .. Len(lines) /\ DOMAIN lines' = 1 .. Len(lines) + 1
      /\ \A i \in DOMAIN lines : lines'[i] = lines[i]
      /\ lines'[Len(lines) + 1] = line
  BY DEF IInv, TypeOK
<1>2. ASSUME NEW i \in DOMAIN lines, lines[i].kind = "received",
             lines[i].datagram.by = "go", NEW j \in 1 .. i - 1, SentBy(j)
      PROVE  j \in DOMAIN lines /\ SentBy(j)' /\ lines'[j] = lines[j]
  BY <1>1, <1>2
<1> QED
  BY <1>1, <1>2 DEF IInv, AnswersFollowTheirQuery

LEMMA TakeCommandKeeps ==
  ASSUME IInv, NEW transaction_id \in TransactionIds, TakeCommand(transaction_id)
  PROVE  IInv'
<1> DEFINE query == Query(transaction_id, submitted[taken + 1])
           line  == Sending(query)
<1>1. /\ net = "command" /\ net' = "sending" /\ taken' = taken + 1
      /\ taken + 1 \in 1 .. Len(submitted)
      /\ lines' = Append(lines, line) /\ request' = query
      /\ UNCHANGED <<submitted, shown, main, sent, arrived>>
  BY DEF TakeCommand, At, userVars, IInv, TypeOK
<1>2. query \in Queries /\ line \in Lines /\ line.kind = "sending"
  <2>1. submitted[taken + 1] \in Addresses
    BY <1>1 DEF IInv, TypeOK
  <2>2. query \in Queries
    BY <2>1 DEF Queries
  <2> QED
    BY <2>2 DEF Lines, Sending
<1>3. line # ErrorSending /\ IsSending(line)
  <2>1. ErrorSending.kind = "error sending"
    BY DEF ErrorSending
  <2> QED
    BY <1>2, <2>1 DEF IsSending
<1>4. /\ Len(lines') = Len(lines) + 1
      /\ \A i \in DOMAIN lines : lines'[i] = lines[i]
      /\ lines'[Len(lines) + 1] = line
      /\ {i \in DOMAIN lines' : SentBy(i)'} = {i \in DOMAIN lines : SentBy(i)}
  BY <1>1, <1>2, <1>3, WrittenLine
<1>5. LinesTellWhatWasSent'
  BY <1>1, <1>4 DEF IInv, LinesTellWhatWasSent
<1>6. AnswersFollowTheirQuery'
  BY <1>1, <1>2, <1>4, NoAnswer
<1>7. CommandsAreAnnouncedInOrder'
  <2>1. /\ Len(lines) \in Nat /\ taken \in Nat
        /\ DOMAIN lines = 1 .. Len(lines) /\ DOMAIN lines' = 1 .. Len(lines) + 1
    BY <1>1 DEF IInv, TypeOK
  <2>0. 1 .. taken + 1 = (1 .. taken) \cup {taken + 1}
    BY <2>1
  <2>2. PICK old \in [1 .. taken -> DOMAIN lines] :
          /\ {old[k] : k \in 1 .. taken} = {i \in DOMAIN lines : IsSending(lines[i])}
          /\ \A j, k \in 1 .. taken : j < k => old[j] < old[k]
          /\ \A k \in 1 .. taken : lines[old[k]].query.to = submitted[k]
    BY DEF IInv, CommandsAreAnnouncedInOrder
  <2> DEFINE at == [k \in 1 .. taken + 1 |->
                      IF k = taken + 1 THEN Len(lines) + 1 ELSE old[k]]
  <2>3. at \in [1 .. taken' -> DOMAIN lines']
    BY <1>1, <2>1, <2>2
  <2>4. \A k \in 1 .. taken : at[k] = old[k] /\ old[k] \in 1 .. Len(lines)
    BY <2>1, <2>2
  <2>5. at[taken + 1] = Len(lines) + 1
    BY <2>1
  <2> HIDE DEF at
  <2>6. {at[k] : k \in 1 .. taken'} = {i \in DOMAIN lines' : IsSending(lines'[i])}
    <3>1. {at[k] : k \in 1 .. taken + 1} =
            {old[k] : k \in 1 .. taken} \cup {Len(lines) + 1}
      BY <2>0, <2>4, <2>5
    <3>2. {i \in DOMAIN lines' : IsSending(lines'[i])} =
            {i \in DOMAIN lines : IsSending(lines[i])} \cup {Len(lines) + 1}
      BY <1>3, <1>4, <2>1 DEF IsSending
    <3> QED
      BY <1>1, <2>2, <3>1, <3>2
  <2>7. \A j, k \in 1 .. taken' : j < k => at[j] < at[k]
    <3> SUFFICES ASSUME NEW j \in 1 .. taken + 1, NEW k \in 1 .. taken + 1, j < k
                 PROVE  at[j] < at[k]
      BY <1>1
    <3>1. j \in 1 .. taken
      BY <2>1
    <3>2. CASE k \in 1 .. taken
      BY <2>2, <2>4, <3>1, <3>2
    <3>3. CASE k = taken + 1
      BY <2>1, <2>4, <2>5, <3>1, <3>3
    <3> QED
      BY <2>0, <3>2, <3>3
  <2>8. \A k \in 1 .. taken' : lines'[at[k]].query.to = submitted'[k]
    <3>1. query.to = submitted[taken + 1] /\ line.query = query
      BY DEF Query, Sending
    <3>2. lines'[at[taken + 1]].query.to = submitted[taken + 1]
      BY <1>4, <2>5, <3>1
    <3>3. \A k \in 1 .. taken : lines'[at[k]] = lines[old[k]]
      BY <1>4, <2>1, <2>4
    <3> QED
      BY <1>1, <2>0, <2>2, <3>2, <3>3
  <2> QED
    BY <2>3, <2>6, <2>7, <2>8, Zenon DEF CommandsAreAnnouncedInOrder
<1>8. AboutToSend'
  <2>1. request' # NoRequest
    BY <1>1, <1>2, RustAppAssumption
  <2>2. lines' # <<>> /\ lines'[Len(lines')] = Sending(request')
    BY <1>1, <1>4 DEF IInv, TypeOK
  <2> QED
    BY <1>1, <2>1, <2>2 DEF AboutToSend
<1>9. TypeOK' /\ AnswersAreToQueries'
  BY <1>1, <1>2 DEF IInv, TypeOK, AnswersAreToQueries
<1> QED
  BY <1>5, <1>6, <1>7, <1>8, <1>9 DEF IInv

LEMMA SendFailsKeeps ==
  ASSUME IInv, SendFails
  PROVE  IInv'
<1>1. /\ net = "sending" /\ net' = "receive" /\ request' = NoRequest
      /\ lines' = Append(lines, ErrorSending)
      /\ UNCHANGED <<submitted, taken, shown, main, sent, arrived>>
  BY DEF SendFails, At, userVars
<1>2. /\ ErrorSending \in Lines /\ ~ IsSending(ErrorSending)
      /\ ErrorSending.kind # "received"
  BY DEF Lines, ErrorSending, IsSending
<1>3. {i \in DOMAIN lines' : SentBy(i)'} = {i \in DOMAIN lines : SentBy(i)}
      /\ \A i \in DOMAIN lines : lines'[i] = lines[i]
  BY <1>1, <1>2, WrittenLine
<1>4. LinesTellWhatWasSent'
  BY <1>1, <1>3 DEF IInv, LinesTellWhatWasSent
<1>5. AnswersFollowTheirQuery'
  BY <1>1, <1>2, <1>3, NoAnswer
<1>6. CommandsAreAnnouncedInOrder'
  BY <1>1, <1>2, OtherLine
<1>7. TypeOK' /\ AboutToSend' /\ AnswersAreToQueries'
  BY <1>1, <1>2 DEF IInv, TypeOK, AboutToSend, AnswersAreToQueries
<1> QED
  BY <1>4, <1>5, <1>6, <1>7 DEF IInv

\* The last line, which was about to be sent, now tells what was sent.
LEMMA SendToKeeps ==
  ASSUME IInv, SendTo
  PROVE  IInv'
<1>1. /\ net = "sending" /\ net' = "receive" /\ request' = NoRequest
      /\ sent' = sent \cup {request}
      /\ UNCHANGED <<submitted, taken, shown, main, lines, arrived>>
  BY DEF SendTo, At, userVars
<1> DEFINE last == Len(lines)
<1>2. /\ last \in DOMAIN lines /\ last + 1 \notin DOMAIN lines
      /\ lines[last] = Sending(request) /\ request \in Queries
  BY <1>1 DEF IInv, TypeOK, AboutToSend
<1>3. \A i \in DOMAIN lines : SentBy(i)' <=> SentBy(i) \/ i = last
  BY <1>1, <1>2 DEF SentBy, HasFailed, IsAboutToSend, IsSending, Sending
<1>4. LinesTellWhatWasSent'
  <2>1. lines[last].query = request
    BY <1>2 DEF Sending
  <2>2. {i \in DOMAIN lines' : SentBy(i)'} = {i \in DOMAIN lines : SentBy(i)} \cup {last}
    BY <1>1, <1>2, <1>3
  <2> QED
    BY <1>1, <2>1, <2>2 DEF IInv, LinesTellWhatWasSent
<1>5. AnswersFollowTheirQuery'
  <2>1. ASSUME NEW i \in DOMAIN lines, NEW j \in 1 .. i - 1, SentBy(j)
        PROVE  SentBy(j)'
    BY <1>3, <2>1 DEF IInv, TypeOK
  <2> QED
    BY <1>1, <2>1 DEF IInv, AnswersFollowTheirQuery
<1>6. CommandsAreAnnouncedInOrder'
  BY <1>1, Zenon DEF IInv, CommandsAreAnnouncedInOrder
<1>7. TypeOK' /\ AboutToSend' /\ AnswersAreToQueries'
  BY <1>1, <1>2 DEF IInv, TypeOK, AboutToSend, AnswersAreToQueries
<1> QED
  BY <1>4, <1>5, <1>6, <1>7 DEF IInv

\* What is received from the Go node was sent as an answer to a query, and the
\* line of that query is there already.
LEMMA ReceiveKeeps ==
  ASSUME IInv, NEW datagram \in arrived, Receive(datagram)
  PROVE  IInv'
<1> DEFINE line == Received(datagram)
<1>1. /\ net = "receive" /\ net' = "command"
      /\ lines' = Append(lines, line)
      /\ UNCHANGED <<submitted, taken, shown, main, request, sent, arrived>>
  BY DEF Receive, At, userVars
<1>2. line \in Lines /\ line.kind = "received" /\ line.datagram = datagram
  BY DEF IInv, TypeOK, Lines, Received
<1>3. line # ErrorSending /\ ~ IsSending(line)
  <2>1. ErrorSending.kind = "error sending"
    BY DEF ErrorSending
  <2> QED
    BY <1>2, <2>1 DEF IsSending
<1>4. /\ Len(lines') = Len(lines) + 1
      /\ \A i \in DOMAIN lines : lines'[i] = lines[i]
      /\ lines'[Len(lines) + 1] = line
      /\ {i \in DOMAIN lines' : SentBy(i)'} = {i \in DOMAIN lines : SentBy(i)}
  BY <1>1, <1>2, <1>3, WrittenLine
<1>5. LinesTellWhatWasSent'
  BY <1>1, <1>4 DEF IInv, LinesTellWhatWasSent
<1>6. CommandsAreAnnouncedInOrder'
  BY <1>1, <1>2, <1>3, OtherLine
<1>7. AnswersFollowTheirQuery'
  <2>1. /\ Len(lines) \in Nat /\ DOMAIN lines = 1 .. Len(lines)
        /\ DOMAIN lines' = 1 .. Len(lines) + 1
    BY <1>1 DEF IInv, TypeOK
  <2> SUFFICES ASSUME NEW i \in 1 .. Len(lines) + 1,
                      lines'[i].kind = "received", lines'[i].datagram.by = "go"
               PROVE  LET content == lines'[i].datagram.content
                      IN  /\ \E j \in 1 .. i - 1 :
                               /\ SentBy(j)'
                               /\ lines'[j].query.to = GoAddress
                               /\ lines'[j].query.dict["t"] = content["t"]
                          /\ Rust!krpc_handle(Dict(content)) = Rust!Ok("krpc_on_error")
    BY <2>1 DEF AnswersFollowTheirQuery
  <2>2. CASE i \in 1 .. Len(lines)
    <3>1. lines'[i] = lines[i] /\ i \in DOMAIN lines
      BY <1>4, <2>1, <2>2
    <3>2. PICK j \in 1 .. i - 1 :
            /\ SentBy(j)
            /\ lines[j].query.to = GoAddress
            /\ lines[j].query.dict["t"] = lines[i].datagram.content["t"]
      BY <3>1 DEF IInv, AnswersFollowTheirQuery
    <3>3. SentBy(j)' /\ lines'[j] = lines[j]
      BY <1>4, <2>1, <2>2, <3>2
    <3>4. Rust!krpc_handle(Dict(lines[i].datagram.content)) = Rust!Ok("krpc_on_error")
      BY <3>1 DEF IInv, AnswersFollowTheirQuery
    <3> QED
      BY <3>1, <3>2, <3>3, <3>4
  <2>3. CASE i = Len(lines) + 1
    <3>1. lines'[i].datagram = datagram /\ datagram.by = "go"
      BY <1>2, <1>4, <2>3
    <3>2. PICK query \in sent : query.to = GoAddress /\ datagram.content = Answer(query)
      BY <3>1 DEF IInv, AnswersAreToQueries
    <3>3. query \in Queries
      BY <3>2 DEF IInv, TypeOK
    <3>4. PICK j \in DOMAIN lines : SentBy(j) /\ lines[j].query = query
      BY <3>2 DEF IInv, LinesTellWhatWasSent
    <3>5. j \in 1 .. i - 1 /\ SentBy(j)' /\ lines'[j].query = query
      BY <1>4, <2>1, <2>3, <3>4
    <3>6. /\ Answer(query)["t"] = query.dict["t"]
          /\ Rust!krpc_handle(Dict(Answer(query))) = Rust!Ok("krpc_on_error")
      BY <3>3, AnswerIsError
    <3> QED
      BY <3>1, <3>2, <3>5, <3>6
  <2> QED
    BY <2>1, <2>2, <2>3
<1>8. TypeOK' /\ AboutToSend' /\ AnswersAreToQueries'
  BY <1>1, <1>2 DEF IInv, TypeOK, AboutToSend, AnswersAreToQueries
<1> QED
  BY <1>5, <1>6, <1>7, <1>8 DEF IInv

-----------------------------------------------------------------------------
\* Every step preserves the invariant.
LEMMA IInvNext == IInv /\ [Next]_vars => IInv'
<1> SUFFICES ASSUME IInv, [Next]_vars PROVE IInv'
  OBVIOUS
<1>1. ASSUME NEW address \in Addresses, Submit(address) PROVE IInv'
  BY <1>1, SubmitKeeps
<1>2. CASE End \/ Show
  BY <1>2, EndAndShowKeep
<1>3. CASE \/ \E query \in sent : GoAnswers(query)
           \/ \E content \in Foreign : OthersSend(content)
  BY <1>3, OthersKeep
<1>4. CASE networkThread
  <2>1. CASE \/ Bind \/ NoCommand \/ ReceiveNothing
             \/ \E datagram \in arrived : ReceivePanics(datagram)
    BY <2>1, MovingOnKeeps
  <2>2. ASSUME NEW transaction_id \in TransactionIds, TakeCommand(transaction_id)
        PROVE  IInv'
    BY <2>2, TakeCommandKeeps
  <2>3. CASE SendTo
    BY <2>3, SendToKeeps
  <2>4. CASE SendFails
    BY <2>4, SendFailsKeeps
  <2>5. ASSUME NEW datagram \in arrived, Receive(datagram) PROVE IInv'
    BY <2>5, ReceiveKeeps
  <2> QED
    BY <1>4, <2>1, <2>2, <2>3, <2>4, <2>5 DEF networkThread
<1>5. CASE UNCHANGED vars
  <2>1. UNCHANGED <<userVars, netVars, arrived>>
    BY <1>5 DEF vars
  <2>2. TypeOK' /\ AnswersAreToQueries'
    BY <2>1 DEF userVars, netVars, IInv, TypeOK, AnswersAreToQueries
  <2> QED
    BY <2>1, <2>2, SameLines DEF userVars, netVars, IInv
<1> QED
  BY <1>1, <1>2, <1>3, <1>4, <1>5 DEF Next

\* The strengthening is an invariant of the program.
THEOREM InductiveInvariant == Spec => []IInv
<1> QED
  BY IInvInit, IInvNext, PTL DEF Spec

\* Type correctness.
THEOREM TypeCorrect == Spec => []TypeOK
<1>1. IInv => TypeOK
  BY DEF IInv
<1> QED
  BY <1>1, InductiveInvariant, PTL

\* The network thread announces the commands it takes in their order
\* (main.rs:51 to 60).
THEOREM CommandsStayInOrder == Spec => []CommandsAreAnnouncedInOrder
<1>1. IInv => CommandsAreAnnouncedInOrder
  BY DEF IInv
<1> QED
  BY <1>1, InductiveInvariant, PTL

\* An error line (main.rs:64) always belongs to the line before it, so that the
\* lines tell the queries that went out.
THEOREM LinesAreTrue == Spec => []LinesTellWhatWasSent
<1>1. IInv => LinesTellWhatWasSent
  BY DEF IInv
<1> QED
  BY <1>1, InductiveInvariant, PTL

\* No answer of the Go node is shown before the query that it answers, however
\* the network delays, repeats and reorders (main.rs:70 to 76).
THEOREM AnswersComeLater == Spec => []AnswersFollowTheirQuery
<1>1. IInv => AnswersFollowTheirQuery
  BY DEF IInv
<1> QED
  BY <1>1, InductiveInvariant, PTL

=============================================================================
