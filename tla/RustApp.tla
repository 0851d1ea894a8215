------------------------------ MODULE RustApp ------------------------------
(***************************************************************************)
(* The Rust program (main of rust/src/main.rs): the user interface, which  *)
(* is the main thread, and the network thread, with a channel in each      *)
(* direction and a UDP socket; and a Go node that a query may be sent to.  *)
(*                                                                         *)
(* A channel delivers every message once and in order: it is the sequence  *)
(* of all messages sent to it and the number of those received.  One       *)
(* iteration of the network thread's loop takes the steps "command",       *)
(* "sending" if there was a command, and "receive".  The network loses,    *)
(* delays, duplicates and reorders datagrams, and anybody may send some.   *)
(* The program ends with its main thread.                                  *)
(***************************************************************************)
EXTENDS BencodeData, Integers, Sequences, FiniteSets

CONSTANTS
  IdLength,            \* bytes of a node identifier
  my_node_id,          \* of the Rust program
  GoNodeId,            \* of the Go node
  GoAddress,           \* where the Go node listens
  Addresses,           \* what parses as a SocketAddrV4, GoAddress included
  TransactionIds,      \* what krpc_request chooses from
  Foreign,             \* what others send: dictionaries and Undecodable
  Undecodable,         \* no bencode, or cut off by the buffer of 1024 bytes
  NoRequest,           \* the network thread is not about to send
  MaxCommands,         \* bound: how often an address is submitted
  MaxReceived          \* bound: how many datagrams are received

Go   == INSTANCE KrpcMessages
Rust == INSTANCE RustKrpc

VARIABLES
  submitted, taken,    \* the channel to the network thread
  lines, shown,        \* the channel to the user interface
  main,                \* whether the main thread runs
  net,                 \* where the network thread is
  request,             \* the query it is about to send
  sent,                \* the queries sent
  arrived              \* the datagrams sent to this program

userVars == <<submitted, shown, main>>
netVars == <<taken, lines, net, request, sent>>
vars == <<userVars, netVars, arrived>>

\* find_node with the own identifier as target, and where it goes.
Query(transaction_id, address) ==
  [to   |-> address,
   dict |-> Rust!krpc_request(transaction_id, <<"find_node">>,
                              [id     |-> String(my_node_id),
                               target |-> String(my_node_id)], <<>>)]

Queries == {Query(t, address) : t \in TransactionIds, address \in Addresses}

\* What the Go node sends back: handleQuery, of what it can decode.
Answer(query) ==
  Go!encode(Go!handleQuery(GoNodeId, Go!decodeKrpcMessage(query.dict)))

ASSUME RustAppAssumption == NoRequest \notin Queries

\* The lines of the user interface.  The address is not displayed.
Sending(query)  == [kind |-> "sending", query |-> query]
ErrorSending    == [kind |-> "error sending"]
Received(datagram) == [kind |-> "received", datagram |-> datagram]

Init ==
  /\ submitted = <<>> /\ taken = 0
  /\ lines = <<>> /\ shown = 0
  /\ main = "running"
  /\ net = "starting"
  /\ request = NoRequest
  /\ sent = {}
  /\ arrived = {}

NetEnded == net \in {"unbound", "panicked"}

-----------------------------------------------------------------------------
\* The main thread.

\* on_submit: the channel takes the address as long as its receiver lives;
\* the error it returns otherwise is ignored.
Submit(address) ==
  /\ main = "running"
  /\ Len(submitted) < MaxCommands
  /\ submitted' = IF NetEnded THEN submitted ELSE Append(submitted, address)
  /\ UNCHANGED <<shown, main, netVars, arrived>>

\* on_submit of text that is no address, the one offered included: unwrap
\* panics.  Ctrl-C ends the program too.
End ==
  /\ main = "running"
  /\ main' = "ended"
  /\ UNCHANGED <<submitted, shown, netVars, arrived>>

\* Mutant: a line is shown that was not sent yet.
ShowWithoutWaiting ==
  /\ main = "running"
  /\ shown' = shown + 1
  /\ UNCHANGED <<submitted, main, netVars, arrived>>

\* Mutant: the interface stops reading when the network thread is gone.
ShowWhileConnected ==
  /\ main = "running"
  /\ shown < Len(lines) /\ ~ NetEnded
  /\ shown' = shown + 1
  /\ UNCHANGED <<submitted, main, netVars, arrived>>

\* One line per turn of the loop.
Show ==
  /\ main = "running"
  /\ shown < Len(lines)
  /\ shown' = shown + 1
  /\ UNCHANGED <<submitted, main, netVars, arrived>>

-----------------------------------------------------------------------------
\* The network thread.

At(stage) == main = "running" /\ net = stage

\* The socket is bound, or the port is in use: unwrap panics.
Bind ==
  /\ At("starting")
  /\ net' \in {"command", "unbound"}
  /\ UNCHANGED <<userVars, taken, lines, request, sent, arrived>>

NoCommand ==
  /\ At("command")
  /\ taken = Len(submitted)
  /\ net' = "receive"
  /\ UNCHANGED <<userVars, taken, lines, request, sent, arrived>>

\* Mutant: the latest command is taken first.
TakeLatest(transaction_id) ==
  LET query == Query(transaction_id, submitted[Len(submitted)])
  IN  /\ At("command")
      /\ taken < Len(submitted)
      /\ taken' = taken + 1
      /\ lines' = Append(lines, Sending(query))
      /\ request' = query
      /\ net' = "sending"
      /\ UNCHANGED <<userVars, sent, arrived>>

\* Mutant: the query is built a second time to be sent.
TakeAndBuildTwice(transaction_id) ==
  /\ At("command")
  /\ taken < Len(submitted)
  /\ taken' = taken + 1
  /\ lines' = Append(lines, Sending(Query(transaction_id, submitted[taken + 1])))
  /\ \E other \in TransactionIds : request' = Query(other, submitted[taken + 1])
  /\ net' = "sending"
  /\ UNCHANGED <<userVars, sent, arrived>>

\* try_recv, krpc_request, and the line that says what is being sent.
TakeCommand(transaction_id) ==
  LET query == Query(transaction_id, submitted[taken + 1])
  IN  /\ At("command")
      /\ taken < Len(submitted)
      /\ taken' = taken + 1
      /\ lines' = Append(lines, Sending(query))
      /\ request' = query
      /\ net' = "sending"
      /\ UNCHANGED <<userVars, sent, arrived>>

SendTo ==
  /\ At("sending")
  /\ sent' = sent \cup {request}
  /\ request' = NoRequest
  /\ net' = "receive"
  /\ UNCHANGED <<userVars, taken, lines, arrived>>

\* Mutant: the error is not reported.
SendFailsSilently ==
  /\ At("sending")
  /\ request' = NoRequest
  /\ net' = "receive"
  /\ UNCHANGED <<userVars, taken, lines, sent, arrived>>

\* send_to fails, or would have to wait.
SendFails ==
  /\ At("sending")
  /\ lines' = Append(lines, ErrorSending)
  /\ request' = NoRequest
  /\ net' = "receive"
  /\ UNCHANGED <<userVars, taken, sent, arrived>>

\* Mutant: the socket is left blocking.
ReceiveNothingNever == At("receive") /\ FALSE /\ UNCHANGED vars

\* recv would have to wait, or fails.
ReceiveNothing ==
  /\ At("receive")
  /\ net' = "command"
  /\ UNCHANGED <<userVars, taken, lines, request, sent, arrived>>

\* Bencode::decode of what fits into the buffer.
Decodes(datagram) == datagram.content # Undecodable

NumberReceived == Cardinality({i \in DOMAIN lines : lines[i].kind = "received"})

Receive(datagram) ==
  /\ At("receive")
  /\ NumberReceived < MaxReceived
  /\ Decodes(datagram)
  /\ lines' = Append(lines, Received(datagram))
  /\ net' = "command"
  /\ UNCHANGED <<userVars, taken, request, sent, arrived>>

\* unwrap panics; both channels lose their end in this thread.
ReceivePanics(datagram) ==
  /\ At("receive")
  /\ ~ Decodes(datagram)
  /\ net' = "panicked"
  /\ UNCHANGED <<userVars, taken, lines, request, sent, arrived>>

networkThread ==
  \/ Bind
  \/ NoCommand
  \/ \E transaction_id \in TransactionIds : TakeCommand(transaction_id)
  \/ SendTo
  \/ SendFails
  \/ ReceiveNothing
  \/ \E datagram \in arrived : Receive(datagram) \/ ReceivePanics(datagram)

-----------------------------------------------------------------------------
\* The other side.

GoAnswers(query) ==
  /\ query.to = GoAddress
  /\ Go!decodeKrpcMessage(query.dict).type = Go!KrpcTypeQuery
  /\ arrived' = arrived \cup {[by |-> "go", content |-> Answer(query)]}
  /\ UNCHANGED <<userVars, netVars>>

OthersSend(content) ==
  /\ arrived' = arrived \cup {[by |-> "others", content |-> content]}
  /\ UNCHANGED <<userVars, netVars>>

Next ==
  \/ \E address \in Addresses : Submit(address)
  \/ End
  \/ Show
  \/ networkThread
  \/ \E query \in sent : GoAnswers(query)
  \/ \E content \in Foreign : OthersSend(content)

\* Both threads run: neither waits for the other, and the socket does not
\* block.  Nothing is assumed of the user, of the network or of other nodes.
Fairness == WF_vars(Show) /\ WF_vars(networkThread)

Spec == Init /\ [][Next]_vars /\ Fairness

-----------------------------------------------------------------------------
\* Properties.

Datagrams == [by : {"go"}, content : {Answer(query) : query \in Queries}]
             \cup [by : {"others"}, content : Foreign]

Lines == {Sending(query) : query \in Queries} \cup {ErrorSending}
         \cup {Received(datagram) : datagram \in Datagrams}

TypeOK ==
  /\ submitted \in Seq(Addresses) /\ taken \in 0 .. Len(submitted)
  /\ lines \in Seq(Lines) /\ shown \in 0 .. Len(lines)
  /\ main \in {"running", "ended"}
  /\ net \in {"starting", "unbound", "command", "sending", "receive", "panicked"}
  /\ request \in Queries \cup {NoRequest}
  /\ sent \subseteq Queries
  /\ arrived \subseteq Datagrams

IsSending(line) == line.kind = "sending"

\* The commands are announced one by one in the order they were submitted,
\* each to its own address, and none is skipped, whatever is received or
\* fails to be sent between them.
CommandsAreAnnouncedInOrder ==
  \E at \in [1 .. taken -> DOMAIN lines] :
    /\ {at[k] : k \in 1 .. taken} = {i \in DOMAIN lines : IsSending(lines[i])}
    /\ \A j, k \in 1 .. taken : j < k => at[j] < at[k]
    /\ \A k \in 1 .. taken : lines[at[k]].query.to = submitted[k]

\* The line that announces a query is followed by "error sending".
HasFailed(i) == i + 1 \in DOMAIN lines /\ lines[i + 1] = ErrorSending

IsAboutToSend(i) == i = Len(lines) /\ net = "sending"

SentBy(i) == IsSending(lines[i]) /\ ~ HasFailed(i) /\ ~ IsAboutToSend(i)

\* The lines tell which queries went out: those announced and not followed by
\* an error.  The error message does not say of which query it is; the lines
\* of what is received meanwhile must not come between.
LinesTellWhatWasSent ==
  sent = {lines[i].query : i \in {j \in DOMAIN lines : SentBy(j)}}

\* What is received from the Go node comes after the line of a query that
\* went out to it, carries the transaction id of that query, and would be
\* handled as an error (krpc_handle): Go knows no find_node.
AnswersFollowTheirQuery ==
  \A i \in DOMAIN lines :
    lines[i].kind = "received" /\ lines[i].datagram.by = "go" =>
      LET content == lines[i].datagram.content
      IN  /\ \E j \in 1 .. i - 1 :
               /\ SentBy(j)
               /\ lines[j].query.to = GoAddress
               /\ lines[j].query.dict["t"] = content["t"]
          /\ Rust!krpc_handle(Dict(content)) = Rust!Ok("krpc_on_error")

\* Every line written is shown while the program runs, also when the thread
\* that wrote it has panicked since, or was about to write more: its end of the
\* channel is gone, what it sent is not.
EveryLineIsShown ==
  \A n \in 1 .. 2 * MaxCommands + MaxReceived :
    Len(lines) >= n ~> shown >= n \/ main = "ended"

NumberAnnounced ==
  Cardinality({i \in 1 .. shown : IsSending(lines[i])})

\* Every command the channel took is announced to the user, unless a thread
\* ended: the network thread does not wait for datagrams that never come.  A
\* command submitted to a dead thread is lost, and so is all that is under way
\* when the program ends.
EveryCommandIsAnnounced ==
  \A n \in 1 .. MaxCommands :
    Len(submitted) >= n ~> NumberAnnounced >= n \/ NetEnded \/ main = "ended"

=============================================================================
