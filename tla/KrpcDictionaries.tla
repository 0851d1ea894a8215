-------------------------- MODULE KrpcDictionaries --------------------------
(***************************************************************************)
(* What the two programs make of the same dictionary: decodeKrpcMessage of *)
(* Go, FindNodeResponse::from_bencode and krpc_handle of Rust.  A          *)
(* behaviour adds entries to a dictionary, so that the states are the      *)
(* dictionaries with the entries given, complete, incomplete and wrong     *)
(* ones: messages of all types and what only resembles them.               *)
(***************************************************************************)
EXTENDS BencodeData, Integers, Sequences

CONSTANTS
  IdLength,
  ThisId,          \* the identifier of the Go node
  Entries          \* for each key, the values that may stand under it

ASSUME DictionariesAssumption == IdLength \in Nat \ {0} /\ Len(ThisId) = IdLength

VARIABLE data

Go   == INSTANCE KrpcMessages
Rust == INSTANCE RustKrpc

Init == data = [key \in {} |-> String(<<>>)]

Put(key, value) ==
  /\ key \notin DOMAIN data
  /\ data' = [k \in DOMAIN data \cup {key} |-> IF k = key THEN value ELSE data[k]]

Next == \E key \in DOMAIN Entries : \E value \in Entries[key] : Put(key, value)

Spec == Init /\ [][Next]_data

-----------------------------------------------------------------------------
\* Properties.

goMessage    == Go!decodeKrpcMessage(data)
rustResponse == Rust!from_bencode(data)
rustHandler  == Rust!krpc_handle(Dict(data))

\* What Go takes for an answer, Rust takes for an answer of the same kind.
\* from_bencode looks at what krpc_handle does not and the other way round:
\* what passes both, Go takes for a response of the same node to the same
\* query.
AnswersMeanTheSame ==
  /\ goMessage.type = Go!KrpcTypeReply => rustHandler = Rust!Ok("krpc_on_return")
  /\ goMessage.type = Go!KrpcTypeError => rustHandler = Rust!Ok("krpc_on_error")
  /\ rustHandler = Rust!Ok("krpc_on_return") /\ Rust!IsOk(rustResponse) =>
       /\ goMessage.type = Go!KrpcTypeReply
       /\ goMessage.transactionId = rustResponse.value.transaction_id
       /\ Go!HasId(goMessage.returnValues)
       /\ goMessage.returnValues["id"].string = rustResponse.value.responder_id

\* Every query, whatever its arguments, gets an answer that can be told to be
\* one and to be of that query: by Go, which would hand it to the call that
\* waits (krpc_runtime.go:125), and by krpc_handle of Rust.
QueriesGetTheirAnswer ==
  goMessage.type = Go!KrpcTypeQuery =>
    LET answer == Go!encode(Go!handleQuery(ThisId, goMessage))
        read   == Go!decodeKrpcMessage(answer)
    IN  /\ read.type \in {Go!KrpcTypeReply, Go!KrpcTypeError}
        /\ read.transactionId = goMessage.transactionId
        /\ Rust!IsOk(Rust!krpc_handle(Dict(answer)))
        /\ read.type = Go!KrpcTypeReply => Go!HasId(read.returnValues)

=============================================================================
