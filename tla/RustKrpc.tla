------------------------------ MODULE RustKrpc ------------------------------
(***************************************************************************)
(* The messages of the Rust program (rust/src/main.rs): the query it       *)
(* builds, and the functions that take a received message apart.  Those    *)
(* return Ok with a value or Err.                                          *)
(***************************************************************************)
EXTENDS BencodeData, Integers, Sequences

CONSTANT IdLength      \* bytes of a NodeId, 20 in the code

Err       == [outcome |-> "Err"]
Ok(value) == [outcome |-> "Ok", value |-> value]
IsOk(result) == result.outcome = "Ok"

-----------------------------------------------------------------------------
\* mod node_id.

from_slice(s) == IF Len(s) # IdLength THEN Err ELSE Ok(s)

\* The chunks that are complete; a rest at the end is dropped.
multiple_from_vec(v) ==
  Ok([k \in 1 .. Len(v) \div IdLength |->
        SubSeq(v, (k - 1) * IdLength + 1, k * IdLength)])

-----------------------------------------------------------------------------
\* client_version is <<>> for None, or a sequence of the one byte string.
krpc_request(transaction_id, method, args, client_version) ==
  LET dict == [t |-> String(transaction_id), y |-> String(<<"q">>),
               q |-> String(method), a |-> Dict(args)]
  IN  [key \in DOMAIN dict \cup (IF client_version = <<>> THEN {} ELSE {"v"}) |->
         IF key = "v" THEN String(client_version[1]) ELSE dict[key]]

\* Mutant: the responder is looked for beside the return values.
responder_id_beside(dict) ==
  IF Has(dict, "id", "string") THEN from_slice(dict["id"].string) ELSE Err

responder_id(dict) ==
  LET return_values == dict["r"].dict
  IN  IF Has(return_values, "id", "string")
      THEN from_slice(return_values["id"].string) ELSE Err

\* FindNodeResponse::from_bencode.  It does not look at the type.  The client
\* version is kept as the bytes it has; the code replaces what is not UTF-8.
from_bencode(dict) ==
  IF \/ ~ Has(dict, "t", "string")
     \/ ~ Has(dict, "r", "dict")
     \/ ~ IsOk(responder_id(dict))
     \/ ~ Has(dict["r"].dict, "nodes", "string")
  THEN Err
  ELSE Ok([transaction_id |-> dict["t"].string,
           client_version |-> IF Has(dict, "v", "string")
                              THEN <<dict["v"].string>> ELSE <<>>,
           responder_id   |-> responder_id(dict).value,
           node_ids       |-> multiple_from_vec(dict["r"].dict["nodes"].string).value])

\* krpc_handle: which function gets the message.  It looks at the type only.
krpc_handle(bencode) ==
  IF bencode.kind # "dict" \/ ~ Has(bencode.dict, "y", "string") THEN Err
  ELSE CASE bencode.dict["y"].string = <<"r">> -> Ok("krpc_on_return")
         [] bencode.dict["y"].string = <<"e">> -> Ok("krpc_on_error")
         [] OTHER                              -> Err

=============================================================================
