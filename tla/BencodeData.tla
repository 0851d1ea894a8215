---------------------------- MODULE BencodeData ----------------------------
(***************************************************************************)
(* The values that both programs exchange: bencodeValue of go/bencode.go,  *)
(* Bencode of rust/src/bencode.rs.  A dictionary is a function from its    *)
(* keys to values.                                                         *)
(***************************************************************************)

Integer(n) == [kind |-> "integer", integer |-> n]
String(s)  == [kind |-> "string", string |-> s]
List(l)    == [kind |-> "list", list |-> l]
Dict(d)    == [kind |-> "dict", dict |-> d]

\* `data[key].(bencodeString)` and its like in go, the patterns of a match on
\* `dict.remove(key)` in rust: the key is there, with a value of that kind.
Has(data, key, kind) == key \in DOMAIN data /\ data[key].kind = kind

=============================================================================
