----------------------------- MODULE GoEncoder -----------------------------
(***************************************************************************)
(* The encoder of the Go node (go/bencode.go).                             *)
(***************************************************************************)
EXTENDS BencodeEncoding

\* Mutant: an order of its own, as a map is iterated without sort.Strings.
keysUnsorted(d) == Reverse(SortedKeys(d))

keys(d) == SortedKeys(d)

RECURSIVE encode(_)
encode(v) ==
  CASE v.kind = "integer" -> <<"i">> \o Numeral(v.integer) \o <<"e">>
    [] v.kind = "string"  -> Numeral(Len(v.string)) \o <<":">> \o v.string
    [] v.kind = "list"    ->
         <<"l">> \o FlattenSeq([k \in DOMAIN v.list |-> encode(v.list[k])]) \o <<"e">>
    [] v.kind = "dict"    ->
         <<"d">> \o FlattenSeq([k \in DOMAIN keys(v.dict) |->
                       encode(String(keys(v.dict)[k]))
                       \o encode(v.dict[keys(v.dict)[k]])])
         \o <<"e">>

=============================================================================
