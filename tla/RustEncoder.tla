---------------------------- MODULE RustEncoder ----------------------------
(***************************************************************************)
(* The encoder of the Rust program (rust/src/bencode.rs).                  *)
(***************************************************************************)
EXTENDS BencodeEncoding

\* Bencode::encode.  A BTreeMap is iterated in the order of its keys.
RECURSIVE encode(_)
encode(v) ==
  CASE v.kind = "string"  -> Numeral(Len(v.string)) \o <<":">> \o v.string
    [] v.kind = "integer" -> <<"i">> \o Numeral(v.integer) \o <<"e">>
    [] v.kind = "list"    ->
         <<"l">> \o FlattenSeq([k \in DOMAIN v.list |-> encode(v.list[k])]) \o <<"e">>
    [] v.kind = "dict"    ->
         LET keys == SortedKeys(v.dict)
         IN  <<"d">> \o FlattenSeq([k \in DOMAIN keys |->
                          encode(String(keys[k])) \o encode(v.dict[keys[k]])])
             \o <<"e">>

=============================================================================
