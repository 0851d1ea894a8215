--------------------------- MODULE BencodeSending ---------------------------
(***************************************************************************)
(* Both decoders and both encoders: what was decoded is sent on.           *)
(***************************************************************************)
EXTENDS Bencode

GoSends   == INSTANCE GoEncoder
RustSends == INSTANCE RustEncoder

\* The smallest integer occurs in a value.
RECURSIVE HasMinInt(_)
HasMinInt(v) ==
  CASE v.kind = "integer" -> v.integer = MinInt
    [] v.kind = "string"  -> FALSE
    [] v.kind = "list"    -> \E k \in DOMAIN v.list : HasMinInt(v.list[k])
    [] v.kind = "dict"    -> \E key \in DOMAIN v.dict : HasMinInt(v.dict[key])

\* What one program decoded and sends on is read back as it was by both
\* decoders, to the last byte, by whichever of them it was encoded; the
\* smallest integer, which Go never decodes, is excepted.
DecodedValuesCanBeSentOn ==
  \A result \in {goResult, rustResult} :
    IsDecoded(result) =>
      LET sent == GoSends!encode(result.value)
          read == Decoded(result.value, Len(sent))
      IN  /\ RustSends!encode(result.value) = sent
          /\ decode(sent) = read
          /\ HasMinInt(result.value) \/ decodeBencodeValue(sent) = read

=============================================================================
