---------------------------- MODULE RustBencode ----------------------------
(***************************************************************************)
(* The decoder of the Rust program (rust/src/bencode.rs).  The cursor is   *)
(* the input and the number of bytes already taken.                        *)
(***************************************************************************)
EXTENDS BencodeValues

\* Every digit is added with its sign and checked, so that the result is in
\* range exactly when the whole number is.
parse_int(input, position) ==
  LET sign      == peek(input, position)
      start     == IF sign \in {"-", "+"} THEN position + 1 ELSE position
      end       == DigitsEnd(input, start)
      magnitude == Number(SubSeq(input, start + 1, end))
      result    == IF sign = "-" THEN - magnitude ELSE magnitude
  IN  IF ~ IsDigit(peek(input, start)) \/ result \notin MinInt .. MaxInt
      THEN Error(start)
      ELSE Decoded(result, end)

decode_int(input, position) ==
  LET n == parse_int(input, position + 1)
  IN  IF ~ IsDecoded(n) THEN n
      ELSE IF peek(input, n.position) # "e" THEN Error(n.position)
      ELSE Decoded(Integer(n.value), n.position + 1)

\* A negative length becomes one that is larger than any input.
decode_bytestring(input, position) ==
  LET n    == parse_int(input, position)
      from == n.position + 1
  IN  IF ~ IsDecoded(n) THEN n
      ELSE IF peek(input, n.position) # ":" THEN Error(n.position)
      ELSE IF n.value < 0 THEN Error(position)
      ELSE IF Len(input) - from < n.value THEN Error(Len(input))
      ELSE Decoded(String(SubSeq(input, from + 1, from + n.value)), from + n.value)

\* `at` is what the decoders return at the positions after theirs; decode_list
\* and decode_dict stand for their loops, from wherever these have come to.

\* A value that is a byte string starts with a digit; as a key of a
\* dictionary it may start with a sign.
decode_value(input, position, at) ==
  LET byte == peek(input, position)
  IN  CASE byte = "i"    -> decode_int(input, position)
        [] IsDigit(byte) -> decode_bytestring(input, position)
        [] byte = "l"    -> at["list", position + 1]
        [] byte = "d"    -> at["dict", position + 1]
        [] OTHER         -> Error(position)

decode_list(input, position, at) ==
  LET value == at["value", position]
      rest  == at["list", value.position]
  IN  IF peek(input, position) = "e" THEN Decoded(List(<<>>), position + 1)
      ELSE IF ~ IsDecoded(value) THEN value
      ELSE IF ~ IsDecoded(rest) THEN rest
      ELSE Decoded(List(<<value.value>> \o rest.value.list), rest.position)

\* A later entry with the same key replaces this one.
decode_dict(input, position, at) ==
  LET key   == decode_bytestring(input, position)
      value == at["value", key.position]
      rest  == at["dict", value.position]
  IN  IF peek(input, position) = "e" THEN Decoded(Dict(<<>>), position + 1)
      ELSE IF ~ IsDecoded(key) THEN key
      ELSE IF ~ IsDecoded(value) THEN value
      ELSE IF ~ IsDecoded(rest) THEN rest
      ELSE Decoded(Dict(rest.value.dict @@ (key.value.string :> value.value)),
                   rest.position)

decode_at(input) ==
  LET at[x \in {"value", "list", "dict"} \X (0 .. Len(input))] ==
        CASE x[1] = "value" -> decode_value(input, x[2], at)
          [] x[1] = "list"  -> decode_list(input, x[2], at)
          [] x[1] = "dict"  -> decode_dict(input, x[2], at)
  IN  at

decode(input) == decode_at(input)["value", 0]

=============================================================================
