----------------------------- MODULE GoBencode -----------------------------
(***************************************************************************)
(* The decoder of the Go node (go/bencode.go).  The scanner is the input   *)
(* and the number of bytes already accepted; a decoder takes both and      *)
(* returns a result as BencodeValues describes it.                         *)
(***************************************************************************)
EXTENDS BencodeValues

\* An int of the machine: sums wrap around.
Wrapped(n) == ((n - MinInt) % (MaxInt - MinInt + 1)) + MinInt

\* Mutant: what follows the length is sliced without a look at its end.
acceptRunUnchecked(input, position, length) ==
  LET end == Wrapped(position + length)
  IN  IF end > Len(input) \/ end < position THEN Panic
      ELSE Decoded(String(SubSeq(input, position + 1, end)), end)

\* scanner.acceptRun.  When the sum wraps, the bounds of the slice are the
\* wrong way round.
acceptRun(input, position, length) ==
  LET end == Wrapped(position + length)
  IN  IF end > Len(input) THEN Error(Len(input))
      ELSE IF end < position THEN Panic
      ELSE Decoded(String(SubSeq(input, position + 1, end)), end)

\* The sign is not given to strconv.Atoi, which therefore refuses the
\* magnitude of the smallest integer.
parseInteger(input, position) ==
  LET sign      == peek(input, position)
      start     == IF sign \in {"-", "+"} THEN position + 1 ELSE position
      end       == DigitsEnd(input, start)
      magnitude == Number(SubSeq(input, start + 1, end))
  IN  IF end = start \/ magnitude > MaxInt THEN Error(start)
      ELSE Decoded(IF sign = "-" THEN - magnitude ELSE magnitude, end)

decodeInteger(input, position) ==
  LET n == parseInteger(input, position + 1)
  IN  IF ~ IsDecoded(n) THEN n
      ELSE IF peek(input, n.position) # "e" THEN Error(n.position)
      ELSE Decoded(Integer(n.value), n.position + 1)

decodeString(input, position) ==
  LET n == parseInteger(input, position)
  IN  IF ~ IsDecoded(n) THEN n
      ELSE IF n.value < 0 THEN Error(position)
      ELSE IF peek(input, n.position) # ":" THEN Error(n.position)
      ELSE acceptRun(input, n.position + 1, n.value)

\* What decodeScannerBencodeValue and the loops of decodeList and decodeDict
\* return, `at` being what they return at the positions after theirs.

\* What is not a list, a dictionary or an integer is taken for a string.
decodeScannerBencodeValue(input, position, at) ==
  CASE position >= Len(input)      -> Error(position)
    [] peek(input, position) = "i" -> decodeInteger(input, position)
    [] peek(input, position) = "l" -> at["list", position + 1]
    [] peek(input, position) = "d" -> at["dict", position + 1]
    [] OTHER                       -> decodeString(input, position)

\* A value, and the list of those that the loop appends after it.
decodeList(input, position, at) ==
  LET value == at["value", position]
      rest  == at["list", value.position]
  IN  IF peek(input, position) = "e" THEN Decoded(List(<<>>), position + 1)
      ELSE IF ~ IsDecoded(value) THEN value
      ELSE IF ~ IsDecoded(rest) THEN rest
      ELSE Decoded(List(<<value.value>> \o rest.value.list), rest.position)

\* Mutant: the first of equal keys wins.
AssignedOnce(key, value, rest) == (key :> value) @@ rest

\* result[string(key)] = value, before the entries of the rest are assigned.
Assigned(key, value, rest) == rest @@ (key :> value)

decodeDict(input, position, at) ==
  LET key   == decodeString(input, position)
      value == at["value", key.position]
      rest  == at["dict", value.position]
  IN  IF peek(input, position) = "e" THEN Decoded(Dict(<<>>), position + 1)
      ELSE IF ~ IsDecoded(key) THEN key
      ELSE IF ~ IsDecoded(value) THEN value
      ELSE IF ~ IsDecoded(rest) THEN rest
      ELSE Decoded(Dict(Assigned(key.value.string, value.value, rest.value.dict)),
                   rest.position)

decodeAt(input) ==
  LET at[x \in {"value", "list", "dict"} \X (0 .. Len(input))] ==
        CASE x[1] = "value" -> decodeScannerBencodeValue(input, x[2], at)
          [] x[1] = "list"  -> decodeList(input, x[2], at)
          [] x[1] = "dict"  -> decodeDict(input, x[2], at)
  IN  at

decodeBencodeValue(input) == decodeAt(input)["value", 0]

=============================================================================
