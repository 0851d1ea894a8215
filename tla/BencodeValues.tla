--------------------------- MODULE BencodeValues ---------------------------
(***************************************************************************)
(* The values that both programs encode as bencode (go/bencode.go and      *)
(* rust/src/bencode.rs), the bytes they are written with, and what a       *)
(* decoder returns.  A datagram is a sequence of bytes, a byte one of the  *)
(* few that the encoding gives a meaning, or one more.  Integers have      *)
(* IntBits bits, 64 in the code, and are written to the base Len(Digits),  *)
(* 10 in the code.                                                         *)
(***************************************************************************)
EXTENDS BencodeData, Integers, Sequences, FiniteSets, TLC, SequencesExt

CONSTANTS
  Digits,          \* the digits, in the order of their values
  Bytes,           \* all bytes, in the order of their codes
  IntBits          \* width of bencodeInt and of i64

\* The bytes that the encoding gives a meaning.
Specials == {"+", "-", ":", "d", "e", "i", "l"}

ASSUME BytesAssumption ==
  IsInjective(Bytes) /\ Specials \subseteq ToSet(Bytes) /\ "eof" \notin ToSet(Bytes)

ASSUME DigitsAssumption ==
  /\ Digits \in Seq(ToSet(Bytes) \ Specials)
  /\ IsInjective(Digits) /\ Len(Digits) >= 2

ASSUME WidthAssumption == IntBits \in Nat \ {0}

MaxInt == 2 ^ (IntBits - 1) - 1
MinInt == - (2 ^ (IntBits - 1))

-----------------------------------------------------------------------------
\* Numbers as text: strconv in go, parse_int in rust.

IsDigit(byte) == byte \in ToSet(Digits)

DigitValue(byte) == (CHOOSE k \in DOMAIN Digits : Digits[k] = byte) - 1

\* upto[k] is the number that the first k digits are read as.
Number(digits) ==
  LET upto[k \in 0 .. Len(digits)] ==
        IF k = 0 THEN 0 ELSE upto[k - 1] * Len(Digits) + DigitValue(digits[k])
  IN  upto[Len(digits)]

-----------------------------------------------------------------------------
\* What a decoder returns: a value and how many bytes were read, or an error
\* and how many bytes were in order.  `panic` ends the program.

Decoded(value, position) ==
  [outcome |-> "value", value |-> value, position |-> position]
Error(position) == [outcome |-> "error", position |-> position]
Panic           == [outcome |-> "panic"]

IsDecoded(result) == result.outcome = "value"

\* The byte after the first `position` ones, or "eof" at the end of the input.
peek(input, position) ==
  IF position >= Len(input) THEN "eof" ELSE input[position + 1]

\* The end of the run of digits that starts after `position` bytes.
DigitsEnd(input, position) ==
  CHOOSE end \in position .. Len(input) :
    /\ \A k \in position + 1 .. end : IsDigit(input[k])
    /\ ~ IsDigit(peek(input, end))

=============================================================================
