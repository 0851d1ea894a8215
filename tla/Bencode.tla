------------------------------ MODULE Bencode ------------------------------
(***************************************************************************)
(* The two decoders of bencode side by side: each is the reference for the *)
(* other.  A behaviour spells a datagram out of short pieces, as long as   *)
(* one of the decoders misses some bytes, so that the states are the       *)
(* datagrams of bounded length, complete, truncated and wrong ones.        *)
(***************************************************************************)
EXTENDS GoBencode, RustBencode

CONSTANTS
  Pieces,          \* sequences of bytes
  MaxPieces,       \* bound: how many of them a datagram consists of
  MaxLength        \* bound: how many bytes a datagram has

ASSUME PiecesAssumption == Pieces \subseteq Seq(ToSet(Bytes))

\* Positions in a datagram are numbers of IntBits bits.
ASSUME LengthAssumption == MaxLength \in Nat /\ MaxLength <= MaxInt

VARIABLES
  datagram,        \* the bytes spelt so far
  pieces           \* the number of pieces they were spelt with

vars == <<datagram, pieces>>

goResult   == decodeBencodeValue(datagram)
rustResult == decode(datagram)

TypeOK ==
  /\ datagram \in Seq(ToSet(Bytes))
  /\ Len(datagram) <= MaxLength

MissesBytes(result) ==
  result.outcome = "error" /\ result.position = Len(datagram)

Init == datagram = <<>> /\ pieces = 0

\* A decoder misses bytes.
Incomplete ==
  /\ pieces < MaxPieces
  /\ MissesBytes(goResult) \/ MissesBytes(rustResult)

Spell(piece) ==
  /\ Len(datagram) + Len(piece) <= MaxLength
  /\ datagram' = datagram \o piece
  /\ pieces' = pieces + 1

Next == Incomplete /\ \E piece \in Pieces : Spell(piece)

Spec == Init /\ [][Next]_vars

-----------------------------------------------------------------------------
\* Properties.

\* A smallest integer is written in the input, and Go, which reads its
\* magnitude first, stops there.
StopsAtMinInt(input, result) ==
  \E p \in 0 .. Len(input) :
    LET n == decode_int(input, p)
    IN  /\ peek(input, p) = "i"
        /\ IsDecoded(n) /\ n.value = Integer(MinInt)
        /\ result = Error(p + 2)

\* A string with a sign before its length is no value for Rust.
StopsAtSign(input, result) ==
  \E p \in 0 .. Len(input) : peek(input, p) \in {"+", "-"} /\ result = Error(p)

Agreed(input, go, rust) ==
  /\ IsDecoded(rust) => go = rust \/ StopsAtMinInt(input, go)
  /\ IsDecoded(go) => rust = go \/ StopsAtSign(input, rust)

\* What one of the decoders reads the other reads as the same value, from the
\* same bytes, or it stops at one of the two things that only one of them
\* takes: decode_value a smallest integer, decodeScannerBencodeValue a string
\* with a sign.  It is parseInteger against parse_int, and the order of the
\* checks, of equal keys and of nested ends in both decoders.
DecodersAgree == Agreed(datagram, goResult, rustResult)

\* A length is written in the input that is too large to be added to the
\* position of the string it is the length of.
LengthWraps(input) ==
  \E p \in 0 .. Len(input) :
    LET n == parseInteger(input, p)
    IN  /\ IsDecoded(n) /\ peek(input, n.position) = ":"
        /\ n.position + 1 + n.value > MaxInt

\* Where Go panics, a length wraps, and Rust takes the input for one that ends
\* within a string, or stops at a sign.
PanicsAtWrap(input, go, rust) ==
  go = Panic =>
    LengthWraps(input) /\ (rust = Error(Len(input)) \/ StopsAtSign(input, rust))

\* The Go decoder panics (bencode.go:55-59, with no recover around it) on
\* nothing but such a length, wherever in a datagram it is: every other wrong
\* datagram ends in an error, which receiveMessages logs.  To the Rust decoder
\* the same datagram is a truncated or a signed one.
OnlyWrappedLengthsPanic == PanicsAtWrap(datagram, goResult, rustResult)

=============================================================================
