------------------------------ MODULE NodeIds ------------------------------
(***************************************************************************)
(* Node identifiers and the metric the routing tables sort them by.  Both  *)
(* programs of the repository use 20-byte identifiers; an identifier is    *)
(* modelled as the sequence of its bits, bit 0 the most significant one,   *)
(* and IdBits is 160 in the code.                                          *)
(***************************************************************************)
EXTENDS Integers, FiniteSets

CONSTANT IdBits          \* number of bits of an identifier

ASSUME IdBitsAssumption == IdBits \in Nat \ {0}

BitIndex == 0 .. IdBits - 1

NodeId == [BitIndex -> {0, 1}]

isBitSet(id, index) == id[index] = 1

isEqual(id, other) == id = other

(***************************************************************************)
(* go: the bytes are skipped while equal, then the leading equal bits of   *)
(* the first differing byte are added.                                     *)
(***************************************************************************)
commonPrefixLength(a, b) ==
  CHOOSE n \in 0 .. IdBits :
    /\ \A j \in 0 .. n - 1 : a[j] = b[j]
    /\ n < IdBits => a[n] # b[n]

(***************************************************************************)
(* rust: the number of leading zero bits of the XOR of the identifiers.    *)
(***************************************************************************)
distance(a, b) == [i \in BitIndex |-> IF a[i] = b[i] THEN 0 ELSE 1]

common_prefix_length(a, b) ==
  LET d    == distance(a, b)
      ones == {i \in BitIndex : d[i] = 1}
  IN  IF ones = {} THEN IdBits ELSE CHOOSE i \in ones : \A j \in ones : i <= j

-----------------------------------------------------------------------------

(***************************************************************************)
(* x is strictly closer to the target than y: at the first bit where x and *)
(* y differ, x agrees with the target, so the XOR distance of x is the     *)
(* smaller number.  Used by the properties of the find operations only.    *)
(***************************************************************************)
Closer(x, y, target) ==
  /\ x # y
  /\ LET n == commonPrefixLength(x, y) IN x[n] = target[n]

=============================================================================
