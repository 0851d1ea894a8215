-------------------------- MODULE BencodeEncoding --------------------------
(***************************************************************************)
(* What both encoders take from their libraries: numbers as text, and the  *)
(* order of keys.                                                          *)
(***************************************************************************)
EXTENDS BencodeValues

\* fmt in go, to_string in rust.
RECURSIVE Numeral(_)
Numeral(n) ==
  IF n < 0 THEN <<"-">> \o Numeral(-n)
  ELSE IF n < Len(Digits) THEN <<Digits[n + 1]>>
  ELSE Append(Numeral(n \div Len(Digits)), Digits[(n % Len(Digits)) + 1])

\* The keys of a dictionary in the order of their bytes: sort.Strings in go,
\* the order of a BTreeMap in rust.
Code(byte) == CHOOSE k \in DOMAIN Bytes : Bytes[k] = byte

Before(s, t) ==
  \/ s # t /\ IsPrefix(s, t)
  \/ \E k \in DOMAIN s \cap DOMAIN t :
       /\ \A j \in 1 .. k - 1 : s[j] = t[j]
       /\ Code(s[k]) < Code(t[k])

SortedKeys(d) == SetToSortSeq(DOMAIN d, Before)

=============================================================================
