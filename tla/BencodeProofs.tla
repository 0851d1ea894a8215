--------------------------- MODULE BencodeProofs ---------------------------
(***************************************************************************)
(* The two decoders of bencode read the same, for every base, every width  *)
(* of integers and every datagram that fits one.                           *)
(*                                                                         *)
(* A decoder is a recursive function of what is decoded and where.  That   *)
(* there is one, which reads on whenever it decodes something, follows     *)
(* from a number that falls from each call to those it makes; and so does  *)
(* what relates the two decoders, once it holds of a call whenever it      *)
(* holds of the calls it makes.                                            *)
(***************************************************************************)
EXTENDS Bencode, FiniteSetTheorems, SequenceTheorems, TLAPS

Loops == INSTANCE NodeIdsProofs WITH IdBits <- IntBits

\* What is known of loops of N iterations, whatever the width of identifiers.
LEMMA CountingUp ==
  ASSUME NEW N \in Nat, NEW G, 0 \in G, \A n \in 1 .. N : n - 1 \in G => n \in G
  PROVE  \A n \in 0 .. N : n \in G
BY Loops!CountingUp, WidthAssumption

LEMMA IterationExists ==
  ASSUME NEW N \in Nat, NEW step \in Loops!Steps(N, Nat)
  PROVE  \E f \in [0 .. N -> Nat] :
           f[0] = 0 /\ \A n \in 1 .. N : f[n] = step[n][f[n - 1]]
<1>1. PICK V : V = Nat
  OBVIOUS
<1>2. PICK zero : zero = 0
  OBVIOUS
<1>3. zero \in V /\ step \in Loops!Steps(N, V)
  BY <1>1, <1>2
<1>4. \E f \in [0 .. N -> V] :
        f[0] = zero /\ \A n \in 1 .. N : f[n] = step[n][f[n - 1]]
  BY <1>3, Loops!IterationExists, WidthAssumption
<1> QED
  BY <1>1, <1>2, <1>4

\* A datagram that the theorems are about.
IsInput(input) == input \in Seq(ToSet(Bytes)) /\ Len(input) <= MaxInt

-----------------------------------------------------------------------------
\* Results.

LEMMA ResultFacts ==
  /\ \A v, p : /\ IsDecoded(Decoded(v, p))
               /\ Decoded(v, p).value = v /\ Decoded(v, p).position = p
  /\ \A p : ~ IsDecoded(Error(p)) /\ Error(p).position = p
  /\ ~ IsDecoded(Panic)
BY DEF IsDecoded, Decoded, Error, Panic

LEMMA IntFacts ==
  MaxInt \in Nat /\ MinInt \in Int /\ MinInt = - MaxInt - 1
<1> DEFINE n == IntBits - 1
           S == 1 .. n
<1>1. IsFiniteSet(S) /\ Cardinality(S) = n
  <2>1. n \in Nat
    BY WidthAssumption
  <2> HIDE DEF n
  <2> QED
    BY <2>1, FS_Interval
<1>2. 2 ^ n \in Int
  <2>1. Cardinality(SUBSET S) = 2 ^ n /\ Cardinality(SUBSET S) \in Nat
    <3> HIDE DEF S, n
    <3> QED
      BY <1>1, FS_SUBSET, FS_CardinalityType
  <2> QED
    BY <2>1
<1> QED
  BY <1>2, LengthAssumption DEF MaxInt, MinInt

\* An int that is in range is left as it is, and one that is too large by less
\* than the range is negative.
LEMMA WrappedFacts ==
  ASSUME NEW n \in Int
  PROVE  /\ 0 <= n /\ n <= MaxInt => Wrapped(n) = n
         /\ MaxInt < n /\ n <= 2 * MaxInt => Wrapped(n) \in Int /\ Wrapped(n) < 0
<1> DEFINE M == 2 * MaxInt + 2
           k == n + MaxInt + 1
<1>1. Wrapped(n) = (k % M) - MaxInt - 1 /\ M \in Nat /\ M > 0 /\ k \in Int
  BY IntFacts DEF Wrapped
<1>2. ASSUME 0 <= n, n <= MaxInt PROVE k % M = k
  <2>1. 0 <= k /\ k < M
    BY <1>2, IntFacts
  <2> HIDE DEF k, M
  <2> QED
    BY <1>1, <2>1
<1>3. ASSUME MaxInt < n, n <= 2 * MaxInt PROVE k % M = k - M
  <2>1. M <= k /\ k < 2 * M
    BY <1>3, IntFacts
  <2> HIDE DEF k, M
  <2> QED
    BY <1>1, <2>1
<1> QED
  BY <1>1, <1>2, <1>3, IntFacts

\* The bytes that are read: none of those that mean something is a digit, and
\* at the end of the input there is none.
LEMMA ByteFacts ==
  /\ ~ IsDigit("eof") /\ "eof" \notin Specials
  /\ \A byte \in Specials : ~ IsDigit(byte)
  /\ \A byte : IsDigit(byte) => DigitValue(byte) \in Nat
<1>1. /\ ToSet(Digits) = {Digits[k] : k \in DOMAIN Digits}
      /\ \A k \in DOMAIN Digits : k \in Nat \ {0} /\ Digits[k] \in ToSet(Bytes) \ Specials
  BY DigitsAssumption DEF ToSet
<1>2. ASSUME NEW byte, IsDigit(byte) PROVE DigitValue(byte) \in Nat
  <2>1. \E k \in DOMAIN Digits : Digits[k] = byte
    BY <1>1, <1>2 DEF IsDigit
  <2>2. (CHOOSE k \in DOMAIN Digits : Digits[k] = byte) \in DOMAIN Digits
    BY <2>1
  <2> QED
    BY <1>1, <2>2 DEF DigitValue
<1>3. \A byte : IsDigit(byte) => byte \in ToSet(Bytes) /\ byte \notin Specials
  BY <1>1 DEF IsDigit
<1> QED
  BY <1>2, <1>3, BytesAssumption DEF Specials

-----------------------------------------------------------------------------
\* Numbers as text.

LEMMA PeekFacts ==
  ASSUME NEW input, IsInput(input), NEW p \in 0 .. Len(input)
  PROVE  /\ p = Len(input) => peek(input, p) = "eof"
         /\ p < Len(input) => peek(input, p) = input[p + 1]
         /\ IsDigit(peek(input, p)) \/ peek(input, p) \in Specials => p < Len(input)
<1>1. Len(input) \in Nat
  BY DEF IsInput
<1>2. p = Len(input) => peek(input, p) = "eof"
  BY <1>1 DEF peek
<1>3. p < Len(input) => peek(input, p) = input[p + 1]
  BY <1>1 DEF peek
<1>4. ~ (p < Len(input)) => p = Len(input)
  BY <1>1
<1> QED
  BY <1>2, <1>3, <1>4, ByteFacts

LEMMA DigitsEndFacts ==
  ASSUME NEW input, IsInput(input), NEW p \in 0 .. Len(input)
  PROVE  LET end == DigitsEnd(input, p)
         IN  /\ end \in Nat /\ p <= end /\ end <= Len(input)
             /\ \A k \in p + 1 .. end : IsDigit(input[k])
             /\ ~ IsDigit(peek(input, end))
<1> DEFINE L == Len(input)
           Run(end) == /\ \A k \in p + 1 .. end : IsDigit(input[k])
                       /\ ~ IsDigit(peek(input, end))
           Longer == {n \in 0 .. L - p : \A k \in p + 1 .. p + n : IsDigit(input[k])}
<1>1. L \in Nat /\ p \in Nat /\ p <= L
  BY DEF IsInput
<1>2. ~ IsDigit(peek(input, L))
  BY <1>1, PeekFacts, ByteFacts
<1>3. \E end \in p .. L : Run(end)
  <2> SUFFICES ASSUME \A end \in p .. L : ~ Run(end) PROVE FALSE
    OBVIOUS
  <2>1. 0 \in Longer
    BY <1>1
  <2>2. ASSUME NEW n \in 1 .. L - p, n - 1 \in Longer PROVE n \in Longer
    <3> DEFINE end == p + n - 1
    <3>1. /\ end \in p .. L /\ end < L
          /\ \A k \in p + 1 .. end : IsDigit(input[k])
      BY <1>1, <2>2
    <3>2. IsDigit(peek(input, end))
      BY <3>1
    <3>3. IsDigit(input[p + n])
      BY <1>1, <3>1, <3>2 DEF peek
    <3> QED
      BY <1>1, <3>1, <3>3
  <2>3. PICK N \in Nat : N = L - p
    BY <1>1
  <2>4. \A n \in 0 .. N : n \in Longer
    <3>1. \A n \in 1 .. N : n - 1 \in Longer => n \in Longer
      BY <2>2, <2>3
    <3> HIDE DEF Longer
    <3> QED
      BY <2>1, <3>1, CountingUp
  <2>5. N \in Longer /\ p + N = L
    <3>1. N \in 0 .. N /\ p + N = L
      BY <1>1, <2>3
    <3> HIDE DEF Longer
    <3> QED
      BY <2>4, <3>1
  <2>6. \A k \in p + 1 .. L : IsDigit(input[k])
    BY <2>5
  <2> QED
    BY <1>1, <1>2, <2>6
<1>4. DigitsEnd(input, p) = CHOOSE end \in p .. L : Run(end)
  BY DEF DigitsEnd
<1> HIDE DEF Run
<1>5. DigitsEnd(input, p) \in p .. L /\ Run(DigitsEnd(input, p))
  BY <1>3, <1>4
<1> QED
  BY <1>1, <1>5 DEF Run

LEMMA NumberFacts ==
  ASSUME NEW digits \in Seq(ToSet(Bytes)),
         \A k \in 1 .. Len(digits) : IsDigit(digits[k])
  PROVE  Number(digits) \in Nat
<1> DEFINE L == Len(digits)
           base == Len(Digits)
           step == [n \in 1 .. L |-> [v \in Nat |-> v * base + DigitValue(digits[n])]]
           Reads(f) == f = [k \in 0 .. L |->
                              IF k = 0 THEN 0
                              ELSE f[k - 1] * base + DigitValue(digits[k])]
           upto == CHOOSE f : Reads(f)
<1>1. L \in Nat /\ base \in Nat /\ \A k \in 1 .. L : DigitValue(digits[k]) \in Nat
  BY ByteFacts, DigitsAssumption
<1>2. Number(digits) = upto[L]
  BY DEF Number
<1>3. \E f : Reads(f)
  <2>1. ASSUME NEW n \in 1 .. L, NEW v \in Nat
        PROVE  v * base + DigitValue(digits[n]) \in Nat
    <3>1. v * base \in Nat
      BY <1>1
    <3> QED
      BY <1>1, <3>1
  <2>2. step \in Loops!Steps(L, Nat)
    BY <2>1 DEF Loops!Steps
  <2>3. \E f \in [0 .. L -> Nat] :
          f[0] = 0 /\ \A n \in 1 .. L : f[n] = step[n][f[n - 1]]
    <3>1. PICK s : s = step
      OBVIOUS
    <3>2. PICK N : N = L
      OBVIOUS
    <3>3. N \in Nat /\ s \in Loops!Steps(N, Nat)
      BY <1>1, <2>2, <3>1, <3>2
    <3>4. \E f \in [0 .. N -> Nat] : f[0] = 0 /\ \A n \in 1 .. N : f[n] = s[n][f[n - 1]]
      BY <3>3, IterationExists
    <3> QED
      BY <3>1, <3>2, <3>4
  <2>4. PICK f \in [0 .. L -> Nat] :
          f[0] = 0 /\ \A n \in 1 .. L : f[n] = step[n][f[n - 1]]
    BY <2>3
  <2>5. ASSUME NEW k \in 0 .. L, k # 0
        PROVE  f[k] = f[k - 1] * base + DigitValue(digits[k])
    <3>1. k \in 1 .. L /\ k - 1 \in 0 .. L
      <4> HIDE DEF L
      <4> QED
        BY <1>1, <2>5
    <3>2. f[k - 1] \in Nat
      BY <3>1
    <3> QED
      BY <2>4, <3>1, <3>2
  <2>6. f = [k \in 0 .. L |-> f[k]]
    OBVIOUS
  <2>7. Reads(f)
    BY <2>4, <2>5, <2>6
  <2> QED
    BY <2>7
<1>4. Reads(upto)
  <2> HIDE DEF Reads
  <2> QED
    BY <1>3
<1> DEFINE Natural == {k \in 0 .. L : upto[k] \in Nat}
<1>5. 0 \in Natural
  <2> HIDE DEF upto
  <2> QED
    BY <1>1, <1>4
<1>6. ASSUME NEW k \in 1 .. L, k - 1 \in Natural PROVE k \in Natural
  <2> HIDE DEF upto
  <2>1. upto[k] = upto[k - 1] * base + DigitValue(digits[k])
    BY <1>1, <1>4
  <2>2. upto[k - 1] \in Nat /\ upto[k - 1] * base \in Nat
    BY <1>1, <1>6
  <2>3. DigitValue(digits[k]) \in Nat /\ k \in 0 .. L
    BY <1>1
  <2> QED
    BY <2>1, <2>2, <2>3
<1>7. \A k \in 0 .. L : k \in Natural
  <2>1. \A k \in 1 .. L : k - 1 \in Natural => k \in Natural
    BY <1>6
  <2> HIDE DEF Natural, L
  <2> QED
    BY <1>1, <1>5, <2>1, CountingUp
<1> QED
  BY <1>1, <1>2, <1>7

-----------------------------------------------------------------------------
\* Integers and strings: a decoded one ends after the byte it starts with, and
\* in the input.

EndsAfter(input, position, result) ==
  IsDecoded(result) => /\ result.position \in Nat
                       /\ position < result.position
                       /\ result.position <= Len(input)

\* Where the digits that both parsers read start and end, and what they mean.
DigitsStart(input, position) ==
  IF peek(input, position) \in {"-", "+"} THEN position + 1 ELSE position

Magnitude(input, position) ==
  LET start == DigitsStart(input, position)
  IN  Number(SubSeq(input, start + 1, DigitsEnd(input, start)))

LEMMA MagnitudeFacts ==
  ASSUME NEW input, IsInput(input), NEW p \in 0 .. Len(input)
  PROVE  LET start == DigitsStart(input, p)
             end   == DigitsEnd(input, start)
         IN  /\ start \in Nat /\ p <= start /\ start <= Len(input)
             /\ end \in Nat /\ start <= end /\ end <= Len(input)
             /\ end = start <=> ~ IsDigit(peek(input, start))
             /\ Magnitude(input, p) \in Nat
<1> DEFINE start  == DigitsStart(input, p)
           end    == DigitsEnd(input, start)
           digits == SubSeq(input, start + 1, end)
<1>1. Len(input) \in Nat /\ input \in Seq(ToSet(Bytes))
  BY DEF IsInput
<1>2. start \in 0 .. Len(input) /\ p <= start
  <2>1. CASE peek(input, p) \in {"-", "+"}
    BY <1>1, <2>1, PeekFacts DEF DigitsStart, Specials
  <2>2. CASE peek(input, p) \notin {"-", "+"}
    BY <1>1, <2>2 DEF DigitsStart
  <2> QED
    BY <2>1, <2>2
<1>3. /\ end \in Nat /\ start <= end /\ end <= Len(input)
      /\ \A k \in start + 1 .. end : IsDigit(input[k])
      /\ ~ IsDigit(peek(input, end))
  <2> HIDE DEF start
  <2> QED
    BY <1>2, DigitsEndFacts
<1>4. end = start <=> ~ IsDigit(peek(input, start))
  <2> HIDE DEF start, end
  <2>1. end # start => start + 1 \in start + 1 .. end /\ start < Len(input)
    BY <1>1, <1>2, <1>3
  <2>2. end # start => peek(input, start) = input[start + 1]
    BY <1>2, <2>1, PeekFacts
  <2> QED
    BY <1>3, <2>1, <2>2
<1>5. /\ digits \in Seq(ToSet(Bytes))
      /\ \A k \in 1 .. Len(digits) : IsDigit(digits[k])
  <2> HIDE DEF start, end
  <2>1. ASSUME NEW k \in start + 1 .. end PROVE input[k] \in ToSet(Bytes)
    BY <1>1, <1>2, <1>3
  <2>2. /\ digits \in Seq(ToSet(Bytes))
        /\ Len(digits) = end - start
        /\ \A k \in 1 .. end - start : digits[k] = input[start + k]
    BY <1>1, <1>2, <1>3, <2>1, SubSeqProperties
  <2> QED
    BY <1>1, <1>2, <1>3, <2>2
<1>6. Number(digits) \in Nat
  <2> HIDE DEF digits
  <2> QED
    BY <1>5, NumberFacts
<1> QED
  BY <1>2, <1>3, <1>4, <1>6 DEF Magnitude

\* What Go reads Rust reads, and Go reads what Rust reads, except for the
\* smallest integer.
LEMMA ParsersAgree ==
  ASSUME NEW input, IsInput(input), NEW p \in 0 .. Len(input)
  PROVE  LET go   == parseInteger(input, p)
             rust == parse_int(input, p)
         IN  /\ EndsAfter(input, p, go) /\ EndsAfter(input, p, rust)
             /\ IsDecoded(go) =>
                  /\ rust = go /\ go.value \in Int
                  /\ MinInt < go.value /\ go.value <= MaxInt
                  /\ IsDigit(peek(input, p)) \/ peek(input, p) \in {"+", "-"}
             /\ IsDecoded(rust) =>
                  go = rust \/ (rust.value = MinInt /\ go = Error(p + 1))
<1> DEFINE start  == DigitsStart(input, p)
           end    == DigitsEnd(input, start)
           number == Magnitude(input, p)
           negative == peek(input, p) = "-"
           value  == IF negative THEN - number ELSE number
<1>1. parseInteger(input, p) =
        IF end = start \/ number > MaxInt THEN Error(start) ELSE Decoded(value, end)
  BY DEF parseInteger, DigitsStart, Magnitude
<1>2. parse_int(input, p) =
        IF ~ IsDigit(peek(input, start)) \/ value \notin MinInt .. MaxInt
        THEN Error(start) ELSE Decoded(value, end)
  BY DEF parse_int, DigitsStart, Magnitude
<1>3. /\ start \in Nat /\ p <= start /\ start <= Len(input)
      /\ end \in Nat /\ start <= end /\ end <= Len(input)
      /\ end = start <=> ~ IsDigit(peek(input, start))
      /\ number \in Nat
  BY MagnitudeFacts
<1>4. /\ negative => start = p + 1
      /\ start # p => peek(input, p) \in {"+", "-"}
  BY DEF DigitsStart
<1>5. /\ MaxInt \in Nat /\ MinInt \in Int /\ MinInt = - MaxInt - 1
      /\ p \in Nat /\ Len(input) \in Nat
  BY IntFacts DEF IsInput
<1> HIDE DEF start, end, number, negative
<1>6. /\ value \in Int
      /\ number <= MaxInt => MinInt < value /\ value <= MaxInt
      /\ value \in MinInt .. MaxInt => number <= MaxInt \/ (negative /\ value = MinInt)
  BY <1>3, <1>5
<1>7. ASSUME end # start PROVE p < end
  BY <1>3, <1>5, <1>7
<1> HIDE DEF value
<1>8. CASE end = start
  BY <1>1, <1>2, <1>3, <1>8, ResultFacts DEF EndsAfter
<1>9. CASE end # start /\ number <= MaxInt
  <2>1. parseInteger(input, p) = Decoded(value, end)
    BY <1>1, <1>3, <1>5, <1>9
  <2>2. parse_int(input, p) = Decoded(value, end)
    BY <1>2, <1>3, <1>5, <1>6, <1>9
  <2>3. IsDigit(peek(input, p)) \/ peek(input, p) \in {"+", "-"}
    BY <1>3, <1>4, <1>9
  <2> QED
    BY <1>3, <1>6, <1>7, <1>9, <2>1, <2>2, <2>3, ResultFacts DEF EndsAfter
<1>10. CASE end # start /\ ~ (number <= MaxInt)
  <2>1. parseInteger(input, p) = Error(start)
    BY <1>1, <1>3, <1>5, <1>10
  <2>2. parse_int(input, p) = Error(start)
        \/ (parse_int(input, p) = Decoded(MinInt, end) /\ start = p + 1)
    BY <1>2, <1>4, <1>6, <1>10
  <2> QED
    BY <1>3, <1>7, <1>10, <2>1, <2>2, ResultFacts DEF EndsAfter
<1> QED
  BY <1>8, <1>9, <1>10

\* Both decoders read the same strings.
LEMMA StringsAgree ==
  ASSUME NEW input, IsInput(input), NEW p \in 0 .. Len(input)
  PROVE  LET go   == decodeString(input, p)
             rust == decode_bytestring(input, p)
         IN  /\ EndsAfter(input, p, go) /\ EndsAfter(input, p, rust)
             /\ IsDecoded(go) =>
                  /\ rust = go
                  /\ IsDigit(peek(input, p)) \/ peek(input, p) \in {"+", "-"}
             /\ IsDecoded(rust) => go = rust
<1> DEFINE L    == Len(input)
           go   == parseInteger(input, p)
           rust == parse_int(input, p)
           from == rust.position + 1
           end  == Wrapped(from + rust.value)
           text == String(SubSeq(input, from + 1, from + rust.value))
           Whole == /\ rust.value >= 0
                    /\ peek(input, rust.position) = ":"
                    /\ from + rust.value <= L
<1>1. L \in Nat /\ L <= MaxInt /\ MaxInt \in Nat /\ MinInt < 0
  BY IntFacts DEF IsInput
<1>2. /\ EndsAfter(input, p, go) /\ EndsAfter(input, p, rust)
      /\ IsDecoded(go) =>
           /\ rust = go /\ go.value \in Int
           /\ MinInt < go.value /\ go.value <= MaxInt
           /\ IsDigit(peek(input, p)) \/ peek(input, p) \in {"+", "-"}
      /\ IsDecoded(rust) => go = rust \/ rust.value = MinInt
      /\ IsDecoded(rust) /\ go # rust => ~ IsDecoded(go)
  BY ParsersAgree, ResultFacts
<1> HIDE DEF go, rust
<1>3. ASSUME ~ IsDecoded(go)
      PROVE  ~ IsDecoded(decodeString(input, p)) /\ ~ IsDecoded(decode_bytestring(input, p))
  <2>1. decodeString(input, p) = go
    BY <1>3 DEF decodeString, go
  <2>2. ~ IsDecoded(rust) => decode_bytestring(input, p) = rust
    BY DEF decode_bytestring, rust
  <2>3. IsDecoded(rust) => rust.value < 0
    BY <1>1, <1>2, <1>3
  <2>4. IsDecoded(rust) => decode_bytestring(input, p) \in {Error(rust.position), Error(p)}
    BY <2>3 DEF decode_bytestring, rust
  <2> QED
    BY <1>3, <2>1, <2>2, <2>4, ResultFacts
<1>4. ASSUME IsDecoded(go)
      PROVE  /\ rust = go /\ rust.value \in Int /\ rust.value <= MaxInt
             /\ rust.position \in Nat /\ p < rust.position /\ rust.position <= L
             /\ peek(input, rust.position) = ":" => from <= L
  <2>1. /\ rust = go /\ rust.value \in Int /\ rust.value <= MaxInt
        /\ rust.position \in Nat /\ p < rust.position /\ rust.position <= L
    BY <1>2, <1>4 DEF EndsAfter
  <2>2. peek(input, rust.position) = ":" => rust.position < L
    BY <1>1, <2>1, PeekFacts DEF Specials
  <2> QED
    BY <1>1, <2>1, <2>2
<1>5. ASSUME IsDecoded(go), Whole
      PROVE  /\ decodeString(input, p) = Decoded(text, from + rust.value)
             /\ decode_bytestring(input, p) = Decoded(text, from + rust.value)
  <2>1. end = from + rust.value
    <3>1. from + rust.value \in Int /\ 0 <= from + rust.value /\ from + rust.value <= MaxInt
      BY <1>1, <1>4, <1>5
    <3> QED
      BY <3>1, WrappedFacts
  <2>2. decodeString(input, p) = acceptRun(input, from, rust.value)
    BY <1>4, <1>5 DEF decodeString, go
  <2>3. ~ (end > L) /\ ~ (end < from)
    BY <1>1, <1>4, <1>5, <2>1
  <2>4. acceptRun(input, from, rust.value) = Decoded(text, from + rust.value)
    BY <2>1, <2>3 DEF acceptRun
  <2>5. ~ (rust.value < 0) /\ ~ (L - from < rust.value)
    BY <1>1, <1>4, <1>5
  <2>6. decode_bytestring(input, p) = Decoded(text, from + rust.value)
    BY <1>4, <1>5, <2>5 DEF decode_bytestring, rust
  <2> QED
    BY <2>2, <2>4, <2>6
<1>6. ASSUME IsDecoded(go), ~ Whole
      PROVE  ~ IsDecoded(decodeString(input, p)) /\ ~ IsDecoded(decode_bytestring(input, p))
  <2>1. CASE rust.value < 0 \/ peek(input, rust.position) # ":"
    <3>1. decodeString(input, p) \in {Error(p), Error(rust.position)}
      BY <1>4, <1>6, <2>1 DEF decodeString, go
    <3>2. decode_bytestring(input, p) \in {Error(p), Error(rust.position)}
      BY <1>4, <1>6, <2>1 DEF decode_bytestring, rust
    <3> QED
      BY <3>1, <3>2, ResultFacts
  <2>2. CASE ~ (rust.value < 0) /\ peek(input, rust.position) = ":"
    <3>1. from \in Nat /\ from <= L /\ from + rust.value \in Int /\ L < from + rust.value
      BY <1>1, <1>4, <1>6, <2>2
    <3>2. decodeString(input, p) = acceptRun(input, from, rust.value)
      BY <1>4, <1>6, <2>2 DEF decodeString, go
    <3>3. end > L \/ end < from
      <4>1. CASE from + rust.value <= MaxInt
        BY <1>1, <3>1, <4>1, WrappedFacts
      <4>2. CASE ~ (from + rust.value <= MaxInt)
        <5>1. MaxInt < from + rust.value /\ from + rust.value <= 2 * MaxInt
          BY <1>1, <1>4, <1>6, <3>1, <4>2
        <5>2. end \in Int /\ end < 0
          BY <3>1, <5>1, WrappedFacts
        <5> QED
          BY <3>1, <5>2
      <4> QED
        BY <4>1, <4>2
    <3>4. acceptRun(input, from, rust.value) \in {Error(L), Panic}
      BY <3>3 DEF acceptRun
    <3>5. L - from < rust.value
      BY <1>1, <1>4, <1>6, <3>1
    <3>6. decode_bytestring(input, p) = Error(L)
      BY <1>4, <1>6, <2>2, <3>5 DEF decode_bytestring, rust
    <3> QED
      BY <3>2, <3>4, <3>6, ResultFacts
  <2> QED
    BY <2>1, <2>2
<1>7. ASSUME IsDecoded(go), Whole
      PROVE  EndsAfter(input, p, Decoded(text, from + rust.value))
  <2>1. /\ from + rust.value \in Nat /\ p < from + rust.value
        /\ from + rust.value <= L
    BY <1>1, <1>4, <1>7
  <2> QED
    BY <2>1, ResultFacts DEF EndsAfter
<1> QED
  BY <1>2, <1>3, <1>5, <1>6, <1>7 DEF EndsAfter

\* Both read the same integers but the smallest one.
LEMMA IntegersAgree ==
  ASSUME NEW input, IsInput(input), NEW p \in 0 .. Len(input), peek(input, p) = "i"
  PROVE  LET go   == decodeInteger(input, p)
             rust == decode_int(input, p)
         IN  /\ EndsAfter(input, p, go) /\ EndsAfter(input, p, rust)
             /\ IsDecoded(go) => rust = go
             /\ IsDecoded(rust) =>
                  go = rust \/ (rust.value = Integer(MinInt) /\ go = Error(p + 2))
<1> DEFINE go   == parseInteger(input, p + 1)
           rust == parse_int(input, p + 1)
<1>1. Len(input) \in Nat /\ p \in Nat /\ p + 1 \in 0 .. Len(input) /\ p + 1 + 1 = p + 2
  BY PeekFacts DEF IsInput, Specials
<1>2. /\ EndsAfter(input, p + 1, go) /\ EndsAfter(input, p + 1, rust)
      /\ IsDecoded(go) => rust = go
      /\ IsDecoded(rust) => go = rust \/ (rust.value = MinInt /\ go = Error(p + 2))
  BY <1>1, ParsersAgree
<1> HIDE DEF go, rust
<1>3. \A n \in {go, rust} :
        IsDecoded(n) /\ peek(input, n.position) = "e" =>
          EndsAfter(input, p, Decoded(Integer(n.value), n.position + 1))
  <2> SUFFICES ASSUME NEW n \in {go, rust}, IsDecoded(n), peek(input, n.position) = "e"
               PROVE  EndsAfter(input, p, Decoded(Integer(n.value), n.position + 1))
    OBVIOUS
  <2>1. n.position \in Nat /\ p + 1 < n.position /\ n.position <= Len(input)
    BY <1>2 DEF EndsAfter
  <2>2. n.position < Len(input)
    BY <1>1, <2>1, PeekFacts DEF Specials
  <2>3. n.position + 1 \in Nat /\ p < n.position + 1 /\ n.position + 1 <= Len(input)
    BY <1>1, <2>1, <2>2
  <2> QED
    BY <2>3, ResultFacts DEF EndsAfter
<1>4. decodeInteger(input, p) =
        IF ~ IsDecoded(go) THEN go
        ELSE IF peek(input, go.position) # "e" THEN Error(go.position)
        ELSE Decoded(Integer(go.value), go.position + 1)
  BY DEF decodeInteger, go
<1>5. decode_int(input, p) =
        IF ~ IsDecoded(rust) THEN rust
        ELSE IF peek(input, rust.position) # "e" THEN Error(rust.position)
        ELSE Decoded(Integer(rust.value), rust.position + 1)
  BY DEF decode_int, rust
<1>6. EndsAfter(input, p, decodeInteger(input, p)) /\ EndsAfter(input, p, decode_int(input, p))
  BY <1>3, <1>4, <1>5, ResultFacts DEF EndsAfter
<1>7. IsDecoded(decodeInteger(input, p)) => decode_int(input, p) = decodeInteger(input, p)
  BY <1>2, <1>4, <1>5, ResultFacts
<1>8. IsDecoded(decode_int(input, p)) =>
        \/ decodeInteger(input, p) = decode_int(input, p)
        \/ decode_int(input, p).value = Integer(MinInt) /\ decodeInteger(input, p) = Error(p + 2)
  BY <1>2, <1>4, <1>5, ResultFacts
<1> QED
  BY <1>6, <1>7, <1>8

-----------------------------------------------------------------------------
\* The recursion.

\* What is decoded, and after how many bytes.
Calls(input) == {"value", "list", "dict"} \X (0 .. Len(input))

\* What one of the programs returns for a call, `at` being what it returns for
\* the calls that this one makes.
Returned(program, input, x, at) ==
  IF program = "go"
  THEN CASE x[1] = "value" -> decodeScannerBencodeValue(input, x[2], at)
         [] x[1] = "list"  -> decodeList(input, x[2], at)
         [] x[1] = "dict"  -> decodeDict(input, x[2], at)
  ELSE CASE x[1] = "value" -> decode_value(input, x[2], at)
         [] x[1] = "list"  -> decode_list(input, x[2], at)
         [] x[1] = "dict"  -> decode_dict(input, x[2], at)

\* Each call makes lower ones only: of a value at the same byte, or of
\* something at a later one.
Height(input, x) == 2 * (Len(input) - x[2]) + (IF x[1] = "value" THEN 0 ELSE 1)

LEMMA HeightFacts ==
  ASSUME NEW input, IsInput(input), NEW p \in 0 .. Len(input),
         NEW q \in Nat, p < q, q <= Len(input)
  PROVE  /\ \A kind \in {"value", "list", "dict"} :
              /\ <<kind, q>> \in Calls(input)
              /\ Height(input, <<kind, q>>) < Height(input, <<"value", p>>)
              /\ Height(input, <<kind, q>>) < Height(input, <<"list", p>>)
              /\ Height(input, <<kind, q>>) < Height(input, <<"dict", p>>)
<1>1. Len(input) \in Nat
  BY DEF IsInput
<1> SUFFICES ASSUME NEW kind \in {"value", "list", "dict"}
             PROVE  /\ <<kind, q>> \in Calls(input)
                    /\ Height(input, <<kind, q>>) < Height(input, <<"value", p>>)
                    /\ Height(input, <<kind, q>>) < Height(input, <<"list", p>>)
                    /\ Height(input, <<kind, q>>) < Height(input, <<"dict", p>>)
  OBVIOUS
<1>2. <<kind, q>> \in Calls(input)
  BY <1>1 DEF Calls
<1>3. /\ Height(input, <<kind, q>>) <= 2 * (Len(input) - q) + 1
      /\ Height(input, <<kind, q>>) \in Int
  BY <1>1 DEF Height
<1>4. /\ Height(input, <<"value", p>>) = 2 * (Len(input) - p)
      /\ Height(input, <<"list", p>>) = 2 * (Len(input) - p) + 1
      /\ Height(input, <<"dict", p>>) = 2 * (Len(input) - p) + 1
  BY <1>1 DEF Height
<1> QED
  BY <1>1, <1>2, <1>3, <1>4

\* The calls of one that are lower, by name.
SameBelow(input, x, g, h) ==
  \A y \in Calls(input) :
    Height(input, y) < Height(input, x) =>
      g[y] = h[y] /\ EndsAfter(input, y[2], g[y])

\* What is returned depends on lower calls only, and ends after it starts if
\* what these return does.
LEMMA ValueReturned ==
  ASSUME NEW input, IsInput(input), NEW p \in 0 .. Len(input), NEW g, NEW h,
         SameBelow(input, <<"value", p>>, g, h)
  PROVE  /\ decodeScannerBencodeValue(input, p, g) = decodeScannerBencodeValue(input, p, h)
         /\ decode_value(input, p, g) = decode_value(input, p, h)
         /\ EndsAfter(input, p, decodeScannerBencodeValue(input, p, g))
         /\ EndsAfter(input, p, decode_value(input, p, g))
<1> DEFINE byte == peek(input, p)
<1>1. Len(input) \in Nat /\ p \in Nat
  BY DEF IsInput
<1>2. byte \in Specials \/ IsDigit(byte) => p < Len(input)
  BY PeekFacts
<1>3. ASSUME NEW kind \in {"list", "dict"}, p < Len(input)
      PROVE  g[kind, p + 1] = h[kind, p + 1] /\ EndsAfter(input, p, g[kind, p + 1])
  <2>1. p + 1 \in Nat /\ p < p + 1 /\ p + 1 <= Len(input)
    BY <1>1, <1>3
  <2>2. /\ <<kind, p + 1>> \in Calls(input)
        /\ Height(input, <<kind, p + 1>>) < Height(input, <<"value", p>>)
    BY <2>1, HeightFacts
  <2>3. PICK y : y = <<kind, p + 1>>
    OBVIOUS
  <2>4. y \in Calls(input) /\ y[2] = p + 1
        /\ Height(input, y) < Height(input, <<"value", p>>)
    BY <2>2, <2>3
  <2>5. g[y] = h[y] /\ EndsAfter(input, p + 1, g[y])
    BY <2>4 DEF SameBelow
  <2>6. g[kind, p + 1] = g[y] /\ h[kind, p + 1] = h[y]
    BY <2>3
  <2>7. \A r : EndsAfter(input, p + 1, r) => EndsAfter(input, p, r)
    BY <1>1 DEF EndsAfter
  <2> QED
    BY <2>5, <2>6, <2>7, Zenon
<1>4. /\ EndsAfter(input, p, decodeString(input, p))
      /\ EndsAfter(input, p, decode_bytestring(input, p))
      /\ EndsAfter(input, p, Error(p))
  BY StringsAgree, ResultFacts DEF EndsAfter
<1>5. byte = "i" => /\ EndsAfter(input, p, decodeInteger(input, p))
                    /\ EndsAfter(input, p, decode_int(input, p))
  BY IntegersAgree
<1>6. /\ decodeScannerBencodeValue(input, p, g) = decodeScannerBencodeValue(input, p, h)
      /\ EndsAfter(input, p, decodeScannerBencodeValue(input, p, g))
  <2> DEFINE AtEnd == p >= Len(input)
  <2>1. /\ AtEnd => byte \notin {"i", "l", "d"}
        /\ ~ AtEnd => p < Len(input)
    BY <1>1, <1>2 DEF Specials
  <2> HIDE DEF AtEnd
  <2>2. \A at : decodeScannerBencodeValue(input, p, at) =
          CASE AtEnd      -> Error(p)
            [] byte = "i" -> decodeInteger(input, p)
            [] byte = "l" -> at["list", p + 1]
            [] byte = "d" -> at["dict", p + 1]
            [] OTHER      -> decodeString(input, p)
    BY DEF decodeScannerBencodeValue, AtEnd
  <2>3. CASE AtEnd
    BY <1>4, <2>1, <2>2, <2>3, Zenon
  <2>4. CASE ~ AtEnd /\ byte = "i"
    BY <1>5, <2>2, <2>4, Zenon
  <2>5. CASE ~ AtEnd /\ byte = "l"
    <3>1. p < Len(input) /\ "list" \in {"list", "dict"}
      BY <2>1, <2>5
    <3>2. g["list", p + 1] = h["list", p + 1] /\ EndsAfter(input, p, g["list", p + 1])
      BY <1>3, <3>1
    <3> QED
      BY <2>2, <2>5, <3>2, Zenon
  <2>6. CASE ~ AtEnd /\ byte = "d"
    <3>1. p < Len(input) /\ "dict" \in {"list", "dict"}
      BY <2>1, <2>6
    <3>2. g["dict", p + 1] = h["dict", p + 1] /\ EndsAfter(input, p, g["dict", p + 1])
      BY <1>3, <3>1
    <3> QED
      BY <2>2, <2>6, <3>2, Zenon
  <2>7. CASE ~ AtEnd /\ byte \notin {"i", "l", "d"}
    BY <1>4, <2>2, <2>7, Zenon
  <2> QED
    BY <2>3, <2>4, <2>5, <2>6, <2>7
<1>7. /\ decode_value(input, p, g) = decode_value(input, p, h)
      /\ EndsAfter(input, p, decode_value(input, p, g))
  <2>1. CASE byte = "i"
    BY <1>5, <2>1, ByteFacts DEF decode_value, Specials
  <2>2. CASE IsDigit(byte)
    <3>1. byte \notin {"i", "l", "d"}
      BY <2>2, ByteFacts DEF Specials
    <3> QED
      BY <1>4, <2>2, <3>1 DEF decode_value
  <2>3. CASE byte = "l"
    <3>1. p < Len(input) /\ ~ IsDigit(byte)
      BY <1>2, <2>3, ByteFacts DEF Specials
    <3> QED
      BY <1>3, <2>3, <3>1 DEF decode_value
  <2>4. CASE byte = "d"
    <3>1. p < Len(input) /\ ~ IsDigit(byte)
      BY <1>2, <2>4, ByteFacts DEF Specials
    <3> QED
      BY <1>3, <2>4, <3>1 DEF decode_value
  <2>5. CASE ~ IsDigit(byte) /\ byte \notin {"i", "l", "d"}
    BY <1>4, <2>5 DEF decode_value
  <2> QED
    BY <2>1, <2>2, <2>3, <2>4, <2>5
<1> QED
  BY <1>6, <1>7

\* What a call at a later byte returns, by its name.
LEMMA LaterReturned ==
  ASSUME NEW input, IsInput(input), NEW p \in 0 .. Len(input),
         NEW loop \in {"list", "dict"}, NEW g, NEW h,
         SameBelow(input, <<loop, p>>, g, h),
         NEW kind \in {"value", "list", "dict"}, NEW q \in Nat,
         p < q \/ (p = q /\ kind = "value"), q <= Len(input)
  PROVE  g[kind, q] = h[kind, q] /\ EndsAfter(input, q, g[kind, q])
<1>1. PICK y : y = <<kind, q>>
  OBVIOUS
<1>2. y \in Calls(input) /\ y[2] = q /\ Height(input, y) < Height(input, <<loop, p>>)
  <2>1. CASE p < q
    BY <1>1, <2>1, HeightFacts
  <2>2. CASE p = q /\ kind = "value"
    BY <1>1, <2>2 DEF Calls, Height, IsInput
  <2> QED
    BY <2>1, <2>2
<1>3. g[y] = h[y] /\ EndsAfter(input, q, g[y])
  BY <1>2 DEF SameBelow
<1>4. g[kind, q] = g[y] /\ h[kind, q] = h[y]
  BY <1>1
<1> QED
  BY <1>3, <1>4, Zenon

LEMMA EndsAfterEarlier ==
  ASSUME NEW input, NEW p \in Nat, NEW q \in Nat, p < q
  PROVE  \A r : EndsAfter(input, q, r) => EndsAfter(input, p, r)
BY DEF EndsAfter

LEMMA ListReturned ==
  ASSUME NEW input, IsInput(input), NEW p \in 0 .. Len(input), NEW g, NEW h,
         SameBelow(input, <<"list", p>>, g, h)
  PROVE  /\ decodeList(input, p, g) = decodeList(input, p, h)
         /\ decode_list(input, p, g) = decode_list(input, p, h)
         /\ EndsAfter(input, p, decodeList(input, p, g))
         /\ EndsAfter(input, p, decode_list(input, p, g))
<1> DEFINE value(at) == at["value", p]
           rest(at)  == at["list", value(at).position]
           list(at)  == IF peek(input, p) = "e" THEN Decoded(List(<<>>), p + 1)
                        ELSE IF ~ IsDecoded(value(at)) THEN value(at)
                        ELSE IF ~ IsDecoded(rest(at)) THEN rest(at)
                        ELSE Decoded(List(<<value(at).value>> \o rest(at).value.list),
                                     rest(at).position)
<1>1. \A at : decodeList(input, p, at) = list(at) /\ decode_list(input, p, at) = list(at)
  BY DEF decodeList, decode_list
<1>2. Len(input) \in Nat /\ p \in Nat /\ p <= Len(input)
  BY DEF IsInput
<1>3. value(g) = value(h) /\ EndsAfter(input, p, value(g))
  BY <1>2, LaterReturned
<1>4. IsDecoded(value(g)) => rest(g) = rest(h) /\ EndsAfter(input, p, rest(g))
  <2> SUFFICES ASSUME IsDecoded(value(g))
               PROVE  rest(g) = rest(h) /\ EndsAfter(input, p, rest(g))
    OBVIOUS
  <2>1. PICK q : q = value(g).position
    OBVIOUS
  <2>2. q \in Nat /\ p < q /\ q <= Len(input)
    BY <1>3, <2>1 DEF EndsAfter
  <2>3. g["list", q] = h["list", q] /\ EndsAfter(input, q, g["list", q])
    BY <1>2, <2>2, LaterReturned
  <2>4. \A r : EndsAfter(input, q, r) => EndsAfter(input, p, r)
    BY <1>2, <2>2, EndsAfterEarlier
  <2> QED
    BY <1>3, <2>1, <2>3, <2>4, Zenon
<1>5. peek(input, p) = "e" => EndsAfter(input, p, Decoded(List(<<>>), p + 1))
  <2>1. peek(input, p) = "e" => p < Len(input)
    BY PeekFacts DEF Specials
  <2> QED
    BY <1>2, <2>1, ResultFacts DEF EndsAfter
<1>6. \A r : EndsAfter(input, p, r) /\ IsDecoded(r) =>
        \A v : EndsAfter(input, p, Decoded(v, r.position))
  BY ResultFacts DEF EndsAfter
<1>7. list(g) = list(h) /\ EndsAfter(input, p, list(g))
  <2> HIDE DEF value, rest
  <2>1. CASE peek(input, p) = "e"
    BY <1>5, <2>1
  <2>2. CASE peek(input, p) # "e" /\ ~ IsDecoded(value(g))
    BY <1>3, <2>2
  <2>3. CASE peek(input, p) # "e" /\ IsDecoded(value(g))
    BY <1>3, <1>4, <1>6, <2>3
  <2> QED
    BY <2>1, <2>2, <2>3
<1> QED
  BY <1>1, <1>7

LEMMA DictReturned ==
  ASSUME NEW input, IsInput(input), NEW p \in 0 .. Len(input), NEW g, NEW h,
         SameBelow(input, <<"dict", p>>, g, h)
  PROVE  /\ decodeDict(input, p, g) = decodeDict(input, p, h)
         /\ decode_dict(input, p, g) = decode_dict(input, p, h)
         /\ EndsAfter(input, p, decodeDict(input, p, g))
         /\ EndsAfter(input, p, decode_dict(input, p, g))
<1> DEFINE value(key, at) == at["value", key.position]
           rest(key, at)  == at["dict", value(key, at).position]
           dict(key, at) ==
             IF peek(input, p) = "e" THEN Decoded(Dict(<<>>), p + 1)
             ELSE IF ~ IsDecoded(key) THEN key
             ELSE IF ~ IsDecoded(value(key, at)) THEN value(key, at)
             ELSE IF ~ IsDecoded(rest(key, at)) THEN rest(key, at)
             ELSE Decoded(Dict(rest(key, at).value.dict
                               @@ (key.value.string :> value(key, at).value)),
                          rest(key, at).position)
<1>1. \A at : /\ decodeDict(input, p, at) = dict(decodeString(input, p), at)
              /\ decode_dict(input, p, at) = dict(decode_bytestring(input, p), at)
  BY DEF decodeDict, decode_dict, Assigned
<1>2. Len(input) \in Nat /\ p \in Nat /\ p <= Len(input)
  BY DEF IsInput
<1>3. ASSUME NEW key, EndsAfter(input, p, key)
      PROVE  dict(key, g) = dict(key, h) /\ EndsAfter(input, p, dict(key, g))
  <2>1. IsDecoded(key) =>
          /\ value(key, g) = value(key, h)
          /\ EndsAfter(input, p, value(key, g))
    <3> SUFFICES ASSUME IsDecoded(key)
                 PROVE  value(key, g) = value(key, h) /\ EndsAfter(input, p, value(key, g))
      OBVIOUS
    <3>1. PICK q : q = key.position
      OBVIOUS
    <3>2. q \in Nat /\ p < q /\ q <= Len(input)
      BY <1>3, <3>1 DEF EndsAfter
    <3>3. g["value", q] = h["value", q] /\ EndsAfter(input, q, g["value", q])
      BY <1>2, <3>2, LaterReturned
    <3>4. \A r : EndsAfter(input, q, r) => EndsAfter(input, p, r)
      BY <1>2, <3>2, EndsAfterEarlier
    <3> QED
      BY <3>1, <3>3, <3>4, Zenon
  <2>2. IsDecoded(key) /\ IsDecoded(value(key, g)) =>
          /\ rest(key, g) = rest(key, h)
          /\ EndsAfter(input, p, rest(key, g))
    <3> SUFFICES ASSUME IsDecoded(key), IsDecoded(value(key, g))
                 PROVE  rest(key, g) = rest(key, h) /\ EndsAfter(input, p, rest(key, g))
      OBVIOUS
    <3>1. PICK q : q = value(key, g).position
      OBVIOUS
    <3>2. q \in Nat /\ p < q /\ q <= Len(input)
      BY <2>1, <3>1 DEF EndsAfter
    <3>3. g["dict", q] = h["dict", q] /\ EndsAfter(input, q, g["dict", q])
      BY <1>2, <3>2, LaterReturned
    <3>4. \A r : EndsAfter(input, q, r) => EndsAfter(input, p, r)
      BY <1>2, <3>2, EndsAfterEarlier
    <3> QED
      BY <2>1, <3>1, <3>3, <3>4, Zenon
  <2>3. peek(input, p) = "e" => EndsAfter(input, p, Decoded(Dict(<<>>), p + 1))
    <3>1. peek(input, p) = "e" => p < Len(input)
      BY PeekFacts DEF Specials
    <3> QED
      BY <1>2, <3>1, ResultFacts DEF EndsAfter
  <2>4. \A r : EndsAfter(input, p, r) /\ IsDecoded(r) =>
          \A v : EndsAfter(input, p, Decoded(v, r.position))
    BY ResultFacts DEF EndsAfter
  <2> HIDE DEF value, rest
  <2>5. CASE peek(input, p) = "e"
    BY <2>3, <2>5
  <2>6. CASE peek(input, p) # "e" /\ ~ IsDecoded(key)
    BY <1>3, <2>6
  <2>7. CASE peek(input, p) # "e" /\ IsDecoded(key) /\ ~ IsDecoded(value(key, g))
    BY <2>1, <2>7
  <2>8. CASE peek(input, p) # "e" /\ IsDecoded(key) /\ IsDecoded(value(key, g))
    BY <2>1, <2>2, <2>4, <2>8
  <2> QED
    BY <2>5, <2>6, <2>7, <2>8
<1> HIDE DEF dict
<1>4. /\ EndsAfter(input, p, decodeString(input, p))
      /\ EndsAfter(input, p, decode_bytestring(input, p))
  BY StringsAgree
<1> QED
  BY <1>1, <1>3, <1>4

LEMMA CallReturned ==
  ASSUME NEW program \in {"go", "rust"}, NEW input, IsInput(input),
         NEW x \in Calls(input), NEW g, NEW h, SameBelow(input, x, g, h)
  PROVE  /\ Returned(program, input, x, g) = Returned(program, input, x, h)
         /\ EndsAfter(input, x[2], Returned(program, input, x, g))
<1>1. /\ x[1] \in {"value", "list", "dict"} /\ x[2] \in 0 .. Len(input)
      /\ x = <<x[1], x[2]>>
  BY DEF Calls
<1>2. PICK p \in 0 .. Len(input) : p = x[2]
  BY <1>1
<1>3. CASE x[1] = "value"
  <2>1. SameBelow(input, <<"value", p>>, g, h)
    BY <1>1, <1>2, <1>3
  <2>2. \A at : Returned(program, input, x, at) =
                  IF program = "go" THEN decodeScannerBencodeValue(input, p, at)
                  ELSE decode_value(input, p, at)
    BY <1>2, <1>3, Zenon DEF Returned
  <2> QED
    BY <1>2, <2>1, <2>2, ValueReturned
<1>4. CASE x[1] = "list"
  <2>1. SameBelow(input, <<"list", p>>, g, h)
    BY <1>1, <1>2, <1>4
  <2>2. \A at : Returned(program, input, x, at) =
                  IF program = "go" THEN decodeList(input, p, at)
                  ELSE decode_list(input, p, at)
    BY <1>2, <1>4, Zenon DEF Returned
  <2> QED
    BY <1>2, <2>1, <2>2, ListReturned
<1>5. CASE x[1] = "dict"
  <2>1. SameBelow(input, <<"dict", p>>, g, h)
    BY <1>1, <1>2, <1>5
  <2>2. \A at : Returned(program, input, x, at) =
                  IF program = "go" THEN decodeDict(input, p, at)
                  ELSE decode_dict(input, p, at)
    BY <1>2, <1>5, Zenon DEF Returned
  <2> QED
    BY <1>2, <2>1, <2>2, DictReturned
<1> QED
  BY <1>1, <1>3, <1>4, <1>5

\* A number above all heights.
Top(input) == 2 * Len(input) + 2

LEMMA HeightType ==
  ASSUME NEW input, IsInput(input)
  PROVE  /\ Top(input) \in Nat
         /\ \A x \in Calls(input) :
              Height(input, x) \in Nat /\ Height(input, x) < Top(input)
<1>1. Len(input) \in Nat
  BY DEF IsInput
<1>2. ASSUME NEW x \in Calls(input)
      PROVE  Height(input, x) \in Nat /\ Height(input, x) < Top(input)
  <2>1. x[2] \in Nat /\ x[2] <= Len(input)
    BY <1>1 DEF Calls
  <2> QED
    BY <1>1, <2>1 DEF Height, Top
<1> QED
  BY <1>1, <1>2 DEF Top

\* `at` is what the program returns for every call.
IsDecoder(program, input, at) ==
  at = [x \in Calls(input) |-> Returned(program, input, x, at)]

\* The decoders do return something, for every input.
LEMMA DecoderExists ==
  ASSUME NEW program \in {"go", "rust"}, NEW input, IsInput(input)
  PROVE  \E at : IsDecoder(program, input, at)
<1> DEFINE Below(g, m) ==
             \A x \in Calls(input) :
               Height(input, x) < m =>
                 /\ g[x] = Returned(program, input, x, g)
                 /\ EndsAfter(input, x[2], g[x])
           Once(g) == [x \in Calls(input) |-> Returned(program, input, x, g)]
           Reached == {m \in 0 .. Top(input) : \E g : Below(g, m)}
<1>1. /\ Top(input) \in Nat
      /\ \A x \in Calls(input) :
           Height(input, x) \in Nat /\ Height(input, x) < Top(input)
  BY HeightType
<1>2. ASSUME NEW m \in Nat, NEW g, Below(g, m),
             NEW x \in Calls(input), Height(input, x) <= m
      PROVE  /\ Returned(program, input, x, Once(g)) = Returned(program, input, x, g)
             /\ EndsAfter(input, x[2], Returned(program, input, x, g))
  <2>1. ASSUME NEW y \in Calls(input), Height(input, y) < Height(input, x)
        PROVE  g[y] = Once(g)[y] /\ EndsAfter(input, y[2], g[y])
    <3>1. Height(input, y) < m
      BY <1>1, <1>2, <2>1
    <3> QED
      BY <1>2, <3>1
  <2> HIDE DEF Once
  <2>2. SameBelow(input, x, g, Once(g))
    BY <2>1 DEF SameBelow
  <2> QED
    BY <2>2, CallReturned
<1>3. 0 \in Reached
  BY <1>1
<1>4. \A m \in 1 .. Top(input) : m - 1 \in Reached => m \in Reached
  <2>1. ASSUME NEW m \in 1 .. Top(input), NEW g, Below(g, m - 1)
        PROVE  Below(Once(g), m)
    <3> SUFFICES ASSUME NEW x \in Calls(input), Height(input, x) < m
                 PROVE  /\ Once(g)[x] = Returned(program, input, x, Once(g))
                        /\ EndsAfter(input, x[2], Once(g)[x])
      OBVIOUS
    <3>1. Height(input, x) <= m - 1 /\ m - 1 \in Nat
      BY <1>1
    <3>2. Once(g)[x] = Returned(program, input, x, g)
      OBVIOUS
    <3> HIDE DEF Once, Below
    <3> QED
      BY <1>2, <2>1, <3>1, <3>2
  <2> HIDE DEF Once, Below
  <2> SUFFICES ASSUME NEW m \in 1 .. Top(input), m - 1 \in Reached
               PROVE  m \in Reached
    OBVIOUS
  <2>2. PICK g : Below(g, m - 1)
    OBVIOUS
  <2>3. m \in 0 .. Top(input)
    BY <1>1
  <2> QED
    BY <2>1, <2>2, <2>3
<1>5. \A m \in 0 .. Top(input) : m \in Reached
  <2> HIDE DEF Reached
  <2> QED
    BY <1>1, <1>3, <1>4, CountingUp
<1>6. PICK g : Below(g, Top(input))
  <2>1. Top(input) \in Reached
    <3> HIDE DEF Reached
    <3> QED
      BY <1>1, <1>5
  <2> QED
    BY <2>1
<1>7. \A x \in Calls(input) : Returned(program, input, x, Once(g)) = Returned(program, input, x, g)
  <2> HIDE DEF Once, Below
  <2> QED
    BY <1>1, <1>2, <1>6
<1>8. IsDecoder(program, input, Once(g))
  BY <1>7 DEF IsDecoder
<1> QED
  BY <1>8

LEMMA DecoderFacts ==
  ASSUME NEW input, IsInput(input)
  PROVE  /\ IsDecoder("go", input, decodeAt(input))
         /\ IsDecoder("rust", input, decode_at(input))
<1> DEFINE Go(at) == [x \in Calls(input) |->
                        CASE x[1] = "value" -> decodeScannerBencodeValue(input, x[2], at)
                          [] x[1] = "list"  -> decodeList(input, x[2], at)
                          [] x[1] = "dict"  -> decodeDict(input, x[2], at)]
           Rust(at) == [x \in Calls(input) |->
                          CASE x[1] = "value" -> decode_value(input, x[2], at)
                            [] x[1] = "list"  -> decode_list(input, x[2], at)
                            [] x[1] = "dict"  -> decode_dict(input, x[2], at)]
<1>1. \A at, x : Returned("go", input, x, at) =
                   CASE x[1] = "value" -> decodeScannerBencodeValue(input, x[2], at)
                     [] x[1] = "list"  -> decodeList(input, x[2], at)
                     [] x[1] = "dict"  -> decodeDict(input, x[2], at)
  BY Zenon DEF Returned
<1>2. \A at, x : Returned("rust", input, x, at) =
                   CASE x[1] = "value" -> decode_value(input, x[2], at)
                     [] x[1] = "list"  -> decode_list(input, x[2], at)
                     [] x[1] = "dict"  -> decode_dict(input, x[2], at)
  BY Zenon DEF Returned
<1>3. \A at : IsDecoder("go", input, at) <=> at = Go(at)
  BY <1>1, Zenon DEF IsDecoder
<1>4. \A at : IsDecoder("rust", input, at) <=> at = Rust(at)
  BY <1>2, Zenon DEF IsDecoder
<1>5. /\ decodeAt(input) = CHOOSE at : at = Go(at)
      /\ decode_at(input) = CHOOSE at : at = Rust(at)
  BY DEF decodeAt, decode_at, Calls
<1>6. (\E at : at = Go(at)) /\ (\E at : at = Rust(at))
  <2>1. (\E at : IsDecoder("go", input, at)) /\ (\E at : IsDecoder("rust", input, at))
    BY DecoderExists
  <2> HIDE DEF Go, Rust
  <2> QED
    BY <1>3, <1>4, <2>1
<1> HIDE DEF Go, Rust
<1> QED
  BY <1>3, <1>4, <1>5, <1>6, Zenon

LEMMA DecoderReadsOn ==
  ASSUME NEW program \in {"go", "rust"}, NEW input, IsInput(input), NEW at,
         IsDecoder(program, input, at)
  PROVE  \A x \in Calls(input) : /\ at[x] = Returned(program, input, x, at)
                                 /\ EndsAfter(input, x[2], at[x])
<1>1. \A x \in Calls(input) : at[x] = Returned(program, input, x, at)
  BY DEF IsDecoder
<1>2. /\ Top(input) \in Nat
      /\ \A x \in Calls(input) :
           Height(input, x) \in Nat /\ Height(input, x) < Top(input)
  BY HeightType
<1> DEFINE Reached == {m \in 0 .. Top(input) :
                         \A x \in Calls(input) :
                           Height(input, x) < m => EndsAfter(input, x[2], at[x])}
<1>3. 0 \in Reached
  BY <1>2
<1>4. \A m \in 1 .. Top(input) : m - 1 \in Reached => m \in Reached
  <2> SUFFICES ASSUME NEW m \in 1 .. Top(input), m - 1 \in Reached,
                      NEW x \in Calls(input), Height(input, x) < m
               PROVE  EndsAfter(input, x[2], at[x])
    BY <1>2
  <2>1. ASSUME NEW y \in Calls(input), Height(input, y) < Height(input, x)
        PROVE  EndsAfter(input, y[2], at[y])
    <3>1. Height(input, y) < m - 1
      BY <1>2, <2>1
    <3> QED
      BY <3>1
  <2>2. SameBelow(input, x, at, at)
    BY <2>1 DEF SameBelow
  <2> QED
    BY <1>1, <2>2, CallReturned
<1>5. \A m \in 0 .. Top(input) : m \in Reached
  <2> HIDE DEF Reached
  <2> QED
    BY <1>2, <1>3, <1>4, CountingUp
<1>6. Top(input) \in Reached
  <2> HIDE DEF Reached
  <2> QED
    BY <1>2, <1>5
<1> QED
  BY <1>1, <1>2, <1>6

-----------------------------------------------------------------------------
\* Agreement.

LEMMA StopsAreErrors ==
  /\ \A input, result : StopsAtMinInt(input, result) => ~ IsDecoded(result)
  /\ \A input, result : StopsAtSign(input, result) => ~ IsDecoded(result)
BY ResultFacts DEF StopsAtMinInt, StopsAtSign

\* Both programs agree on the calls below one.
AgreedBelow(input, x, g, r) ==
  \A y \in Calls(input) :
    Height(input, y) < Height(input, x) =>
      /\ Agreed(input, g[y], r[y])
      /\ EndsAfter(input, y[2], g[y])

LEMMA AgreedLater ==
  ASSUME NEW input, IsInput(input), NEW p \in 0 .. Len(input),
         NEW loop \in {"value", "list", "dict"}, NEW g, NEW r,
         AgreedBelow(input, <<loop, p>>, g, r),
         NEW kind \in {"value", "list", "dict"}, NEW q \in Nat,
         p < q \/ (p = q /\ kind = "value" /\ loop # "value"), q <= Len(input)
  PROVE  Agreed(input, g[kind, q], r[kind, q]) /\ EndsAfter(input, q, g[kind, q])
<1>1. PICK y : y = <<kind, q>>
  OBVIOUS
<1>2. y \in Calls(input) /\ y[2] = q /\ Height(input, y) < Height(input, <<loop, p>>)
  <2>1. CASE p < q
    BY <1>1, <2>1, HeightFacts
  <2>2. CASE p = q /\ kind = "value" /\ loop # "value"
    BY <1>1, <2>2 DEF Calls, Height, IsInput
  <2> QED
    BY <2>1, <2>2
<1>3. Agreed(input, g[y], r[y]) /\ EndsAfter(input, q, g[y])
  BY <1>2 DEF AgreedBelow
<1>4. g[kind, q] = g[y] /\ r[kind, q] = r[y]
  BY <1>1
<1> QED
  BY <1>3, <1>4, Zenon

LEMMA ValuesAgree ==
  ASSUME NEW input, IsInput(input), NEW p \in 0 .. Len(input), NEW g, NEW r,
         AgreedBelow(input, <<"value", p>>, g, r)
  PROVE  Agreed(input, decodeScannerBencodeValue(input, p, g), decode_value(input, p, r))
<1> DEFINE byte == peek(input, p)
           AtEnd == p >= Len(input)
           go   == decodeScannerBencodeValue(input, p, g)
           rust == decode_value(input, p, r)
<1>1. Len(input) \in Nat /\ p \in Nat
  BY DEF IsInput
<1>2. /\ ~ AtEnd => p < Len(input)
      /\ AtEnd => byte = "eof"
  BY <1>1, PeekFacts
<1>3. \A kind \in {"list", "dict"} :
        p < Len(input) => Agreed(input, g[kind, p + 1], r[kind, p + 1])
  <2> SUFFICES ASSUME NEW kind \in {"list", "dict"}, p < Len(input)
               PROVE  Agreed(input, g[kind, p + 1], r[kind, p + 1])
    OBVIOUS
  <2>1. PICK q \in Nat : q = p + 1 /\ p < q /\ q <= Len(input)
    BY <1>1
  <2>2. Agreed(input, g[kind, q], r[kind, q])
    BY <2>1, AgreedLater
  <2> QED
    BY <2>1, <2>2
<1> HIDE DEF AtEnd
<1>4. go = CASE AtEnd       -> Error(p)
             [] byte = "i" -> decodeInteger(input, p)
             [] byte = "l" -> g["list", p + 1]
             [] byte = "d" -> g["dict", p + 1]
             [] OTHER      -> decodeString(input, p)
  BY DEF decodeScannerBencodeValue, AtEnd
<1>5. rust = CASE byte = "i"    -> decode_int(input, p)
               [] IsDigit(byte) -> decode_bytestring(input, p)
               [] byte = "l"    -> r["list", p + 1]
               [] byte = "d"    -> r["dict", p + 1]
               [] OTHER         -> Error(p)
  BY DEF decode_value
<1> HIDE DEF go, rust, byte
<1>6. \A b \in {"i", "l", "d", "eof"} : ~ IsDigit(b)
  BY ByteFacts DEF Specials
<1>7. CASE AtEnd
  <2>1. byte = "eof" /\ ~ IsDigit(byte)
    BY <1>2, <1>6, <1>7
  <2>2. go = Error(p) /\ rust = Error(p)
    BY <1>4, <1>5, <1>7, <2>1, Zenon
  <2> QED
    BY <2>2, ResultFacts DEF Agreed, go, rust
<1>8. CASE ~ AtEnd /\ byte = "i"
  <2>1. go = decodeInteger(input, p) /\ rust = decode_int(input, p)
    BY <1>4, <1>5, <1>6, <1>8, Zenon
  <2>2. peek(input, p) = "i"
    BY <1>8 DEF byte
  <2>3. /\ IsDecoded(go) => rust = go
        /\ IsDecoded(rust) =>
             go = rust \/ (rust.value = Integer(MinInt) /\ go = Error(p + 2))
    BY <2>1, <2>2, IntegersAgree
  <2>4. IsDecoded(rust) /\ rust.value = Integer(MinInt) /\ go = Error(p + 2) =>
          StopsAtMinInt(input, go)
    BY <2>1, <2>2 DEF StopsAtMinInt
  <2> QED
    BY <2>3, <2>4 DEF Agreed, go, rust
<1>9. CASE ~ AtEnd /\ byte = "l"
  <2>1. go = g["list", p + 1] /\ rust = r["list", p + 1]
    BY <1>4, <1>5, <1>6, <1>9, Zenon
  <2>2. p < Len(input) /\ "list" \in {"list", "dict"}
    BY <1>2, <1>9
  <2>3. Agreed(input, g["list", p + 1], r["list", p + 1])
    BY <1>3, <2>2, Zenon
  <2> QED
    BY <2>1, <2>3, Zenon DEF go, rust
<1>10. CASE ~ AtEnd /\ byte = "d"
  <2>1. go = g["dict", p + 1] /\ rust = r["dict", p + 1]
    BY <1>4, <1>5, <1>6, <1>10, Zenon
  <2>2. p < Len(input) /\ "dict" \in {"list", "dict"}
    BY <1>2, <1>10
  <2>3. Agreed(input, g["dict", p + 1], r["dict", p + 1])
    BY <1>3, <2>2, Zenon
  <2> QED
    BY <2>1, <2>3, Zenon DEF go, rust
<1>11. CASE ~ AtEnd /\ byte \notin {"i", "l", "d"}
  <2>1. go = decodeString(input, p)
    BY <1>4, <1>11, Zenon
  <2>2. IsDigit(byte) => rust = decode_bytestring(input, p)
    BY <1>5, <1>11, Zenon
  <2>3. ~ IsDigit(byte) => rust = Error(p)
    BY <1>5, <1>11, Zenon
  <2>4. /\ IsDecoded(go) => decode_bytestring(input, p) = go
        /\ IsDecoded(go) => IsDigit(byte) \/ byte \in {"+", "-"}
        /\ IsDecoded(decode_bytestring(input, p)) => go = decode_bytestring(input, p)
    BY <2>1, StringsAgree DEF byte
  <2>5. byte \in {"+", "-"} /\ rust = Error(p) => StopsAtSign(input, rust)
    BY DEF StopsAtSign, byte
  <2> QED
    BY <2>2, <2>3, <2>4, <2>5, ResultFacts DEF Agreed, go, rust
<1> QED
  BY <1>7, <1>8, <1>9, <1>10, <1>11

LEMMA ListsAgree ==
  ASSUME NEW input, IsInput(input), NEW p \in 0 .. Len(input), NEW g, NEW r,
         AgreedBelow(input, <<"list", p>>, g, r)
  PROVE  Agreed(input, decodeList(input, p, g), decode_list(input, p, r))
<1> DEFINE value(at) == at["value", p]
           rest(at)  == at["list", value(at).position]
           list(at)  == IF peek(input, p) = "e" THEN Decoded(List(<<>>), p + 1)
                        ELSE IF ~ IsDecoded(value(at)) THEN value(at)
                        ELSE IF ~ IsDecoded(rest(at)) THEN rest(at)
                        ELSE Decoded(List(<<value(at).value>> \o rest(at).value.list),
                                     rest(at).position)
<1>1. decodeList(input, p, g) = list(g) /\ decode_list(input, p, r) = list(r)
  BY DEF decodeList, decode_list
<1>2. Len(input) \in Nat /\ p \in Nat /\ p <= Len(input)
  BY DEF IsInput
<1>3. Agreed(input, value(g), value(r)) /\ EndsAfter(input, p, value(g))
  BY <1>2, AgreedLater
<1>4. IsDecoded(value(g)) /\ value(g) = value(r) => Agreed(input, rest(g), rest(r))
  <2> SUFFICES ASSUME IsDecoded(value(g)), value(g) = value(r)
               PROVE  Agreed(input, rest(g), rest(r))
    OBVIOUS
  <2>1. PICK q : q = value(g).position
    OBVIOUS
  <2>2. q \in Nat /\ p < q /\ q <= Len(input)
    BY <1>3, <2>1 DEF EndsAfter
  <2>3. Agreed(input, g["list", q], r["list", q])
    BY <1>2, <2>2, AgreedLater
  <2> QED
    BY <2>1, <2>3, Zenon
<1> HIDE DEF value, rest
<1>5. \A v, end : IsDecoded(Decoded(v, end))
  BY ResultFacts
<1>6. CASE peek(input, p) = "e"
  BY <1>1, <1>6 DEF Agreed
<1>7. CASE peek(input, p) # "e" /\ ~ IsDecoded(value(g))
  <2>1. list(g) = value(g)
    BY <1>7
  <2>2. ~ IsDecoded(value(r)) => list(r) = value(r)
    BY <1>7
  <2>3. IsDecoded(value(r)) => value(g) = value(r) \/ StopsAtMinInt(input, value(g))
    BY <1>3 DEF Agreed
  <2> HIDE DEF list
  <2> QED
    BY <1>1, <1>7, <2>1, <2>2, <2>3 DEF Agreed
<1>8. CASE peek(input, p) # "e" /\ IsDecoded(value(g)) /\ value(g) # value(r)
  <2>1. StopsAtSign(input, value(r)) /\ ~ IsDecoded(value(r))
    BY <1>3, <1>8, StopsAreErrors DEF Agreed
  <2>2. list(r) = value(r)
    BY <1>8, <2>1
  <2> HIDE DEF list
  <2> QED
    BY <1>1, <2>1, <2>2 DEF Agreed
<1>9. CASE peek(input, p) # "e" /\ IsDecoded(value(g)) /\ value(g) = value(r)
  <2>1. Agreed(input, rest(g), rest(r))
    BY <1>4, <1>9
  <2>2. /\ ~ IsDecoded(rest(g)) => list(g) = rest(g)
        /\ ~ IsDecoded(rest(r)) => list(r) = rest(r)
        /\ IsDecoded(rest(g)) => IsDecoded(list(g))
        /\ IsDecoded(rest(r)) => IsDecoded(list(r))
        /\ rest(g) = rest(r) => list(g) = list(r)
    BY <1>5, <1>9
  <2> HIDE DEF list
  <2>3. CASE rest(g) = rest(r)
    BY <1>1, <2>2, <2>3 DEF Agreed
  <2>4. CASE rest(g) # rest(r)
    BY <1>1, <2>1, <2>2, <2>4, StopsAreErrors DEF Agreed
  <2> QED
    BY <2>3, <2>4
<1> HIDE DEF list
<1> QED
  BY <1>6, <1>7, <1>8, <1>9

LEMMA DictsAgree ==
  ASSUME NEW input, IsInput(input), NEW p \in 0 .. Len(input), NEW g, NEW r,
         AgreedBelow(input, <<"dict", p>>, g, r)
  PROVE  Agreed(input, decodeDict(input, p, g), decode_dict(input, p, r))
<1> DEFINE key       == decodeString(input, p)
           value(at) == at["value", key.position]
           rest(at)  == at["dict", value(at).position]
           dict(at) ==
             IF peek(input, p) = "e" THEN Decoded(Dict(<<>>), p + 1)
             ELSE IF ~ IsDecoded(key) THEN key
             ELSE IF ~ IsDecoded(value(at)) THEN value(at)
             ELSE IF ~ IsDecoded(rest(at)) THEN rest(at)
             ELSE Decoded(Dict(rest(at).value.dict
                               @@ (key.value.string :> value(at).value)),
                          rest(at).position)
<1>1. /\ EndsAfter(input, p, key)
      /\ IsDecoded(key) => decode_bytestring(input, p) = key
      /\ IsDecoded(decode_bytestring(input, p)) => key = decode_bytestring(input, p)
  BY StringsAgree
<1>2. decodeDict(input, p, g) = dict(g)
  BY DEF decodeDict, Assigned
<1>3. IsDecoded(key) => decode_dict(input, p, r) = dict(r)
  <2> SUFFICES ASSUME IsDecoded(key) PROVE decode_dict(input, p, r) = dict(r)
    OBVIOUS
  <2>1. decode_bytestring(input, p) = key
    BY <1>1
  <2> HIDE DEF key
  <2> QED
    BY <2>1 DEF decode_dict
<1>4. Len(input) \in Nat /\ p \in Nat /\ p <= Len(input)
  BY DEF IsInput
<1> HIDE DEF key
<1>5. CASE peek(input, p) = "e"
  <2>1. decodeDict(input, p, g) = decode_dict(input, p, r)
    BY <1>2, <1>5 DEF decode_dict
  <2> QED
    BY <2>1 DEF Agreed
<1>6. CASE peek(input, p) # "e" /\ ~ IsDecoded(key)
  <2>1. decodeDict(input, p, g) = key
    BY <1>2, <1>6
  <2>2. ~ IsDecoded(decode_bytestring(input, p))
    BY <1>1, <1>6
  <2>3. decode_dict(input, p, r) = decode_bytestring(input, p)
    BY <1>6, <2>2 DEF decode_dict
  <2> QED
    BY <1>6, <2>1, <2>2, <2>3 DEF Agreed
<1>7. CASE peek(input, p) # "e" /\ IsDecoded(key)
  <2>1. PICK k : k = key.position
    OBVIOUS
  <2>2. k \in Nat /\ p < k /\ k <= Len(input)
    BY <1>1, <1>7, <2>1 DEF EndsAfter
  <2>3. Agreed(input, value(g), value(r)) /\ EndsAfter(input, k, value(g))
    <3>1. Agreed(input, g["value", k], r["value", k]) /\ EndsAfter(input, k, g["value", k])
      BY <1>4, <2>2, AgreedLater
    <3> QED
      BY <2>1, <3>1, Zenon
  <2>4. \A q \in Nat : k < q => p < q
    BY <1>4, <2>2
  <2>5. IsDecoded(value(g)) /\ value(g) = value(r) => Agreed(input, rest(g), rest(r))
    <3> SUFFICES ASSUME IsDecoded(value(g)), value(g) = value(r)
                 PROVE  Agreed(input, rest(g), rest(r))
      OBVIOUS
    <3>1. PICK q : q = value(g).position
      OBVIOUS
    <3>2. q \in Nat /\ k < q /\ q <= Len(input)
      BY <2>3, <3>1 DEF EndsAfter
    <3>3. p < q
      BY <2>4, <3>2, Zenon
    <3>4. Agreed(input, g["dict", q], r["dict", q])
      BY <1>4, <3>2, <3>3, AgreedLater
    <3> QED
      BY <3>1, <3>4, Zenon
  <2> HIDE DEF value, rest
  <2>6. \A v, end : IsDecoded(Decoded(v, end))
    BY ResultFacts
  <2>7. CASE ~ IsDecoded(value(g))
    <3>1. dict(g) = value(g)
      BY <1>7, <2>7
    <3>2. ~ IsDecoded(value(r)) => dict(r) = value(r)
      BY <1>7
    <3>3. IsDecoded(value(r)) => value(g) = value(r) \/ StopsAtMinInt(input, value(g))
      BY <2>3 DEF Agreed
    <3> HIDE DEF dict
    <3>4. Agreed(input, dict(g), dict(r))
      BY <2>7, <3>1, <3>2, <3>3 DEF Agreed
    <3> QED
      BY <1>2, <1>3, <1>7, <3>4
  <2>8. CASE IsDecoded(value(g)) /\ value(g) # value(r)
    <3>1. StopsAtSign(input, value(r)) /\ ~ IsDecoded(value(r))
      BY <2>3, <2>8, StopsAreErrors DEF Agreed
    <3>2. dict(r) = value(r)
      BY <1>7, <3>1
    <3> HIDE DEF dict
    <3>3. Agreed(input, dict(g), dict(r))
      BY <3>1, <3>2 DEF Agreed
    <3> QED
      BY <1>2, <1>3, <1>7, <3>3
  <2>9. CASE IsDecoded(value(g)) /\ value(g) = value(r)
    <3>1. Agreed(input, rest(g), rest(r))
      BY <2>5, <2>9
    <3>2. /\ ~ IsDecoded(rest(g)) => dict(g) = rest(g)
          /\ ~ IsDecoded(rest(r)) => dict(r) = rest(r)
          /\ IsDecoded(rest(g)) => IsDecoded(dict(g))
          /\ IsDecoded(rest(r)) => IsDecoded(dict(r))
          /\ rest(g) = rest(r) => dict(g) = dict(r)
      BY <1>7, <2>6, <2>9
    <3> HIDE DEF dict
    <3>3. Agreed(input, dict(g), dict(r))
      <4>1. CASE rest(g) = rest(r)
        BY <3>2, <4>1 DEF Agreed
      <4>2. CASE rest(g) # rest(r)
        BY <3>1, <3>2, <4>2, StopsAreErrors DEF Agreed
      <4> QED
        BY <4>1, <4>2
    <3> QED
      BY <1>2, <1>3, <1>7, <3>3
  <2> QED
    BY <2>7, <2>8, <2>9
<1> QED
  BY <1>5, <1>6, <1>7

LEMMA CallsAgree ==
  ASSUME NEW input, IsInput(input), NEW x \in Calls(input), NEW g, NEW r,
         AgreedBelow(input, x, g, r)
  PROVE  Agreed(input, Returned("go", input, x, g), Returned("rust", input, x, r))
<1>1. /\ x[1] \in {"value", "list", "dict"} /\ x[2] \in 0 .. Len(input)
      /\ x = <<x[1], x[2]>>
  BY DEF Calls
<1>2. PICK p \in 0 .. Len(input) : p = x[2]
  BY <1>1
<1>3. CASE x[1] = "value"
  <2>1. AgreedBelow(input, <<"value", p>>, g, r)
    BY <1>1, <1>2, <1>3
  <2>2. /\ Returned("go", input, x, g) = decodeScannerBencodeValue(input, p, g)
        /\ Returned("rust", input, x, r) = decode_value(input, p, r)
    BY <1>2, <1>3, Zenon DEF Returned
  <2> QED
    BY <2>1, <2>2, ValuesAgree
<1>4. CASE x[1] = "list"
  <2>1. AgreedBelow(input, <<"list", p>>, g, r)
    BY <1>1, <1>2, <1>4
  <2>2. /\ Returned("go", input, x, g) = decodeList(input, p, g)
        /\ Returned("rust", input, x, r) = decode_list(input, p, r)
    BY <1>2, <1>4, Zenon DEF Returned
  <2> QED
    BY <2>1, <2>2, ListsAgree
<1>5. CASE x[1] = "dict"
  <2>1. AgreedBelow(input, <<"dict", p>>, g, r)
    BY <1>1, <1>2, <1>5
  <2>2. /\ Returned("go", input, x, g) = decodeDict(input, p, g)
        /\ Returned("rust", input, x, r) = decode_dict(input, p, r)
    BY <1>2, <1>5, Zenon DEF Returned
  <2> QED
    BY <2>1, <2>2, DictsAgree
<1> QED
  BY <1>1, <1>3, <1>4, <1>5

-----------------------------------------------------------------------------
\* Panics.

LEMMA PanicFacts ==
  /\ \A v, p : Decoded(v, p) # Panic
  /\ \A p : Error(p) # Panic
BY DEF Decoded, Error, Panic

LEMMA ParserNeverPanics ==
  ASSUME NEW input, NEW p
  PROVE  parseInteger(input, p) # Panic
<1> DEFINE sign  == peek(input, p)
           start == IF sign \in {"-", "+"} THEN p + 1 ELSE p
           end   == DigitsEnd(input, start)
           magnitude == Number(SubSeq(input, start + 1, end))
           value == IF sign = "-" THEN - magnitude ELSE magnitude
<1>1. parseInteger(input, p) =
        IF end = start \/ magnitude > MaxInt THEN Error(start) ELSE Decoded(value, end)
  BY DEF parseInteger
<1> HIDE DEF sign, start, end, magnitude, value
<1> QED
  BY <1>1, PanicFacts

LEMMA IntegersNeverPanic ==
  ASSUME NEW input, NEW p
  PROVE  decodeInteger(input, p) # Panic
<1> DEFINE n == parseInteger(input, p + 1)
<1>1. n # Panic
  BY ParserNeverPanics
<1>2. decodeInteger(input, p) =
        IF ~ IsDecoded(n) THEN n
        ELSE IF peek(input, n.position) # "e" THEN Error(n.position)
        ELSE Decoded(Integer(n.value), n.position + 1)
  BY DEF decodeInteger
<1> HIDE DEF n
<1> QED
  BY <1>1, <1>2, PanicFacts

\* A string that makes Go panic has a length that wraps; Rust misses bytes.
LEMMA StringPanics ==
  ASSUME NEW input, IsInput(input), NEW p \in 0 .. Len(input),
         decodeString(input, p) = Panic
  PROVE  /\ LengthWraps(input)
         /\ decode_bytestring(input, p) = Error(Len(input))
         /\ IsDigit(peek(input, p)) \/ peek(input, p) \in {"+", "-"}
<1> DEFINE L    == Len(input)
           n    == parseInteger(input, p)
           from == n.position + 1
           end  == Wrapped(from + n.value)
<1>1. L \in Nat /\ L <= MaxInt /\ MaxInt \in Nat
  BY IntFacts DEF IsInput
<1>2. n # Panic
  BY ParserNeverPanics
<1>3. decodeString(input, p) =
        IF ~ IsDecoded(n) THEN n
        ELSE IF n.value < 0 THEN Error(p)
        ELSE IF peek(input, n.position) # ":" THEN Error(n.position)
        ELSE acceptRun(input, from, n.value)
  BY DEF decodeString
<1>4. /\ EndsAfter(input, p, n)
      /\ IsDecoded(n) =>
           /\ parse_int(input, p) = n /\ n.value \in Int
           /\ n.value <= MaxInt
           /\ IsDigit(peek(input, p)) \/ peek(input, p) \in {"+", "-"}
  BY ParsersAgree
<1> HIDE DEF n
<1>5. /\ IsDecoded(n) /\ ~ (n.value < 0) /\ peek(input, n.position) = ":"
      /\ acceptRun(input, from, n.value) = Panic
  BY <1>2, <1>3, PanicFacts
<1>6. n.position \in Nat /\ n.position <= L /\ n.value \in Nat
  BY <1>4, <1>5 DEF EndsAfter
<1>7. from \in Nat /\ from <= L
  <2>1. n.position < L
    BY <1>1, <1>5, <1>6, PeekFacts DEF Specials
  <2> QED
    BY <1>1, <1>6, <2>1
<1>8. ~ (end > L) /\ end < from
  <2>1. acceptRun(input, from, n.value) =
          IF end > L THEN Error(L)
          ELSE IF end < from THEN Panic
          ELSE Decoded(String(SubSeq(input, from + 1, end)), end)
    BY DEF acceptRun
  <2> HIDE DEF L, from, end
  <2> QED
    BY <1>5, <2>1, PanicFacts
<1>9. from + n.value > MaxInt
  <2> SUFFICES ASSUME ~ (from + n.value > MaxInt) PROVE FALSE
    OBVIOUS
  <2>1. from + n.value \in Int /\ 0 <= from + n.value /\ from + n.value <= MaxInt
    BY <1>1, <1>6, <1>7
  <2>2. end = from + n.value
    BY <2>1, WrappedFacts
  <2> QED
    BY <1>6, <1>7, <1>8, <2>2
<1>10. LengthWraps(input)
  BY <1>5, <1>9 DEF LengthWraps, n
<1>11. decode_bytestring(input, p) = Error(L)
  <2>1. L - from < n.value
    BY <1>1, <1>6, <1>7, <1>9
  <2>2. ~ (n.value < 0) /\ parse_int(input, p) = n
    BY <1>4, <1>5
  <2> QED
    BY <1>5, <2>1, <2>2 DEF decode_bytestring
<1> QED
  BY <1>4, <1>5, <1>10, <1>11

LEMMA RefusalsAreErrors ==
  ASSUME NEW input, NEW go, NEW rust, go = Panic, PanicsAtWrap(input, go, rust)
  PROVE  ~ IsDecoded(go) /\ ~ IsDecoded(rust)
BY ResultFacts, StopsAreErrors DEF PanicsAtWrap

\* What is to be shown of one call, of the calls below it.
PanicsBelow(input, x, g, r) ==
  \A y \in Calls(input) :
    Height(input, y) < Height(input, x) => PanicsAtWrap(input, g[y], r[y])

LEMMA PanicsLater ==
  ASSUME NEW input, IsInput(input), NEW p \in 0 .. Len(input),
         NEW loop \in {"value", "list", "dict"}, NEW g, NEW r,
         PanicsBelow(input, <<loop, p>>, g, r),
         NEW kind \in {"value", "list", "dict"}, NEW q \in Nat,
         p < q \/ (p = q /\ kind = "value" /\ loop # "value"), q <= Len(input)
  PROVE  PanicsAtWrap(input, g[kind, q], r[kind, q])
<1>1. PICK y : y = <<kind, q>>
  OBVIOUS
<1>2. y \in Calls(input) /\ Height(input, y) < Height(input, <<loop, p>>)
  <2>1. CASE p < q
    BY <1>1, <2>1, HeightFacts
  <2>2. CASE p = q /\ kind = "value" /\ loop # "value"
    BY <1>1, <2>2 DEF Calls, Height, IsInput
  <2> QED
    BY <2>1, <2>2
<1>3. PanicsAtWrap(input, g[y], r[y])
  BY <1>2 DEF PanicsBelow
<1>4. g[kind, q] = g[y] /\ r[kind, q] = r[y]
  BY <1>1
<1> QED
  BY <1>3, <1>4, Zenon

LEMMA ValuePanics ==
  ASSUME NEW input, IsInput(input), NEW p \in 0 .. Len(input), NEW g, NEW r,
         PanicsBelow(input, <<"value", p>>, g, r)
  PROVE  PanicsAtWrap(input, decodeScannerBencodeValue(input, p, g),
                      decode_value(input, p, r))
<1> DEFINE byte == peek(input, p)
           AtEnd == p >= Len(input)
           go   == decodeScannerBencodeValue(input, p, g)
           rust == decode_value(input, p, r)
<1>1. Len(input) \in Nat /\ p \in Nat
  BY DEF IsInput
<1>2. /\ ~ AtEnd => p < Len(input)
      /\ AtEnd => byte = "eof"
  BY <1>1, PeekFacts
<1>3. \A kind \in {"list", "dict"} :
        p < Len(input) => PanicsAtWrap(input, g[kind, p + 1], r[kind, p + 1])
  <2> SUFFICES ASSUME NEW kind \in {"list", "dict"}, p < Len(input)
               PROVE  PanicsAtWrap(input, g[kind, p + 1], r[kind, p + 1])
    OBVIOUS
  <2>1. PICK q \in Nat : q = p + 1 /\ p < q /\ q <= Len(input)
    BY <1>1
  <2>2. PanicsAtWrap(input, g[kind, q], r[kind, q])
    BY <2>1, PanicsLater
  <2> QED
    BY <2>1, <2>2
<1> HIDE DEF AtEnd
<1>4. go = CASE AtEnd       -> Error(p)
             [] byte = "i" -> decodeInteger(input, p)
             [] byte = "l" -> g["list", p + 1]
             [] byte = "d" -> g["dict", p + 1]
             [] OTHER      -> decodeString(input, p)
  BY DEF decodeScannerBencodeValue, AtEnd
<1>5. rust = CASE byte = "i"    -> decode_int(input, p)
               [] IsDigit(byte) -> decode_bytestring(input, p)
               [] byte = "l"    -> r["list", p + 1]
               [] byte = "d"    -> r["dict", p + 1]
               [] OTHER         -> Error(p)
  BY DEF decode_value
<1> HIDE DEF go, rust, byte
<1>6. \A b \in {"i", "l", "d"} : ~ IsDigit(b)
  BY ByteFacts DEF Specials
<1>7. CASE AtEnd
  <2>1. byte = "eof"
    BY <1>2, <1>7
  <2>2. go = Error(p)
    BY <1>4, <1>7, <2>1, Zenon
  <2> QED
    BY <2>2, PanicFacts DEF PanicsAtWrap, go
<1>8. CASE ~ AtEnd /\ byte = "i"
  <2>1. go = decodeInteger(input, p)
    BY <1>4, <1>8, Zenon
  <2> QED
    BY <2>1, IntegersNeverPanic DEF PanicsAtWrap, go
<1>9. CASE ~ AtEnd /\ byte = "l"
  <2>1. go = g["list", p + 1] /\ rust = r["list", p + 1]
    BY <1>4, <1>5, <1>6, <1>9, Zenon
  <2>2. p < Len(input) /\ "list" \in {"list", "dict"}
    BY <1>2, <1>9
  <2> QED
    BY <1>3, <2>1, <2>2, Zenon DEF go, rust
<1>10. CASE ~ AtEnd /\ byte = "d"
  <2>1. go = g["dict", p + 1] /\ rust = r["dict", p + 1]
    BY <1>4, <1>5, <1>6, <1>10, Zenon
  <2>2. p < Len(input) /\ "dict" \in {"list", "dict"}
    BY <1>2, <1>10
  <2> QED
    BY <1>3, <2>1, <2>2, Zenon DEF go, rust
<1>11. CASE ~ AtEnd /\ byte \notin {"i", "l", "d"}
  <2>1. go = decodeString(input, p)
    BY <1>4, <1>11, Zenon
  <2>2. IsDigit(byte) => rust = decode_bytestring(input, p)
    BY <1>5, <1>11, Zenon
  <2>3. ~ IsDigit(byte) => rust = Error(p)
    BY <1>5, <1>11, Zenon
  <2>4. go = Panic => /\ LengthWraps(input)
                      /\ decode_bytestring(input, p) = Error(Len(input))
                      /\ IsDigit(byte) \/ byte \in {"+", "-"}
    BY <2>1, StringPanics DEF byte
  <2>5. byte \in {"+", "-"} /\ rust = Error(p) => StopsAtSign(input, rust)
    BY DEF StopsAtSign, byte
  <2> QED
    BY <2>2, <2>3, <2>4, <2>5 DEF PanicsAtWrap, go, rust
<1> QED
  BY <1>7, <1>8, <1>9, <1>10, <1>11

\* A list or a dictionary, from its next value on: what both programs return if
\* either refuses the value or what comes after it.
LEMMA RestPanics ==
  ASSUME NEW input, NEW goValue, NEW rustValue, NEW goRest, NEW rustRest,
         NEW goWhole, NEW rustWhole,
         Agreed(input, goValue, rustValue), PanicsAtWrap(input, goValue, rustValue),
         IsDecoded(goValue) /\ goRest = Panic => LengthWraps(input),
         IsDecoded(goValue) /\ goValue = rustValue =>
           PanicsAtWrap(input, goRest, rustRest),
         ~ IsDecoded(goValue) => goWhole = goValue,
         ~ IsDecoded(rustValue) => rustWhole = rustValue,
         IsDecoded(goValue) /\ ~ IsDecoded(goRest) => goWhole = goRest,
         IsDecoded(goValue) /\ IsDecoded(goRest) => goWhole # Panic,
         IsDecoded(rustValue) /\ ~ IsDecoded(rustRest) => rustWhole = rustRest
  PROVE  PanicsAtWrap(input, goWhole, rustWhole)
<1> SUFFICES ASSUME goWhole = Panic
             PROVE  PanicsAtWrap(input, goWhole, rustWhole)
  BY DEF PanicsAtWrap
<1>1. CASE ~ IsDecoded(goValue)
  BY <1>1, RefusalsAreErrors
<1>2. CASE IsDecoded(goValue) /\ goValue = rustValue
  BY <1>2, RefusalsAreErrors
<1>3. CASE IsDecoded(goValue) /\ goValue # rustValue
  <2>1. StopsAtSign(input, rustValue) /\ rustWhole = rustValue
    BY <1>3, StopsAreErrors DEF Agreed
  <2>2. LengthWraps(input)
    BY <1>3
  <2> QED
    BY <2>1, <2>2 DEF PanicsAtWrap
<1> QED
  BY <1>1, <1>2, <1>3

LEMMA ListPanics ==
  ASSUME NEW input, IsInput(input), NEW p \in 0 .. Len(input), NEW g, NEW r,
         AgreedBelow(input, <<"list", p>>, g, r),
         PanicsBelow(input, <<"list", p>>, g, r)
  PROVE  PanicsAtWrap(input, decodeList(input, p, g), decode_list(input, p, r))
<1> DEFINE value(at) == at["value", p]
           rest(at)  == at["list", value(at).position]
           list(at)  == IF peek(input, p) = "e" THEN Decoded(List(<<>>), p + 1)
                        ELSE IF ~ IsDecoded(value(at)) THEN value(at)
                        ELSE IF ~ IsDecoded(rest(at)) THEN rest(at)
                        ELSE Decoded(List(<<value(at).value>> \o rest(at).value.list),
                                     rest(at).position)
<1>1. decodeList(input, p, g) = list(g) /\ decode_list(input, p, r) = list(r)
  BY DEF decodeList, decode_list
<1>2. Len(input) \in Nat /\ p \in Nat /\ p <= Len(input)
  BY DEF IsInput
<1>3. Agreed(input, value(g), value(r)) /\ EndsAfter(input, p, value(g))
  BY <1>2, AgreedLater
<1>4. PanicsAtWrap(input, value(g), value(r))
  BY <1>2, PanicsLater
<1>5. ASSUME IsDecoded(value(g))
      PROVE  /\ rest(g) = Panic => LengthWraps(input)
             /\ value(g) = value(r) => PanicsAtWrap(input, rest(g), rest(r))
  <2>1. PICK q : q = value(g).position
    OBVIOUS
  <2>2. q \in Nat /\ p < q /\ q <= Len(input)
    BY <1>3, <1>5, <2>1 DEF EndsAfter
  <2>3. PanicsAtWrap(input, g["list", q], r["list", q])
    BY <1>2, <2>2, PanicsLater
  <2>4. g["list", q] = Panic => LengthWraps(input)
    BY <2>3 DEF PanicsAtWrap
  <2> QED
    BY <2>1, <2>3, <2>4, Zenon
<1> HIDE DEF value, rest
<1>6. CASE peek(input, p) = "e"
  BY <1>1, <1>6, PanicFacts DEF PanicsAtWrap
<1>7. CASE peek(input, p) # "e"
  <2>1. /\ ~ IsDecoded(value(g)) => list(g) = value(g)
        /\ ~ IsDecoded(value(r)) => list(r) = value(r)
        /\ IsDecoded(value(g)) /\ ~ IsDecoded(rest(g)) => list(g) = rest(g)
        /\ IsDecoded(value(g)) /\ IsDecoded(rest(g)) => list(g) # Panic
        /\ IsDecoded(value(r)) /\ ~ IsDecoded(rest(r)) => list(r) = rest(r)
    BY <1>7, PanicFacts
  <2> HIDE DEF list
  <2> QED
    BY <1>1, <1>3, <1>4, <1>5, <2>1, RestPanics
<1> QED
  BY <1>6, <1>7

LEMMA DictPanics ==
  ASSUME NEW input, IsInput(input), NEW p \in 0 .. Len(input), NEW g, NEW r,
         AgreedBelow(input, <<"dict", p>>, g, r),
         PanicsBelow(input, <<"dict", p>>, g, r)
  PROVE  PanicsAtWrap(input, decodeDict(input, p, g), decode_dict(input, p, r))
<1> DEFINE key       == decodeString(input, p)
           value(at) == at["value", key.position]
           rest(at)  == at["dict", value(at).position]
           dict(at) ==
             IF peek(input, p) = "e" THEN Decoded(Dict(<<>>), p + 1)
             ELSE IF ~ IsDecoded(key) THEN key
             ELSE IF ~ IsDecoded(value(at)) THEN value(at)
             ELSE IF ~ IsDecoded(rest(at)) THEN rest(at)
             ELSE Decoded(Dict(rest(at).value.dict
                               @@ (key.value.string :> value(at).value)),
                          rest(at).position)
<1>1. /\ EndsAfter(input, p, key)
      /\ IsDecoded(key) => decode_bytestring(input, p) = key
  BY StringsAgree
<1>2. decodeDict(input, p, g) = dict(g)
  BY DEF decodeDict, Assigned
<1>3. IsDecoded(key) => decode_dict(input, p, r) = dict(r)
  <2> SUFFICES ASSUME IsDecoded(key) PROVE decode_dict(input, p, r) = dict(r)
    OBVIOUS
  <2>1. decode_bytestring(input, p) = key
    BY <1>1
  <2> HIDE DEF key
  <2> QED
    BY <2>1 DEF decode_dict
<1>4. Len(input) \in Nat /\ p \in Nat /\ p <= Len(input)
  BY DEF IsInput
<1>5. key = Panic => /\ LengthWraps(input)
                     /\ decode_bytestring(input, p) = Error(Len(input))
  BY StringPanics
<1> HIDE DEF key
<1>6. CASE peek(input, p) = "e"
  BY <1>2, <1>6, PanicFacts DEF PanicsAtWrap
<1>7. CASE peek(input, p) # "e" /\ ~ IsDecoded(key)
  <2>1. decodeDict(input, p, g) = key
    BY <1>2, <1>7
  <2>2. key = Panic => decode_dict(input, p, r) = Error(Len(input))
    <3> SUFFICES ASSUME key = Panic PROVE decode_dict(input, p, r) = Error(Len(input))
      OBVIOUS
    <3>1. /\ decode_bytestring(input, p) = Error(Len(input))
          /\ ~ IsDecoded(decode_bytestring(input, p))
      BY <1>5, ResultFacts
    <3> QED
      BY <1>7, <3>1 DEF decode_dict
  <2> QED
    BY <1>5, <2>1, <2>2 DEF PanicsAtWrap
<1>8. CASE peek(input, p) # "e" /\ IsDecoded(key)
  <2>1. PICK k : k = key.position
    OBVIOUS
  <2>2. k \in Nat /\ p < k /\ k <= Len(input)
    BY <1>1, <1>8, <2>1 DEF EndsAfter
  <2>3. Agreed(input, value(g), value(r)) /\ EndsAfter(input, k, value(g))
    <3>1. Agreed(input, g["value", k], r["value", k]) /\ EndsAfter(input, k, g["value", k])
      BY <1>4, <2>2, AgreedLater
    <3> QED
      BY <2>1, <3>1, Zenon
  <2>4. PanicsAtWrap(input, value(g), value(r))
    <3>1. PanicsAtWrap(input, g["value", k], r["value", k])
      BY <1>4, <2>2, PanicsLater
    <3> QED
      BY <2>1, <3>1, Zenon
  <2>5. \A q \in Nat : k < q => p < q
    BY <1>4, <2>2
  <2>6. ASSUME IsDecoded(value(g))
        PROVE  /\ rest(g) = Panic => LengthWraps(input)
               /\ value(g) = value(r) => PanicsAtWrap(input, rest(g), rest(r))
    <3>1. PICK q : q = value(g).position
      OBVIOUS
    <3>2. q \in Nat /\ k < q /\ q <= Len(input)
      BY <2>3, <2>6, <3>1 DEF EndsAfter
    <3>3. p < q
      BY <2>5, <3>2, Zenon
    <3>4. PanicsAtWrap(input, g["dict", q], r["dict", q])
      BY <1>4, <3>2, <3>3, PanicsLater
    <3>5. g["dict", q] = Panic => LengthWraps(input)
      BY <3>4 DEF PanicsAtWrap
    <3> QED
      BY <3>1, <3>4, <3>5, Zenon
  <2> HIDE DEF value, rest
  <2>7. /\ ~ IsDecoded(value(g)) => dict(g) = value(g)
        /\ ~ IsDecoded(value(r)) => dict(r) = value(r)
        /\ IsDecoded(value(g)) /\ ~ IsDecoded(rest(g)) => dict(g) = rest(g)
        /\ IsDecoded(value(g)) /\ IsDecoded(rest(g)) => dict(g) # Panic
        /\ IsDecoded(value(r)) /\ ~ IsDecoded(rest(r)) => dict(r) = rest(r)
    BY <1>8, PanicFacts
  <2> HIDE DEF dict
  <2>8. PanicsAtWrap(input, dict(g), dict(r))
    BY <2>3, <2>4, <2>6, <2>7, RestPanics
  <2> QED
    BY <1>2, <1>3, <1>8, <2>8
<1> QED
  BY <1>6, <1>7, <1>8

LEMMA CallPanics ==
  ASSUME NEW input, IsInput(input), NEW x \in Calls(input), NEW g, NEW r,
         AgreedBelow(input, x, g, r), PanicsBelow(input, x, g, r)
  PROVE  PanicsAtWrap(input, Returned("go", input, x, g),
                      Returned("rust", input, x, r))
<1>1. /\ x[1] \in {"value", "list", "dict"} /\ x[2] \in 0 .. Len(input)
      /\ x = <<x[1], x[2]>>
  BY DEF Calls
<1>2. PICK p \in 0 .. Len(input) : p = x[2]
  BY <1>1
<1>3. CASE x[1] = "value"
  <2>1. PanicsBelow(input, <<"value", p>>, g, r)
    BY <1>1, <1>2, <1>3
  <2>2. /\ Returned("go", input, x, g) = decodeScannerBencodeValue(input, p, g)
        /\ Returned("rust", input, x, r) = decode_value(input, p, r)
    BY <1>2, <1>3, Zenon DEF Returned
  <2> QED
    BY <2>1, <2>2, ValuePanics
<1>4. CASE x[1] = "list"
  <2>1. AgreedBelow(input, <<"list", p>>, g, r) /\ PanicsBelow(input, <<"list", p>>, g, r)
    BY <1>1, <1>2, <1>4
  <2>2. /\ Returned("go", input, x, g) = decodeList(input, p, g)
        /\ Returned("rust", input, x, r) = decode_list(input, p, r)
    BY <1>2, <1>4, Zenon DEF Returned
  <2> QED
    BY <2>1, <2>2, ListPanics
<1>5. CASE x[1] = "dict"
  <2>1. AgreedBelow(input, <<"dict", p>>, g, r) /\ PanicsBelow(input, <<"dict", p>>, g, r)
    BY <1>1, <1>2, <1>5
  <2>2. /\ Returned("go", input, x, g) = decodeDict(input, p, g)
        /\ Returned("rust", input, x, r) = decode_dict(input, p, r)
    BY <1>2, <1>5, Zenon DEF Returned
  <2> QED
    BY <2>1, <2>2, DictPanics
<1> QED
  BY <1>1, <1>3, <1>4, <1>5

-----------------------------------------------------------------------------
\* The theorems.

\* Both decoders return something for every datagram, wherever in it they are
\* called: no chain of calls goes on for ever.  Each value, list or dictionary
\* that is decoded took at least a byte, and none that is not there: position
\* and cursor only move on, and never past the end.
THEOREM DecodersReadOn ==
  ASSUME NEW input, IsInput(input)
  PROVE  /\ \A x \in Calls(input) :
              /\ decodeAt(input)[x] = Returned("go", input, x, decodeAt(input))
              /\ EndsAfter(input, x[2], decodeAt(input)[x])
         /\ \A x \in Calls(input) :
              /\ decode_at(input)[x] = Returned("rust", input, x, decode_at(input))
              /\ EndsAfter(input, x[2], decode_at(input)[x])
BY DecoderFacts, DecoderReadsOn

\* Whatever bytes a datagram consists of, and whatever is decoded wherever in
\* it, the two programs agree: decodeBencodeDict, with which the Go node reads a
\* message, is a call as well as decodeBencodeValue.
THEOREM AgreedOnAllCalls ==
  ASSUME NEW input, IsInput(input)
  PROVE  \A x \in Calls(input) : Agreed(input, decodeAt(input)[x], decode_at(input)[x])
<1> DEFINE g == decodeAt(input)
           r == decode_at(input)
           Reached == {m \in 0 .. Top(input) :
                         \A x \in Calls(input) :
                           Height(input, x) < m => Agreed(input, g[x], r[x])}
<1>1. /\ Top(input) \in Nat
      /\ \A x \in Calls(input) :
           Height(input, x) \in Nat /\ Height(input, x) < Top(input)
  BY HeightType
<1>2. \A x \in Calls(input) : /\ g[x] = Returned("go", input, x, g)
                              /\ EndsAfter(input, x[2], g[x])
                              /\ r[x] = Returned("rust", input, x, r)
  BY DecodersReadOn
<1> HIDE DEF g, r
<1>3. 0 \in Reached
  BY <1>1
<1>4. \A m \in 1 .. Top(input) : m - 1 \in Reached => m \in Reached
  <2> SUFFICES ASSUME NEW m \in 1 .. Top(input), m - 1 \in Reached,
                      NEW x \in Calls(input), Height(input, x) < m
               PROVE  Agreed(input, g[x], r[x])
    BY <1>1
  <2>1. ASSUME NEW y \in Calls(input), Height(input, y) < Height(input, x)
        PROVE  Agreed(input, g[y], r[y]) /\ EndsAfter(input, y[2], g[y])
    <3>1. Height(input, y) < m - 1
      BY <1>1, <2>1
    <3> QED
      BY <1>2, <3>1
  <2>2. AgreedBelow(input, x, g, r)
    BY <2>1 DEF AgreedBelow
  <2>3. Agreed(input, Returned("go", input, x, g), Returned("rust", input, x, r))
    BY <2>2, CallsAgree
  <2> QED
    BY <1>2, <2>3
<1>5. \A m \in 0 .. Top(input) : m \in Reached
  <2> HIDE DEF Reached
  <2> QED
    BY <1>1, <1>3, <1>4, CountingUp
<1>6. Top(input) \in Reached
  <2> HIDE DEF Reached
  <2> QED
    BY <1>1, <1>5
<1>7. \A x \in Calls(input) : Agreed(input, g[x], r[x])
  BY <1>1, <1>6
<1> QED
  BY <1>7, Zenon DEF g, r

\* Whatever is decoded wherever in a datagram: where decodeScannerBencodeValue,
\* decodeList or decodeDict panics, a length is too large to be added to its
\* position, and the Rust decoder misses bytes or stops at a sign.
THEOREM PanicsOnAllCalls ==
  ASSUME NEW input, IsInput(input)
  PROVE  \A x \in Calls(input) :
           PanicsAtWrap(input, decodeAt(input)[x], decode_at(input)[x])
<1> DEFINE g == decodeAt(input)
           r == decode_at(input)
           Reached == {m \in 0 .. Top(input) :
                         \A x \in Calls(input) :
                           Height(input, x) < m => PanicsAtWrap(input, g[x], r[x])}
<1>1. /\ Top(input) \in Nat
      /\ \A x \in Calls(input) :
           Height(input, x) \in Nat /\ Height(input, x) < Top(input)
  BY HeightType
<1>2. \A x \in Calls(input) : /\ g[x] = Returned("go", input, x, g)
                              /\ EndsAfter(input, x[2], g[x])
                              /\ r[x] = Returned("rust", input, x, r)
  BY DecodersReadOn
<1>3. \A x \in Calls(input) : Agreed(input, g[x], r[x])
  BY AgreedOnAllCalls
<1> HIDE DEF g, r
<1>4. 0 \in Reached
  BY <1>1
<1>5. \A m \in 1 .. Top(input) : m - 1 \in Reached => m \in Reached
  <2> SUFFICES ASSUME NEW m \in 1 .. Top(input), m - 1 \in Reached,
                      NEW x \in Calls(input), Height(input, x) < m
               PROVE  PanicsAtWrap(input, g[x], r[x])
    BY <1>1
  <2>1. ASSUME NEW y \in Calls(input), Height(input, y) < Height(input, x)
        PROVE  PanicsAtWrap(input, g[y], r[y])
    <3>1. Height(input, y) < m - 1
      BY <1>1, <2>1
    <3> QED
      BY <3>1
  <2>2. AgreedBelow(input, x, g, r) /\ PanicsBelow(input, x, g, r)
    BY <1>2, <1>3, <2>1 DEF AgreedBelow, PanicsBelow
  <2>3. PanicsAtWrap(input, Returned("go", input, x, g), Returned("rust", input, x, r))
    BY <2>2, CallPanics
  <2> QED
    BY <1>2, <2>3
<1>6. \A m \in 0 .. Top(input) : m \in Reached
  <2> HIDE DEF Reached
  <2> QED
    BY <1>1, <1>4, <1>5, CountingUp
<1>7. Top(input) \in Reached
  <2> HIDE DEF Reached
  <2> QED
    BY <1>1, <1>6
<1>8. \A x \in Calls(input) : PanicsAtWrap(input, g[x], r[x])
  BY <1>1, <1>7
<1> QED
  BY <1>8, Zenon DEF g, r

\* A datagram consists of bytes, and fits the buffer.
THEOREM TypeCorrect == Spec => []TypeOK
<1>1. Init => TypeOK
  BY LengthAssumption DEF Init, TypeOK
<1>2. TypeOK /\ [Next]_vars => TypeOK'
  <2> SUFFICES ASSUME TypeOK, [Next]_vars PROVE TypeOK'
    OBVIOUS
  <2>1. ASSUME NEW piece \in Pieces, Spell(piece) PROVE TypeOK'
    <3>1. piece \in Seq(ToSet(Bytes)) /\ datagram \in Seq(ToSet(Bytes))
      BY PiecesAssumption DEF TypeOK
    <3>2. /\ datagram \o piece \in Seq(ToSet(Bytes))
          /\ Len(datagram \o piece) = Len(datagram) + Len(piece)
      BY <3>1, ConcatProperties
    <3> QED
      BY <2>1, <3>2 DEF Spell, TypeOK
  <2>2. CASE UNCHANGED vars
    BY <2>2 DEF TypeOK, vars
  <2> QED
    BY <2>1, <2>2 DEF Next
<1> QED
  BY <1>1, <1>2, PTL DEF Spec

\* However a datagram is spelt, what decodeBencodeValue and Bencode::decode
\* make of it agrees.
THEOREM DecodersAlwaysAgree == Spec => []DecodersAgree
<1>1. TypeOK => DecodersAgree
  <2> SUFFICES ASSUME TypeOK PROVE DecodersAgree
    OBVIOUS
  <2>1. IsInput(datagram)
    <3>1. Len(datagram) \in Nat
      BY DEF TypeOK
    <3> QED
      BY <3>1, IntFacts, LengthAssumption DEF TypeOK, IsInput
  <2>2. PICK x : x = <<"value", 0>>
    OBVIOUS
  <2>3. x \in Calls(datagram)
    BY <2>1, <2>2 DEF Calls, IsInput
  <2>4. Agreed(datagram, decodeAt(datagram)[x], decode_at(datagram)[x])
    BY <2>1, <2>3, AgreedOnAllCalls
  <2> QED
    BY <2>2, <2>4, Zenon
    DEF DecodersAgree, goResult, rustResult, decodeBencodeValue, decode
<1> QED
  BY <1>1, TypeCorrect, PTL

\* However a datagram is spelt, decodeBencodeValue panics on it for nothing but a
\* length that does not fit an int with its position.
THEOREM NothingElsePanics == Spec => []OnlyWrappedLengthsPanic
<1>1. TypeOK => OnlyWrappedLengthsPanic
  <2> SUFFICES ASSUME TypeOK PROVE OnlyWrappedLengthsPanic
    OBVIOUS
  <2>1. IsInput(datagram)
    <3>1. Len(datagram) \in Nat
      BY DEF TypeOK
    <3> QED
      BY <3>1, IntFacts, LengthAssumption DEF TypeOK, IsInput
  <2>2. PICK x : x = <<"value", 0>>
    OBVIOUS
  <2>3. x \in Calls(datagram)
    BY <2>1, <2>2 DEF Calls, IsInput
  <2>4. PanicsAtWrap(datagram, decodeAt(datagram)[x], decode_at(datagram)[x])
    BY <2>1, <2>3, PanicsOnAllCalls
  <2> QED
    BY <2>2, <2>4, Zenon
    DEF OnlyWrappedLengthsPanic, goResult, rustResult, decodeBencodeValue, decode
<1> QED
  BY <1>1, TypeCorrect, PTL

=============================================================================
