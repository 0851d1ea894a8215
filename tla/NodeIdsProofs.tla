--------------------------- MODULE NodeIdsProofs ---------------------------
(***************************************************************************)
(* Facts about prefix lengths, for identifiers of every width, and about   *)
(* loops of every length.                                                 *)
(***************************************************************************)
EXTENDS NodeIds, FiniteSetTheorems, SequenceTheorems, WellFoundedInduction, TLAPS

\* Two identifiers that differ have a first bit at which they differ.
LEMMA FirstDifference ==
  ASSUME NEW a \in NodeId, NEW b \in NodeId, a # b
  PROVE  \E n \in BitIndex : a[n] # b[n] /\ \A j \in 0 .. n - 1 : a[j] = b[j]
<1> USE IdBitsAssumption
<1> DEFINE Differ == {n \in BitIndex : a[n] # b[n]}
<1>1. Differ # {} /\ Differ \subseteq Nat
  BY DEF NodeId, BitIndex
<1>2. \E n \in Differ : \A j \in Differ : ~ (<<j, n>> \in OpToRel(<, Nat))
  <2> HIDE DEF Differ
  <2> QED
    BY <1>1, NatLessThanWellFounded, WFMin
<1>3. PICK n \in Differ : \A j \in Differ : ~ (<<j, n>> \in OpToRel(<, Nat))
  BY <1>2
<1>4. \A j \in Differ : ~ (j < n)
  BY <1>1, <1>3 DEF OpToRel
<1>5. \A j \in 0 .. n - 1 : a[j] = b[j]
  BY <1>4 DEF BitIndex
<1> QED
  BY <1>5

\* commonPrefixLength returns how many leading bits are equal: no more, since
\* the next one differs, and no fewer.
THEOREM PrefixLengthFacts ==
  ASSUME NEW a \in NodeId, NEW b \in NodeId
  PROVE  /\ commonPrefixLength(a, b) \in 0 .. IdBits
         /\ \A j \in 0 .. commonPrefixLength(a, b) - 1 : a[j] = b[j]
         /\ commonPrefixLength(a, b) < IdBits =>
              a[commonPrefixLength(a, b)] # b[commonPrefixLength(a, b)]
<1> USE IdBitsAssumption
<1> DEFINE IsPrefixLength(n) == /\ \A j \in 0 .. n - 1 : a[j] = b[j]
                                /\ n < IdBits => a[n] # b[n]
<1>1. \E n \in 0 .. IdBits : IsPrefixLength(n)
  <2>1. CASE a = b
    BY <2>1
  <2>2. CASE a # b
    BY <2>2, FirstDifference DEF BitIndex
  <2> QED
    BY <2>1, <2>2
<1>2. commonPrefixLength(a, b) = CHOOSE n \in 0 .. IdBits : IsPrefixLength(n)
  BY DEF commonPrefixLength
<1> HIDE DEF IsPrefixLength
<1>3. /\ commonPrefixLength(a, b) \in 0 .. IdBits
      /\ IsPrefixLength(commonPrefixLength(a, b))
  BY <1>1, <1>2
<1> QED
  BY <1>3 DEF IsPrefixLength

\* Which side of bit m an identifier falls on, among those that share the
\* first m bits: what splitAt and the two cases of a split rely on.
LEMMA PrefixLengthAtBit ==
  ASSUME NEW a \in NodeId, NEW b \in NodeId, NEW m \in BitIndex,
         commonPrefixLength(a, b) >= m
  PROVE  /\ a[m] = b[m] <=> commonPrefixLength(a, b) >= m + 1
         /\ a[m] # b[m] <=> commonPrefixLength(a, b) = m
<1> USE IdBitsAssumption
<1>1. commonPrefixLength(a, b) \in 0 .. IdBits
  BY PrefixLengthFacts
<1>2. commonPrefixLength(a, b) >= m + 1 => a[m] = b[m]
  BY <1>1, PrefixLengthFacts DEF BitIndex
<1>3. commonPrefixLength(a, b) = m => a[m] # b[m]
  BY <1>1, PrefixLengthFacts DEF BitIndex
<1> QED
  BY <1>1, <1>2, <1>3 DEF BitIndex

\* Only an identifier itself shares all its bits.
LEMMA FullPrefixIsSame ==
  ASSUME NEW a \in NodeId, NEW b \in NodeId
  PROVE  commonPrefixLength(a, b) = IdBits <=> a = b
<1> USE IdBitsAssumption
<1>1. ASSUME commonPrefixLength(a, b) = IdBits PROVE a = b
  <2>1. \A j \in BitIndex : a[j] = b[j]
    BY <1>1, PrefixLengthFacts DEF BitIndex
  <2> QED
    BY <2>1 DEF NodeId
<1>2. ASSUME a = b PROVE commonPrefixLength(a, b) = IdBits
  BY <1>2, PrefixLengthFacts
<1> QED
  BY <1>1, <1>2

\* The Go and the Rust program agree on the length of a common prefix,
\* although one compares bytes and the other counts the zeros of the XOR.
THEOREM PrefixLengthsAgree ==
  ASSUME NEW a \in NodeId, NEW b \in NodeId
  PROVE  common_prefix_length(a, b) = commonPrefixLength(a, b)
<1> USE IdBitsAssumption
<1> DEFINE ones == {i \in BitIndex : distance(a, b)[i] = 1}
           n    == commonPrefixLength(a, b)
<1>1. ones = {i \in BitIndex : a[i] # b[i]}
  BY DEF distance
<1>2. CASE a = b
  <2>1. ones = {}
    BY <1>1, <1>2
  <2> QED
    BY <1>2, <2>1, FullPrefixIsSame DEF common_prefix_length
<1>3. CASE a # b
  <2>1. n \in BitIndex /\ a[n] # b[n] /\ \A j \in 0 .. n - 1 : a[j] = b[j]
    BY <1>3, FullPrefixIsSame, PrefixLengthFacts DEF BitIndex
  <2>2. n \in ones /\ \A j \in ones : n <= j
    BY <1>1, <2>1 DEF BitIndex
  <2>3. \A i \in ones : (\A j \in ones : i <= j) => i = n
    BY <2>2 DEF BitIndex
  <2>4. (CHOOSE i \in ones : \A j \in ones : i <= j) = n
    <3> HIDE DEF ones
    <3> QED
      BY <2>2, <2>3
  <2> QED
    BY <2>2, <2>4 DEF common_prefix_length
<1> QED
  BY <1>2, <1>3

\* Of the identifiers that share p bits with another one there are no more than
\* there are choices of the other bits.
LEMMA SharingIdsCounted ==
  ASSUME NEW a \in NodeId, NEW p \in 0 .. IdBits, NEW T \in SUBSET NodeId,
         \A id \in T : commonPrefixLength(a, id) >= p
  PROVE  /\ IsFiniteSet(T)
         /\ 2 ^ (IdBits - p) \in Nat
         /\ Cardinality(T) <= 2 ^ (IdBits - p)
<1> USE IdBitsAssumption
<1> DEFINE Rest == p .. IdBits - 1
           f    == [id \in T |-> {i \in Rest : id[i] = 1}]
<1>1. IsFiniteSet(Rest) /\ Cardinality(Rest) = IdBits - p
  BY FS_Interval
<1>2. IsFiniteSet(SUBSET Rest) /\ Cardinality(SUBSET Rest) = 2 ^ Cardinality(Rest)
  <2> HIDE DEF Rest
  <2> QED
    BY <1>1, FS_SUBSET
<1>3. ASSUME NEW x \in T, NEW y \in T, f[x] = f[y]
      PROVE  x = y
  <2>1. \A i \in Rest : x[i] = y[i]
    <3>1. ASSUME NEW i \in Rest
          PROVE  x[i] \in {0, 1} /\ y[i] \in {0, 1} /\ (x[i] = 1 <=> y[i] = 1)
      BY <1>3 DEF NodeId, BitIndex
    <3> QED
      BY <3>1
  <2>2. ASSUME NEW i \in 0 .. p - 1
        PROVE  x[i] = y[i]
    <3>1. /\ commonPrefixLength(a, x) \in 0 .. IdBits
          /\ commonPrefixLength(a, y) \in 0 .. IdBits
          /\ commonPrefixLength(a, x) >= p /\ commonPrefixLength(a, y) >= p
      BY PrefixLengthFacts
    <3>2. /\ i \in 0 .. commonPrefixLength(a, x) - 1
          /\ i \in 0 .. commonPrefixLength(a, y) - 1
      BY <3>1
    <3>3. a[i] = x[i] /\ a[i] = y[i]
      BY <3>2, PrefixLengthFacts
    <3> QED
      BY <3>3
  <2>3. \A i \in BitIndex : i \in Rest \/ i \in 0 .. p - 1
    BY DEF BitIndex
  <2> QED
    BY <2>1, <2>2, <2>3 DEF NodeId
<1>4. f \in Injection(T, SUBSET Rest)
  <2>1. f \in [T -> SUBSET Rest]
    OBVIOUS
  <2> HIDE DEF f
  <2> QED
    BY <1>3, <2>1 DEF Injection, IsInjective
<1>5. IsFiniteSet(T) /\ Cardinality(T) <= Cardinality(SUBSET Rest)
  <2> HIDE DEF f, Rest
  <2> QED
    BY <1>2, <1>4, FS_Injection
<1> HIDE DEF Rest
<1>6. Cardinality(SUBSET Rest) \in Nat
  BY <1>2, FS_CardinalityType
<1> QED
  BY <1>1, <1>2, <1>5, <1>6

-----------------------------------------------------------------------------
\* Loops.  The modules write a loop as a function of the number of iterations
\* done; these lemmas take the place of an induction over that number.

\* What holds before the first iteration, and after each one if it held
\* before, holds after any number of them.
LEMMA CountingUp ==
  ASSUME NEW N \in Nat, NEW G, 0 \in G, \A n \in 1 .. N : n - 1 \in G => n \in G
  PROVE  \A n \in 0 .. N : n \in G
<1> DEFINE Missing == {n \in 0 .. N : n \notin G}
<1> SUFFICES ASSUME Missing # {} PROVE FALSE
  OBVIOUS
<1>1. Missing \subseteq Nat
  OBVIOUS
<1>2. \E n \in Missing : \A j \in Missing : ~ (<<j, n>> \in OpToRel(<, Nat))
  <2> HIDE DEF Missing
  <2> QED
    BY <1>1, NatLessThanWellFounded, WFMin
<1>3. PICK n \in Missing : \A j \in Missing : ~ (<<j, n>> \in OpToRel(<, Nat))
  BY <1>2
<1>4. \A j \in Missing : ~ (j < n)
  BY <1>1, <1>3 DEF OpToRel
<1>5. n \in 1 .. N /\ n - 1 \notin Missing
  BY <1>4
<1> QED
  BY <1>5

\* What each of N iterations does to a value of V.
Steps(N, V) == [1 .. N -> [V -> V]]

\* There is a function with a first value and a step from each value to the next.
LEMMA IterationExists ==
  ASSUME NEW N \in Nat, NEW V, NEW v0 \in V, NEW step \in Steps(N, V)
  PROVE  \E f \in [0 .. N -> V] :
           f[0] = v0 /\ \A n \in 1 .. N : f[n] = step[n][f[n - 1]]
<1> DEFINE Follows(f, m) == /\ f[0] = v0
                            /\ \A n \in 1 .. m : f[n] = step[n][f[n - 1]]
           G == {m \in 0 .. N : \E f \in [0 .. m -> V] : Follows(f, m)}
<1>1. 0 \in G
  <2> DEFINE g == [n \in 0 .. 0 |-> v0]
  <2>1. g \in [0 .. 0 -> V] /\ g[0] = v0
    OBVIOUS
  <2> HIDE DEF g
  <2>2. Follows(g, 0)
    BY <2>1
  <2>3. 0 \in 0 .. N
    OBVIOUS
  <2> QED
    BY <2>1, <2>2, <2>3
<1>2. ASSUME NEW m \in 1 .. N, m - 1 \in G
      PROVE  m \in G
  <2>1. PICK f \in [0 .. m - 1 -> V] : Follows(f, m - 1)
    BY <1>2
  <2> DEFINE g == [n \in 0 .. m |-> IF n = m THEN step[m][f[m - 1]] ELSE f[n]]
  <2>2. step[m][f[m - 1]] \in V
    BY DEF Steps
  <2>3. g \in [0 .. m -> V]
    BY <2>2
  <2>4. \A n \in 1 .. m - 1 : g[n] = f[n] /\ g[n - 1] = f[n - 1]
    OBVIOUS
  <2>5. g[0] = f[0] /\ g[m] = step[m][f[m - 1]] /\ g[m - 1] = f[m - 1]
    OBVIOUS
  <2> HIDE DEF g
  <2>6. Follows(g, m)
    <3>1. \A n \in 1 .. m : n \in 1 .. m - 1 \/ n = m
      OBVIOUS
    <3> QED
      BY <2>1, <2>4, <2>5, <3>1
  <2> QED
    BY <2>3, <2>6
<1>3. N \in G
  <2>1. \A m \in 1 .. N : m - 1 \in G => m \in G
    BY <1>2
  <2> HIDE DEF G
  <2>2. \A m \in 0 .. N : m \in G
    BY <1>1, <2>1, CountingUp
  <2> QED
    BY <2>2
<1> QED
  BY <1>3

\* What is appended to a list of at most `size` elements while there is space:
\* both programs fill their answers so.  A list that still has space took all.
LEMMA FillFacts ==
  ASSUME NEW T, NEW s \in Seq(T), NEW b \in Seq(T), NEW size \in Nat,
         Len(s) <= size
  PROVE  LET room == size - Len(s)
             new  == s \o SubSeq(b, 1, IF room < Len(b) THEN room ELSE Len(b))
         IN  /\ new \in Seq(T)
             /\ Len(new) \in Nat /\ Len(s) <= Len(new) /\ Len(new) <= size
             /\ DOMAIN new = 1 .. Len(new)
             /\ \A j \in 1 .. Len(s) : new[j] = s[j]
             /\ \A j \in 1 .. Len(new) :
                  j > Len(s) => /\ j - Len(s) \in 1 .. Len(b)
                                /\ new[j] = b[j - Len(s)]
             /\ Len(new) < size => Len(new) = Len(s) + Len(b)
<1> DEFINE room == size - Len(s)
           taken == IF room < Len(b) THEN room ELSE Len(b)
           part == SubSeq(b, 1, taken)
           new  == s \o part
<1>1. Len(s) \in Nat /\ Len(b) \in Nat
  BY LenProperties
<1>2. taken \in Nat /\ taken <= room /\ taken <= Len(b)
      /\ (taken < room => taken = Len(b))
  BY <1>1
<1> HIDE DEF taken
<1>3. \A i \in 1 .. taken : b[i] \in T
  BY <1>1, <1>2, ElementOfSeq
<1>4. /\ part \in Seq(T)
      /\ Len(part) = taken
      /\ \A i \in 1 .. taken : part[i] = b[i]
  <2>1. /\ part \in Seq(T)
        /\ Len(part) = IF 1 <= taken THEN taken - 1 + 1 ELSE 0
        /\ \A i \in 1 .. taken - 1 + 1 : part[i] = b[1 + i - 1]
    BY <1>2, <1>3, SubSeqProperties
  <2> HIDE DEF part
  <2> QED
    BY <1>2, <2>1
<1> HIDE DEF part
<1>5. /\ new \in Seq(T)
      /\ Len(new) = Len(s) + taken
      /\ \A i \in 1 .. Len(s) + taken :
           new[i] = IF i <= Len(s) THEN s[i] ELSE part[i - Len(s)]
  BY <1>4, ConcatProperties
<1>6. DOMAIN new = 1 .. Len(new)
  BY <1>5, LenProperties
<1> HIDE DEF new
<1>7. \A j \in 1 .. Len(s) : new[j] = s[j]
  BY <1>1, <1>2, <1>5
<1>8. ASSUME NEW j \in 1 .. Len(new), j > Len(s)
      PROVE  j - Len(s) \in 1 .. Len(b) /\ new[j] = b[j - Len(s)]
  <2>1. j - Len(s) \in 1 .. taken
    BY <1>1, <1>2, <1>5, <1>8
  <2>2. new[j] = part[j - Len(s)]
    BY <1>1, <1>2, <1>5, <1>8
  <2> QED
    BY <1>1, <1>2, <1>4, <2>1, <2>2
<1>9. /\ Len(new) \in Nat /\ Len(s) <= Len(new) /\ Len(new) <= size
      /\ Len(new) < size => Len(new) = Len(s) + Len(b)
  BY <1>1, <1>2, <1>5
<1> QED
  BY <1>5, <1>6, <1>7, <1>8, <1>9 DEF new, part, taken

\* A sequence that repeats nothing has as many elements as it is long.
LEMMA ElementsCounted ==
  ASSUME NEW n \in Nat, NEW f, NEW elements,
         \A j \in 1 .. n : f[j] \in elements,
         \A x \in elements : \E j \in 1 .. n : x = f[j],
         \A j, k \in 1 .. n : f[j] = f[k] => j = k
  PROVE  IsFiniteSet(elements) /\ Cardinality(elements) = n
<1> DEFINE D == 1 .. n
           g == [j \in D |-> f[j]]
<1>1. IsFiniteSet(D) /\ Cardinality(D) = n
  BY FS_Interval
<1>2. /\ g \in [D -> elements]
      /\ \A x \in elements : \E j \in D : g[j] = x
      /\ \A j, k \in D : g[j] = g[k] => j = k
  OBVIOUS
<1> HIDE DEF D, g
<1>3. ExistsBijection(D, elements)
  BY <1>2 DEF ExistsBijection, Bijection, Injection, Surjection, IsInjective
<1> QED
  BY <1>1, <1>3, FS_Bijection

=============================================================================
