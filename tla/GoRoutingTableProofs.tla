------------------------ MODULE GoRoutingTableProofs ------------------------
(***************************************************************************)
(* Safety of the Go routing table, for every identifier width, bucket size *)
(* and set of contacts offered.  IInv is inductive: no conjunct of it is   *)
(* without the others, since a split keeps contacts in their buckets only  *)
(* if they were, and a bucket within its size only if it was.              *)
(*                                                                         *)
(* The later sections prove that the table implements PrefixClasses, what  *)
(* findNode answers to a reader of it, that splitAt as written is the      *)
(* split of the model, and that the recursion of addEntryRec is bounded.   *)
(***************************************************************************)
EXTENDS GoFindNode, NodeIdsProofs, FiniteSetTheorems, SequenceTheorems, TLAPS

-----------------------------------------------------------------------------
\* Subsequence, for sequences of every length: what the proofs use instead of an
\* induction over the bucket.

\* The rank of a chosen position is a number between 1 and how many positions
\* are chosen, and no two chosen positions have the same rank.
LEMMA RankIsInjective ==
  ASSUME NEW n \in Nat, NEW P \in SUBSET (1 .. n)
  PROVE  /\ IsFiniteSet(P)
         /\ Cardinality(P) \in 0 .. n
         /\ \A i \in P : Rank(P, i) \in 1 .. Cardinality(P)
         /\ \A i, k \in P : Rank(P, i) = Rank(P, k) => i = k
<1>1. IsFiniteSet(1 .. n) /\ Cardinality(1 .. n) = n
  BY FS_Interval
<1>2. IsFiniteSet(P) /\ Cardinality(P) \in 0 .. n
  <2>1. IsFiniteSet(P) /\ Cardinality(P) <= n
    BY <1>1, FS_Subset
  <2> QED
    BY <2>1, FS_CardinalityType
<1> DEFINE UpTo(i) == {x \in P : x <= i}
<1>3. ASSUME NEW i \in P
      PROVE  IsFiniteSet(UpTo(i)) /\ Rank(P, i) \in 1 .. Cardinality(P)
  <2>1. IsFiniteSet(UpTo(i)) /\ Cardinality(UpTo(i)) <= Cardinality(P)
    BY <1>2, FS_Subset
  <2>2. i \in UpTo(i)
    OBVIOUS
  <2>3. Cardinality(UpTo(i)) \in Nat /\ Cardinality(UpTo(i)) # 0
    BY <2>1, <2>2, FS_CardinalityType, FS_EmptySet
  <2> QED
    BY <1>2, <2>1, <2>3 DEF Rank
<1>4. ASSUME NEW i \in P, NEW k \in P, i < k
      PROVE  Rank(P, i) # Rank(P, k)
  <2> i \in Int /\ k \in Int /\ P \subseteq Int
    OBVIOUS
  <2>1. UpTo(i) \subseteq UpTo(k)
    <3> SUFFICES ASSUME NEW x \in P, x <= i PROVE x <= k
      OBVIOUS
    <3> x \in Int
      OBVIOUS
    <3> QED
      BY <1>4
  <2>2. k \in UpTo(k) /\ k \notin UpTo(i)
    BY <1>4
  <2>3. Cardinality(UpTo(i)) # Cardinality(UpTo(k))
    BY <1>3, <2>1, <2>2, FS_Subset
  <2> QED
    BY <2>3 DEF Rank
<1>5. \A i, k \in P : Rank(P, i) = Rank(P, k) => i = k
  <2> SUFFICES ASSUME NEW i \in P, NEW k \in P, i # k
               PROVE  Rank(P, i) # Rank(P, k)
    OBVIOUS
  <2>1. i < k \/ k < i
    OBVIOUS
  <2> QED
    BY <1>4, <2>1
<1> QED
  BY <1>2, <1>3, <1>5

\* Every number up to how many positions are chosen is the rank of one.
LEMMA RankIsSurjective ==
  ASSUME NEW n \in Nat, NEW P \in SUBSET (1 .. n), NEW j \in 1 .. Cardinality(P)
  PROVE  \E i \in P : Rank(P, i) = j
<1> DEFINE rank == [i \in P |-> Rank(P, i)]
           m    == Cardinality(P)
<1>1. m \in Nat
  BY RankIsInjective
<1>2. IsFiniteSet(1 .. m) /\ Cardinality(1 .. m) = m
  BY <1>1, FS_Interval
<1>3. rank \in Injection(P, 1 .. m)
  BY RankIsInjective DEF Injection, IsInjective
<1>4. rank \in Surjection(P, 1 .. m)
  BY <1>2, <1>3, FS_Injection
<1> QED
  BY <1>4 DEF Surjection

\* A subsequence has as many elements as positions were chosen, and its
\* elements are those at the chosen positions, each position once.
THEOREM SubsequenceFacts ==
  ASSUME NEW T, NEW s \in Seq(T), NEW P \in SUBSET DOMAIN s
  PROVE  /\ Subsequence(s, P) \in Seq(T)
         /\ Len(Subsequence(s, P)) = Cardinality(P)
         /\ Cardinality(P) \in 0 .. Len(s)
         /\ \A j \in 1 .. Cardinality(P) :
              \E i \in P : Rank(P, i) = j /\ Subsequence(s, P)[j] = s[i]
         /\ \A i \in P : /\ Rank(P, i) \in 1 .. Cardinality(P)
                         /\ Subsequence(s, P)[Rank(P, i)] = s[i]
<1> DEFINE m       == Cardinality(P)
           at(j)   == CHOOSE i \in P : Rank(P, i) = j
<1>1. Len(s) \in Nat /\ DOMAIN s = 1 .. Len(s)
  BY LenProperties
<1>2. m \in 0 .. Len(s)
  BY <1>1, RankIsInjective
<1>3. ASSUME NEW j \in 1 .. m
      PROVE  at(j) \in P /\ Rank(P, at(j)) = j
  BY <1>1, RankIsSurjective
<1>4. ASSUME NEW i \in P
      PROVE  Rank(P, i) \in 1 .. m /\ at(Rank(P, i)) = i
  <2>1. Rank(P, i) \in 1 .. m
    BY <1>1, RankIsInjective
  <2>2. at(Rank(P, i)) \in P /\ Rank(P, at(Rank(P, i))) = Rank(P, i)
    BY <1>3, <2>1
  <2> QED
    BY <1>1, <2>1, <2>2, RankIsInjective
<1>5. \A j \in 1 .. m : s[at(j)] \in T
  BY <1>1, <1>3, ElementOfSeq
<1>6. Subsequence(s, P) = [j \in 1 .. m |-> s[at(j)]]
  BY DEF Subsequence
<1>7. Subsequence(s, P) \in Seq(T) /\ Len(Subsequence(s, P)) = m
  BY <1>2, <1>5, <1>6
<1>8. \A j \in 1 .. m :
        \E i \in P : Rank(P, i) = j /\ Subsequence(s, P)[j] = s[i]
  BY <1>3, <1>6
<1>9. \A i \in P : /\ Rank(P, i) \in 1 .. m
                   /\ Subsequence(s, P)[Rank(P, i)] = s[i]
  BY <1>4, <1>6
<1> QED
  BY <1>2, <1>7, <1>8, <1>9

-----------------------------------------------------------------------------
\* The inductive invariant.
IInv ==
  /\ TypeOK
  /\ EveryContactInItsBucket
  /\ NoIdentifierTwice
  /\ NoBucketOverfull

\* NoIdentifierTwice of a single bucket.
Distinct(b) == \A j, k \in DOMAIN b : b[j].nodeId = b[k].nodeId => j = k

-----------------------------------------------------------------------------
\* Operators.

\* An identifier is always looked for in a bucket that exists.
LEMMA BucketIndexInTable ==
  ASSUME TypeOK, NEW id \in NodeId
  PROVE  /\ prefixLength(id) \in 0 .. IdBits
         /\ Len(table) \in Nat \ {0}
         /\ DOMAIN table = 1 .. Len(table)
         /\ bucketIndex(id) \in 0 .. Len(table) - 1
         /\ bucketIndex(id) + 1 \in DOMAIN table
         /\ bucketOf(id) \in Seq(nodeInfo)
<1>1. prefixLength(id) \in 0 .. IdBits
  BY PrefixLengthFacts, GoTableAssumption DEF prefixLength
<1>2. Len(table) \in Nat \ {0} /\ DOMAIN table = 1 .. Len(table)
  BY LenProperties DEF TypeOK
<1>3. bucketIndex(id) \in 0 .. Len(table) - 1
  BY <1>1, <1>2, IdBitsAssumption DEF bucketIndex, currentMaxPrefixLength
<1>4. bucketIndex(id) + 1 \in DOMAIN table
  BY <1>2, <1>3
<1>5. bucketOf(id) \in Seq(nodeInfo)
  BY <1>2, <1>4, ElementOfSeq DEF TypeOK, bucketOf
<1> QED
  BY <1>1, <1>2, <1>3, <1>4, <1>5

\* What one half of a split holds, for the entries at any chosen positions.
LEMMA HalfFacts ==
  ASSUME NEW b \in Seq(nodeInfo), NEW P \in SUBSET DOMAIN b
  PROVE  LET half == Subsequence(b, P)
         IN  /\ half \in Seq(nodeInfo)
             /\ Len(half) \in 0 .. Len(b)
             /\ DOMAIN half = 1 .. Len(half)
             /\ \A j \in DOMAIN half : \E i \in P : half[j] = b[i]
             /\ \A i \in P : \E j \in DOMAIN half : half[j] = b[i]
             /\ Distinct(b) => Distinct(half)
<1> DEFINE half == Subsequence(b, P)
           m    == Cardinality(P)
<1>1. /\ half \in Seq(nodeInfo)
      /\ Len(half) = m
      /\ m \in 0 .. Len(b)
      /\ \A j \in 1 .. m : \E i \in P : Rank(P, i) = j /\ half[j] = b[i]
      /\ \A i \in P : Rank(P, i) \in 1 .. m /\ half[Rank(P, i)] = b[i]
  BY SubsequenceFacts
<1>2. DOMAIN half = 1 .. m
  BY <1>1, LenProperties
<1>3. ASSUME Distinct(b), NEW j \in 1 .. m, NEW k \in 1 .. m,
             half[j].nodeId = half[k].nodeId
      PROVE  j = k
  <2>1. PICK ij \in P : Rank(P, ij) = j /\ half[j] = b[ij]
    BY <1>1
  <2>2. PICK ik \in P : Rank(P, ik) = k /\ half[k] = b[ik]
    BY <1>1
  <2>3. ij = ik
    BY <1>3, <2>1, <2>2 DEF Distinct
  <2> QED
    BY <2>1, <2>2, <2>3
<1>4. Distinct(b) => Distinct(half)
  BY <1>2, <1>3 DEF Distinct
<1> HIDE DEF half
<1>5. /\ \A j \in DOMAIN half : \E i \in P : half[j] = b[i]
      /\ \A i \in P : \E j \in DOMAIN half : half[j] = b[i]
  BY <1>1, <1>2
<1> QED
  BY <1>1, <1>2, <1>4, <1>5 DEF half

-----------------------------------------------------------------------------
\* splitAt, seen from the node's own side of the bit.

nearHalf(b, m) == IF isBitSet(thisNodeId, m) THEN splitAt(b, m).oneBucket
                                             ELSE splitAt(b, m).zeroBucket

farHalf(b, m) == IF isBitSet(thisNodeId, m) THEN splitAt(b, m).zeroBucket
                                            ELSE splitAt(b, m).oneBucket

\* The entries of the near half agree with the node's own identifier on the
\* bit, those of the far half do not, and no entry is in neither.
LEMMA SplitFacts ==
  ASSUME NEW b \in Seq(nodeInfo), NEW m \in BitIndex
  PROVE  LET near == nearHalf(b, m)
             far  == farHalf(b, m)
         IN  /\ near \in Seq(nodeInfo) /\ far \in Seq(nodeInfo)
             /\ Len(near) \in 0 .. Len(b) /\ Len(far) \in 0 .. Len(b)
             /\ \A j \in DOMAIN near : \E i \in DOMAIN b :
                  near[j] = b[i] /\ b[i].nodeId[m] = thisNodeId[m]
             /\ \A j \in DOMAIN far : \E i \in DOMAIN b :
                  far[j] = b[i] /\ b[i].nodeId[m] # thisNodeId[m]
             /\ \A i \in DOMAIN b : \/ \E j \in DOMAIN near : near[j] = b[i]
                                    \/ \E j \in DOMAIN far : far[j] = b[i]
             /\ Distinct(b) => Distinct(near) /\ Distinct(far)
<1> DEFINE ones  == {i \in DOMAIN b : isBitSet(b[i].nodeId, m)}
           zeros == DOMAIN b \ ones
           same  == {i \in DOMAIN b : b[i].nodeId[m] = thisNodeId[m]}
           other == DOMAIN b \ same
<1>1. ASSUME NEW i \in DOMAIN b
      PROVE  b[i].nodeId[m] \in {0, 1} /\ thisNodeId[m] \in {0, 1}
  <2>1. b[i] \in nodeInfo
    BY ElementOfSeq, LenProperties
  <2> QED
    BY <2>1, GoTableAssumption DEF nodeInfo, NodeId
<1>2. nearHalf(b, m) = Subsequence(b, same)
  <2>1. CASE isBitSet(thisNodeId, m)
    <3>1. ones = same
      BY <1>1, <2>1 DEF isBitSet
    <3> QED
      BY <2>1, <3>1 DEF nearHalf, splitAt
  <2>2. CASE ~ isBitSet(thisNodeId, m)
    <3>1. zeros = same
      BY <1>1, <2>2 DEF isBitSet
    <3> QED
      BY <2>2, <3>1 DEF nearHalf, splitAt
  <2> QED
    BY <2>1, <2>2
<1>3. farHalf(b, m) = Subsequence(b, other)
  <2>1. CASE isBitSet(thisNodeId, m)
    <3>1. zeros = other
      BY <1>1, <2>1 DEF isBitSet
    <3> QED
      BY <2>1, <3>1 DEF farHalf, splitAt
  <2>2. CASE ~ isBitSet(thisNodeId, m)
    <3>1. ones = other
      BY <1>1, <2>2 DEF isBitSet
    <3> QED
      BY <2>2, <3>1 DEF farHalf, splitAt
  <2> QED
    BY <2>1, <2>2
<1>4. same \in SUBSET DOMAIN b /\ other \in SUBSET DOMAIN b
  OBVIOUS
<1> DEFINE near == Subsequence(b, same)
           far  == Subsequence(b, other)
<1>5. /\ near \in Seq(nodeInfo)
      /\ Len(near) \in 0 .. Len(b)
      /\ \A j \in DOMAIN near : \E i \in same : near[j] = b[i]
      /\ \A i \in same : \E j \in DOMAIN near : near[j] = b[i]
      /\ Distinct(b) => Distinct(near)
  <2> HIDE DEF same
  <2> QED
    BY <1>4, HalfFacts
<1>6. /\ far \in Seq(nodeInfo)
      /\ Len(far) \in 0 .. Len(b)
      /\ \A j \in DOMAIN far : \E i \in other : far[j] = b[i]
      /\ \A i \in other : \E j \in DOMAIN far : far[j] = b[i]
      /\ Distinct(b) => Distinct(far)
  <2> HIDE DEF other
  <2> QED
    BY <1>4, HalfFacts
<1> HIDE DEF near, far
<1>7. /\ \A j \in DOMAIN near : \E i \in DOMAIN b :
           near[j] = b[i] /\ b[i].nodeId[m] = thisNodeId[m]
      /\ \A j \in DOMAIN far : \E i \in DOMAIN b :
           far[j] = b[i] /\ b[i].nodeId[m] # thisNodeId[m]
      /\ \A i \in DOMAIN b : \/ \E j \in DOMAIN near : near[j] = b[i]
                             \/ \E j \in DOMAIN far : far[j] = b[i]
  BY <1>5, <1>6
<1>8. nearHalf(b, m) = near /\ farHalf(b, m) = far
  BY <1>2, <1>3 DEF near, far
<1> QED
  BY <1>5, <1>6, <1>7, <1>8

\* SplitBucket in those terms: the far half stays, the near one is appended.
LEMMA SplitBucketHalves ==
  ASSUME SplitBucket, TypeOK
  PROVE  LET m == Len(table) - 1
             b == table[m + 1]
         IN  /\ bucketIndex(adding.nodeId) = m
             /\ table' = Append([table EXCEPT ![m + 1] = farHalf(b, m)],
                                nearHalf(b, m))
<1>1. adding \in nodeInfo
  BY GoTableAssumption DEF SplitBucket, MustSplit, Refused, TypeOK
<1>2. prefixLength(adding.nodeId) >= currentMaxPrefixLength
  BY DEF SplitBucket, MustSplit
<1>3. bucketIndex(adding.nodeId) = Len(table) - 1
  BY <1>1, <1>2, BucketIndexInTable, IdBitsAssumption
     DEF bucketIndex, currentMaxPrefixLength, nodeInfo
<1> QED
  BY <1>3 DEF SplitBucket, nearHalf, farHalf

-----------------------------------------------------------------------------
\* The inductive invariant.

\* What bucket.addEntry leaves in a bucket that takes the entry.
LEMMA BucketAddEntryFacts ==
  ASSUME NEW b \in Seq(nodeInfo), NEW e \in nodeInfo,
         Distinct(b), Len(b) <= bucketSize, addSucceeds(b, e)
  PROVE  LET new == bucketAddEntry(b, e)
         IN  /\ new \in Seq(nodeInfo)
             /\ Len(new) <= bucketSize
             /\ \A j \in DOMAIN new : new[j] = e \/ (j \in DOMAIN b /\ new[j] = b[j])
             /\ \A j \in DOMAIN b : j \in DOMAIN new /\ new[j] = b[j]
             /\ Distinct(new)
<1>1. Len(b) \in Nat /\ DOMAIN b = 1 .. Len(b) /\ bucketSize \in Nat
  BY LenProperties, GoTableAssumption
<1>2. CASE containsNodeId(b, e.nodeId)
  BY <1>1, <1>2 DEF bucketAddEntry
<1>3. CASE ~ containsNodeId(b, e.nodeId)
  <2>1. bucketAddEntry(b, e) = Append(b, e) /\ Len(b) < bucketSize
    BY <1>3 DEF bucketAddEntry, addSucceeds
  <2>2. /\ Append(b, e) \in Seq(nodeInfo)
        /\ Len(Append(b, e)) = Len(b) + 1
        /\ DOMAIN Append(b, e) = 1 .. Len(b) + 1
        /\ Append(b, e)[Len(b) + 1] = e
        /\ \A j \in DOMAIN b : Append(b, e)[j] = b[j]
    BY <1>1
  <2>3. \A j \in DOMAIN b : b[j].nodeId # e.nodeId
    BY <1>3 DEF containsNodeId, isEqual
  <2>4. \A j \in 1 .. Len(b) + 1 : j \in DOMAIN b \/ j = Len(b) + 1
    BY <1>1
  <2>5. Distinct(Append(b, e))
    <3> SUFFICES ASSUME NEW j \in DOMAIN Append(b, e), NEW k \in DOMAIN Append(b, e),
                        Append(b, e)[j].nodeId = Append(b, e)[k].nodeId
                 PROVE  j = k
      BY DEF Distinct
    <3>1. CASE j \in DOMAIN b /\ k \in DOMAIN b
      BY <2>2, <3>1 DEF Distinct
    <3>2. CASE j = Len(b) + 1 /\ k = Len(b) + 1
      BY <3>2
    <3>3. CASE j = Len(b) + 1 /\ k \in DOMAIN b
      BY <2>2, <2>3, <3>3
    <3>4. CASE j \in DOMAIN b /\ k = Len(b) + 1
      BY <2>2, <2>3, <3>4
    <3> QED
      BY <2>2, <2>4, <3>1, <3>2, <3>3, <3>4
  <2>6. \A j \in DOMAIN Append(b, e) :
          Append(b, e)[j] = e \/ (j \in DOMAIN b /\ Append(b, e)[j] = b[j])
    BY <2>2, <2>4
  <2>7. \A j \in DOMAIN b : j \in DOMAIN Append(b, e) /\ Append(b, e)[j] = b[j]
    BY <1>1, <2>2
  <2>8. Len(Append(b, e)) <= bucketSize
    BY <1>1, <2>1, <2>2
  <2> QED
    BY <2>1, <2>2, <2>5, <2>6, <2>7, <2>8
<1> QED
  BY <1>2, <1>3

\* While the number of buckets stays, every identifier keeps its bucket.
LEMMA SameNumberSameBucket ==
  ASSUME Len(table') = Len(table), NEW id
  PROVE  bucketIndex(id)' = bucketIndex(id)
BY DEF bucketIndex, currentMaxPrefixLength, prefixLength

\* StoreEntry replaces one bucket, by one that bucket.addEntry returned.
LEMMA StoreEntryFacts ==
  ASSUME IInv, StoreEntry
  PROVE  LET k   == bucketIndex(adding.nodeId) + 1
             new == bucketAddEntry(table[k], adding)
         IN  /\ adding \in nodeInfo /\ adding' = NoEntry
             /\ k \in DOMAIN table /\ new \in Seq(nodeInfo)
             /\ table' \in Seq(Seq(nodeInfo)) /\ Len(table') = Len(table)
             /\ DOMAIN table' = DOMAIN table
             /\ \A i \in DOMAIN table : table'[i] = IF i = k THEN new ELSE table[i]
             /\ Len(new) <= bucketSize /\ Distinct(new)
             /\ \A j \in DOMAIN new :
                  \/ new[j] = adding
                  \/ j \in DOMAIN table[k] /\ new[j] = table[k][j]
             /\ \A j \in DOMAIN table[k] : j \in DOMAIN new /\ new[j] = table[k][j]
<1> DEFINE k   == bucketIndex(adding.nodeId) + 1
           new == bucketAddEntry(table[k], adding)
<1>1. adding \in nodeInfo
  BY GoTableAssumption DEF StoreEntry, IInv, TypeOK
<1>2. k \in DOMAIN table /\ table[k] \in Seq(nodeInfo) /\ DOMAIN table = 1 .. Len(table)
  BY <1>1, BucketIndexInTable DEF IInv, nodeInfo, bucketOf
<1>3. Distinct(table[k]) /\ Len(table[k]) <= bucketSize
  BY <1>2 DEF IInv, NoIdentifierTwice, NoBucketOverfull, Distinct
<1>4. addSucceeds(table[k], adding)
  BY DEF StoreEntry, bucketOf
<1>5. /\ new \in Seq(nodeInfo) /\ Len(new) <= bucketSize /\ Distinct(new)
      /\ \A j \in DOMAIN new :
           \/ new[j] = adding
           \/ j \in DOMAIN table[k] /\ new[j] = table[k][j]
      /\ \A j \in DOMAIN table[k] : j \in DOMAIN new /\ new[j] = table[k][j]
  BY <1>1, <1>2, <1>3, <1>4, BucketAddEntryFacts
<1>6. table' = [table EXCEPT ![k] = new] /\ adding' = NoEntry
  BY DEF StoreEntry
<1> HIDE DEF k, new
<1>7. /\ table' \in Seq(Seq(nodeInfo)) /\ Len(table') = Len(table)
      /\ \A i \in DOMAIN table : table'[i] = IF i = k THEN new ELSE table[i]
  BY <1>2, <1>5, <1>6, ExceptSeq DEF IInv, TypeOK
<1>8. DOMAIN table' = DOMAIN table
  BY <1>6
<1> QED
  BY <1>1, <1>2, <1>5, <1>6, <1>7, <1>8 DEF k, new

\* An entry of the last bucket shares at least as many bits with the node as
\* there are buckets before it.
LEMMA LastBucketPrefix ==
  ASSUME IInv, NEW j \in DOMAIN table[Len(table)]
  PROVE  LET id == table[Len(table)][j].nodeId
         IN  id \in NodeId /\ prefixLength(id) >= Len(table) - 1
<1>1. Len(table) \in Nat \ {0} /\ DOMAIN table = 1 .. Len(table)
  BY LenProperties DEF IInv, TypeOK
<1>2. table[Len(table)] \in Seq(nodeInfo)
  BY <1>1, ElementOfSeq DEF IInv, TypeOK
<1>3. table[Len(table)][j].nodeId \in NodeId
  <2>1. table[Len(table)][j] \in nodeInfo
    BY <1>2, ElementOfSeq, LenProperties
  <2> QED
    BY <2>1 DEF nodeInfo
<1>4. bucketIndex(table[Len(table)][j].nodeId) = Len(table) - 1
  BY <1>1 DEF IInv, EveryContactInItsBucket
<1>5. prefixLength(table[Len(table)][j].nodeId) \in 0 .. IdBits
  BY <1>3, BucketIndexInTable DEF IInv
<1> QED
  BY <1>1, <1>3, <1>4, <1>5, IdBitsAssumption DEF bucketIndex, currentMaxPrefixLength

\* The bit a bucket is split at exists: a bucket past the last bit could only
\* hold the node's own identifier, and then it would not refuse it.
LEMMA SplitBitExists ==
  ASSUME IInv, MustSplit
  PROVE  bucketIndex(adding.nodeId) = Len(table) - 1 /\ Len(table) - 1 \in BitIndex
<1> DEFINE m == Len(table) - 1
           b == table[Len(table)]
<1>1. adding \in nodeInfo /\ adding.nodeId \in NodeId
  BY GoTableAssumption DEF MustSplit, Refused, IInv, TypeOK, nodeInfo
<1>2. /\ m \in Nat /\ prefixLength(adding.nodeId) \in 0 .. IdBits
      /\ DOMAIN table = 1 .. Len(table) /\ Len(table) \in Nat \ {0}
  BY <1>1, BucketIndexInTable DEF IInv
<1>3. prefixLength(adding.nodeId) >= m
  BY DEF MustSplit, currentMaxPrefixLength
<1>4. bucketIndex(adding.nodeId) = m
  BY <1>2, <1>3, IdBitsAssumption DEF bucketIndex, currentMaxPrefixLength
<1>5. m < IdBits
  <2> SUFFICES ASSUME m >= IdBits
               PROVE  FALSE
    BY <1>2, IdBitsAssumption
  <2>1. prefixLength(adding.nodeId) = IdBits
    BY <1>2, <1>3, IdBitsAssumption
  <2>2. adding.nodeId = thisNodeId
    BY <1>1, <2>1, FullPrefixIsSame, GoTableAssumption DEF prefixLength
  <2>3. bucketOf(adding.nodeId) = b
    BY <1>2, <1>4 DEF bucketOf
  <2>4. ~ containsNodeId(b, thisNodeId) /\ ~ (Len(b) < bucketSize)
    BY <2>2, <2>3 DEF MustSplit, Refused, addSucceeds
  <2>5. b \in Seq(nodeInfo)
    BY <1>2, ElementOfSeq DEF IInv, TypeOK
  <2>6. 1 \in DOMAIN b
    BY <2>4, <2>5, LenProperties, GoTableAssumption
  <2>7. b[1].nodeId \in NodeId /\ prefixLength(b[1].nodeId) >= m
    BY <2>6, LastBucketPrefix
  <2>8. prefixLength(b[1].nodeId) \in 0 .. IdBits
    BY <2>7, BucketIndexInTable DEF IInv
  <2>9. prefixLength(b[1].nodeId) = IdBits
    BY <1>2, <2>7, <2>8, IdBitsAssumption
  <2>10. b[1].nodeId = thisNodeId
    BY <2>7, <2>9, FullPrefixIsSame, GoTableAssumption DEF prefixLength
  <2> QED
    BY <2>4, <2>6, <2>10 DEF containsNodeId, isEqual
<1> QED
  BY <1>2, <1>4, <1>5, IdBitsAssumption DEF BitIndex

\* SplitBucket replaces the last bucket by its far half and appends the near
\* one; each half holds entries of that bucket, on its side of the bit.
LEMMA SplitBucketFacts ==
  ASSUME IInv, SplitBucket
  PROVE  LET n    == Len(table)
             far  == farHalf(table[n], n - 1)
             near == nearHalf(table[n], n - 1)
         IN  /\ n \in Nat \ {0} /\ n - 1 \in BitIndex
             /\ table[n] \in Seq(nodeInfo)
             /\ far \in Seq(nodeInfo) /\ near \in Seq(nodeInfo)
             /\ table' \in Seq(Seq(nodeInfo)) /\ Len(table') = n + 1
             /\ DOMAIN table = 1 .. n /\ DOMAIN table' = 1 .. n + 1
             /\ \A i \in 1 .. n + 1 :
                  table'[i] = IF i = n + 1 THEN near
                              ELSE IF i = n THEN far ELSE table[i]
<1> DEFINE n    == Len(table)
           far  == farHalf(table[n], n - 1)
           near == nearHalf(table[n], n - 1)
<1>1. n \in Nat \ {0} /\ DOMAIN table = 1 .. n
  BY LenProperties DEF IInv, TypeOK
<1>2. n - 1 \in BitIndex
  BY SplitBitExists DEF SplitBucket
<1>3. table[n] \in Seq(nodeInfo)
  BY <1>1, ElementOfSeq DEF IInv, TypeOK
<1>4. far \in Seq(nodeInfo) /\ near \in Seq(nodeInfo)
  BY <1>2, <1>3, SplitFacts
<1>5. table' = Append([table EXCEPT ![n] = far], near)
  <2>1. n - 1 + 1 = n
    BY <1>1
  <2> QED
    BY <2>1, SplitBucketHalves DEF IInv
<1> HIDE DEF far, near
<1>6. /\ [table EXCEPT ![n] = far] \in Seq(Seq(nodeInfo))
      /\ Len([table EXCEPT ![n] = far]) = n
      /\ \A i \in 1 .. n : [table EXCEPT ![n] = far][i] =
                              IF i = n THEN far ELSE table[i]
  BY <1>1, <1>4, ExceptSeq DEF IInv, TypeOK
<1>7. /\ table' \in Seq(Seq(nodeInfo)) /\ Len(table') = n + 1
      /\ DOMAIN table' = 1 .. n + 1
      /\ table'[n + 1] = near
      /\ \A i \in 1 .. n : table'[i] = IF i = n THEN far ELSE table[i]
  <2> DEFINE kept == [table EXCEPT ![n] = far]
  <2> HIDE DEF kept
  <2>1. kept \in Seq(Seq(nodeInfo)) /\ Len(kept) = n
    BY <1>6 DEF kept
  <2>2. /\ Append(kept, near) \in Seq(Seq(nodeInfo))
        /\ Len(Append(kept, near)) = n + 1
        /\ Append(kept, near)[n + 1] = near
        /\ \A i \in 1 .. n : Append(kept, near)[i] = kept[i]
    BY <1>1, <1>4, <2>1
  <2>3. DOMAIN Append(kept, near) = 1 .. n + 1
    BY <2>2, LenProperties
  <2> QED
    BY <1>5, <1>6, <2>2, <2>3 DEF kept
<1>8. \A i \in 1 .. n + 1 :
        table'[i] = IF i = n + 1 THEN near ELSE IF i = n THEN far ELSE table[i]
  <2> TAKE i \in 1 .. n + 1
  <2>1. CASE i = n + 1
    BY <1>7, <2>1
  <2>2. CASE i \in 1 .. n
    BY <1>1, <1>7, <2>2
  <2>3. i = n + 1 \/ i \in 1 .. n
    BY <1>1
  <2> QED
    BY <2>1, <2>2, <2>3
<1> QED
  BY <1>1, <1>2, <1>3, <1>4, <1>7, <1>8 DEF near, far

\* Where a split leaves every entry: those before the last bucket stay, those
\* of the last one have the prefix length of the bucket they move to.
LEMMA SplitPlacement ==
  ASSUME IInv, SplitBucket
  PROVE  EveryContactInItsBucket'
<1> DEFINE n    == Len(table)
           far  == farHalf(table[n], n - 1)
           near == nearHalf(table[n], n - 1)
           newIndex(c) == IF prefixLength(c) < n THEN prefixLength(c) ELSE n
<1>1. /\ n \in Nat \ {0} /\ n - 1 \in BitIndex
      /\ table[n] \in Seq(nodeInfo)
      /\ Len(table') = n + 1
      /\ DOMAIN table = 1 .. n /\ DOMAIN table' = 1 .. n + 1
      /\ \A x \in 1 .. n + 1 :
           table'[x] = IF x = n + 1 THEN near ELSE IF x = n THEN far ELSE table[x]
  BY SplitBucketFacts
<1>2. /\ \A x \in DOMAIN near : \E y \in DOMAIN table[n] :
           near[x] = table[n][y] /\ table[n][y].nodeId[n - 1] = thisNodeId[n - 1]
      /\ \A x \in DOMAIN far : \E y \in DOMAIN table[n] :
           far[x] = table[n][y] /\ table[n][y].nodeId[n - 1] # thisNodeId[n - 1]
  BY <1>1, SplitFacts
<1> HIDE DEF near, far
<1>3. n \in Nat \ {0} /\ n - 1 + 1 = n /\ n + 1 - 1 = n
  BY <1>1
<1>4. currentMaxPrefixLength = n - 1 /\ currentMaxPrefixLength' = n
  <2>1. currentMaxPrefixLength' = Len(table') - 1
    BY DEF currentMaxPrefixLength
  <2>2. Len(table') = n + 1
    BY <1>1
  <2> QED
    BY <1>3, <2>1, <2>2 DEF currentMaxPrefixLength
<1> HIDE DEF n
<1>5. ASSUME NEW y \in DOMAIN table[n]
      PROVE  LET c == table[n][y].nodeId
             IN  /\ prefixLength(c) \in 0 .. IdBits
                 /\ c[n - 1] = thisNodeId[n - 1] => prefixLength(c) >= n
                 /\ c[n - 1] # thisNodeId[n - 1] => prefixLength(c) = n - 1
  <2> DEFINE c == table[n][y].nodeId
  <2>1. c \in NodeId /\ prefixLength(c) >= n - 1
    BY LastBucketPrefix DEF n
  <2>2. prefixLength(c) \in 0 .. IdBits
    BY <2>1, BucketIndexInTable DEF IInv
  <2>3. /\ thisNodeId[n - 1] = c[n - 1] <=> prefixLength(c) >= n - 1 + 1
        /\ thisNodeId[n - 1] # c[n - 1] <=> prefixLength(c) = n - 1
    <3> HIDE DEF c
    <3> QED
      BY <1>1, <2>1, PrefixLengthAtBit, GoTableAssumption DEF prefixLength
  <2> QED
    BY <1>3, <2>2, <2>3
<1>6. SUFFICES ASSUME NEW i \in DOMAIN table', NEW j \in DOMAIN table'[i]
               PROVE  newIndex(table'[i][j].nodeId) = i - 1
  BY <1>4 DEF EveryContactInItsBucket, bucketIndex, prefixLength
<1>7. i \in 1 .. n + 1
  BY <1>1
<1>8. CASE i = n + 1
  <2>1. table'[i] = near
    BY <1>1, <1>8
  <2>2. PICK y \in DOMAIN table[n] :
          near[j] = table[n][y] /\ table[n][y].nodeId[n - 1] = thisNodeId[n - 1]
    BY <1>2, <2>1
  <2>3. /\ prefixLength(table'[i][j].nodeId) \in 0 .. IdBits
        /\ prefixLength(table'[i][j].nodeId) >= n
    BY <1>5, <2>1, <2>2
  <2> QED
    BY <1>3, <1>8, <2>3, IdBitsAssumption
<1>9. CASE i = n
  <2>1. table'[i] = far
    BY <1>1, <1>3, <1>7, <1>9
  <2>2. PICK y \in DOMAIN table[n] :
          far[j] = table[n][y] /\ table[n][y].nodeId[n - 1] # thisNodeId[n - 1]
    BY <1>2, <2>1
  <2>3. prefixLength(table'[i][j].nodeId) = n - 1
    BY <1>5, <2>1, <2>2
  <2> QED
    BY <1>3, <1>9, <2>3
<1>10. CASE i < n
  <2>1. i \in 1 .. n /\ i # n /\ i # n + 1
    BY <1>3, <1>7, <1>10
  <2>2. table'[i] = table[i] /\ i \in DOMAIN table
    BY <1>1, <1>7, <2>1
  <2> DEFINE id == table[i][j].nodeId
  <2>3. bucketIndex(id) = i - 1
    BY <2>2 DEF IInv, EveryContactInItsBucket
  <2>4. id \in NodeId
    <3>1. table[i] \in Seq(nodeInfo)
      BY <1>1, <2>2, ElementOfSeq DEF IInv, TypeOK, n
    <3>2. table[i][j] \in nodeInfo
      BY <2>2, <3>1, ElementOfSeq, LenProperties
    <3> QED
      BY <3>2 DEF nodeInfo
  <2>5. prefixLength(id) \in 0 .. IdBits
    BY <2>4, BucketIndexInTable DEF IInv
  <2>6. bucketIndex(id) = IF prefixLength(id) < n - 1 THEN prefixLength(id) ELSE n - 1
    BY <1>4 DEF bucketIndex
  <2>7. prefixLength(id) = i - 1
    <3> HIDE DEF id
    <3> QED
      BY <1>3, <1>10, <2>1, <2>3, <2>5, <2>6, IdBitsAssumption
  <2> QED
    BY <1>3, <1>10, <2>1, <2>2, <2>7
<1>11. i = n + 1 \/ i = n \/ i < n
  BY <1>3, <1>7
<1> QED
  BY <1>8, <1>9, <1>10, <1>11

\* The empty table of newRoutingTable satisfies the invariant.
LEMMA IInvInit == Init => IInv
<1> SUFFICES ASSUME Init PROVE IInv
  OBVIOUS
<1>1. /\ table = <<newBucket>> /\ newBucket = <<>> /\ adding = NoEntry
      /\ Len(table) = 1 /\ DOMAIN table = {1} /\ table[1] = <<>>
  BY DEF Init, newBucket
<1>2. TypeOK
  <2>1. newBucket \in Seq(nodeInfo)
    BY <1>1
  <2>2. table \in Seq(Seq(nodeInfo))
    BY <1>1, <2>1
  <2> QED
    BY <1>1, <2>2 DEF TypeOK
<1>3. DOMAIN table[1] = {} /\ Len(table[1]) = 0
  BY <1>1
<1>4. EveryContactInItsBucket /\ NoIdentifierTwice
  BY <1>1, <1>3 DEF EveryContactInItsBucket, NoIdentifierTwice
<1>5. NoBucketOverfull
  BY <1>1, <1>3, GoTableAssumption DEF NoBucketOverfull
<1> QED
  BY <1>2, <1>4, <1>5 DEF IInv

\* Halves of a bucket are distinct and no longer than it.
LEMMA SplitKeepsBucketsSmall ==
  ASSUME IInv, SplitBucket
  PROVE  NoIdentifierTwice' /\ NoBucketOverfull'
<1> DEFINE n    == Len(table)
           far  == farHalf(table[n], n - 1)
           near == nearHalf(table[n], n - 1)
<1>1. /\ n \in Nat \ {0} /\ n - 1 \in BitIndex
      /\ table[n] \in Seq(nodeInfo)
      /\ DOMAIN table = 1 .. n /\ DOMAIN table' = 1 .. n + 1
      /\ \A x \in 1 .. n + 1 :
           table'[x] = IF x = n + 1 THEN near ELSE IF x = n THEN far ELSE table[x]
  BY SplitBucketFacts
<1>2. Distinct(table[n]) /\ Len(table[n]) <= bucketSize
  <2>1. n \in DOMAIN table
    <3> HIDE DEF near, far, n
    <3> QED
      BY <1>1
  <2> QED
    BY <2>1 DEF IInv, NoIdentifierTwice, NoBucketOverfull, Distinct
<1>3. Distinct(near) /\ Distinct(far)
  BY <1>1, <1>2, SplitFacts
<1>4. Len(near) \in 0 .. Len(table[n]) /\ Len(far) \in 0 .. Len(table[n])
  BY <1>1, SplitFacts
<1>5. Len(near) <= bucketSize /\ Len(far) <= bucketSize
  <2>1. bucketSize \in Nat /\ Len(table[n]) \in Nat
    BY <1>1, LenProperties, GoTableAssumption
  <2> HIDE DEF near, far, n
  <2> QED
    BY <1>2, <1>4, <2>1
<1> HIDE DEF near, far
<1>6. ASSUME NEW i \in DOMAIN table'
      PROVE  Distinct(table'[i]) /\ Len(table'[i]) <= bucketSize
  <2>1. i \in 1 .. n + 1
    BY <1>1
  <2>2. table'[i] = IF i = n + 1 THEN near ELSE IF i = n THEN far ELSE table[i]
    BY <1>1, <2>1
  <2>3. CASE i # n /\ i # n + 1
    <3>1. i \in DOMAIN table /\ table'[i] = table[i]
      <4>1. n \in Nat /\ i \in 1 .. n
        <5> HIDE DEF n
        <5> QED
          BY <1>1, <2>1, <2>3
      <4> QED
        BY <1>1, <2>2, <2>3, <4>1
    <3> QED
      BY <3>1 DEF IInv, NoIdentifierTwice, NoBucketOverfull, Distinct
  <2> QED
    BY <1>3, <1>5, <2>2, <2>3
<1> QED
  BY <1>6 DEF NoIdentifierTwice, NoBucketOverfull, Distinct

\* The invariant is preserved by every step.
LEMMA IInvNext == IInv /\ [Next]_vars => IInv'
<1> SUFFICES ASSUME IInv, [Next]_vars
             PROVE  IInv'
  OBVIOUS
<1>1. ASSUME NEW entry \in Offered, addEntry(entry)
      PROVE  IInv'
  <2>1. table' = table /\ adding' = entry
    BY <1>1 DEF addEntry
  <2>2. TypeOK'
    BY <2>1 DEF IInv, TypeOK
  <2>3. EveryContactInItsBucket'
    BY <2>1 DEF IInv, EveryContactInItsBucket, bucketIndex,
                currentMaxPrefixLength, prefixLength
  <2>4. NoIdentifierTwice' /\ NoBucketOverfull'
    BY <2>1 DEF IInv, NoIdentifierTwice, NoBucketOverfull
  <2> QED
    BY <2>2, <2>3, <2>4 DEF IInv
<1>2. CASE StoreEntry
  <2> DEFINE k   == bucketIndex(adding.nodeId) + 1
             new == bucketAddEntry(table[k], adding)
  <2>1. /\ adding \in nodeInfo /\ adding' = NoEntry
        /\ k \in DOMAIN table
        /\ table' \in Seq(Seq(nodeInfo)) /\ Len(table') = Len(table)
        /\ DOMAIN table' = DOMAIN table
        /\ \A i \in DOMAIN table : table'[i] = IF i = k THEN new ELSE table[i]
        /\ Len(new) <= bucketSize /\ Distinct(new)
        /\ \A j \in DOMAIN new :
             \/ new[j] = adding
             \/ j \in DOMAIN table[k] /\ new[j] = table[k][j]
    BY <1>2, StoreEntryFacts
  <2>2. bucketIndex(adding.nodeId) = k - 1
    <3>1. bucketIndex(adding.nodeId) \in Int
      BY <2>1, BucketIndexInTable DEF IInv, nodeInfo
    <3> QED
      BY <3>1
  <2> HIDE DEF k, new
  <2>3. TypeOK'
    BY <2>1 DEF IInv, TypeOK
  <2>4. EveryContactInItsBucket'
    <3>1. currentMaxPrefixLength' = currentMaxPrefixLength
      BY <2>1 DEF currentMaxPrefixLength
    <3>2. SUFFICES ASSUME NEW i \in DOMAIN table', NEW j \in DOMAIN table'[i]
                   PROVE  bucketIndex(table'[i][j].nodeId) = i - 1
      BY <3>1 DEF EveryContactInItsBucket, bucketIndex, prefixLength
    <3>3. CASE i = k /\ table'[i][j] = adding
      BY <2>2, <3>3
    <3>4. CASE i = k /\ j \in DOMAIN table[k] /\ table'[i][j] = table[k][j]
      BY <2>1, <3>4 DEF IInv, EveryContactInItsBucket
    <3>5. CASE i # k
      BY <2>1, <3>5 DEF IInv, EveryContactInItsBucket
    <3> QED
      BY <2>1, <3>3, <3>4, <3>5
  <2>5. NoIdentifierTwice' /\ NoBucketOverfull'
    <3>1. ASSUME NEW i \in DOMAIN table'
          PROVE  Distinct(table'[i]) /\ Len(table'[i]) <= bucketSize
      BY <2>1 DEF IInv, NoIdentifierTwice, NoBucketOverfull, Distinct
    <3> QED
      BY <3>1 DEF NoIdentifierTwice, NoBucketOverfull, Distinct
  <2> QED
    BY <2>3, <2>4, <2>5 DEF IInv
<1>3. CASE DropEntry
  <2>1. table' = table /\ adding' = NoEntry
    BY <1>3 DEF DropEntry
  <2>2. TypeOK'
    BY <2>1 DEF IInv, TypeOK
  <2>3. EveryContactInItsBucket'
    BY <2>1 DEF IInv, EveryContactInItsBucket, bucketIndex,
                currentMaxPrefixLength, prefixLength
  <2>4. NoIdentifierTwice' /\ NoBucketOverfull'
    BY <2>1 DEF IInv, NoIdentifierTwice, NoBucketOverfull
  <2> QED
    BY <2>2, <2>3, <2>4 DEF IInv
<1>4. CASE SplitBucket
  <2>1. adding' = adding
    BY <1>4 DEF SplitBucket
  <2>2. /\ Len(table) \in Nat
        /\ table' \in Seq(Seq(nodeInfo)) /\ Len(table') = Len(table) + 1
    BY <1>4, SplitBucketFacts
  <2>3. TypeOK'
    BY <2>1, <2>2 DEF IInv, TypeOK
  <2> QED
    BY <1>4, <2>3, SplitPlacement, SplitKeepsBucketsSmall DEF IInv
<1>5. CASE UNCHANGED vars
  <2>1. table' = table /\ adding' = adding
    BY <1>5 DEF vars
  <2>2. TypeOK'
    BY <2>1 DEF IInv, TypeOK
  <2>3. EveryContactInItsBucket'
    BY <2>1 DEF IInv, EveryContactInItsBucket, bucketIndex,
                currentMaxPrefixLength, prefixLength
  <2>4. NoIdentifierTwice' /\ NoBucketOverfull'
    BY <2>1 DEF IInv, NoIdentifierTwice, NoBucketOverfull
  <2> QED
    BY <2>2, <2>3, <2>4 DEF IInv
<1> QED
  BY <1>1, <1>2, <1>3, <1>4, <1>5 DEF Next, addEntryRec

-----------------------------------------------------------------------------
\* Theorems.

\* The inductive invariant holds in every state of every behaviour.
THEOREM InductiveInvariant == Spec => []IInv
<1>1. Init => IInv
  BY IInvInit
<1>2. IInv /\ [Next]_vars => IInv'
  BY IInvNext
<1> QED
  BY <1>1, <1>2, PTL DEF Spec

\* The buckets stay sequences of contacts, never none of them.
THEOREM TypeCorrect == Spec => []TypeOK
<1>1. IInv => TypeOK
  BY DEF IInv
<1> QED
  BY <1>1, InductiveInvariant, PTL

\* Every contact is where addEntryRec and findNode look for it.
THEOREM ContactsInTheirBuckets == Spec => []EveryContactInItsBucket
<1>1. IInv => EveryContactInItsBucket
  BY DEF IInv
<1> QED
  BY <1>1, InductiveInvariant, PTL

\* No bucket holds an identifier twice or more than bucketSize contacts.
THEOREM BucketsStaySmall == Spec => []BucketsAreSmallSets
<1>1. IInv => BucketsAreSmallSets
  BY DEF IInv, BucketsAreSmallSets
<1> QED
  BY <1>1, InductiveInvariant, PTL

\* splitAt is never called with a bit position that does not exist, so that
\* addEntry never panics, even when the node is offered its own identifier.
THEOREM SplitNeverPanics == Spec => []SplitAtInRange
<1>1. IInv => SplitAtInRange
  BY SplitBitExists DEF SplitAtInRange
<1> QED
  BY <1>1, InductiveInvariant, PTL

\* A bucket that is split is full of other identifiers than the new one, and all
\* of them share its prefix with the node.
LEMMA SplitNeedsIdentifiers ==
  ASSUME IInv, SplitBucket
  PROVE  ~ (2 ^ (IdBits - (Len(table) - 1)) <= bucketSize)
<1> DEFINE m   == Len(table) - 1
           b   == table[Len(table)]
           ids == {b[j].nodeId : j \in DOMAIN b}
           T   == ids \cup {adding.nodeId}
<1>1. /\ adding.nodeId \in NodeId /\ prefixLength(adding.nodeId) >= m
      /\ m \in BitIndex /\ bucketIndex(adding.nodeId) = m
  BY SplitBitExists, GoTableAssumption
     DEF SplitBucket, MustSplit, Refused, IInv, TypeOK, nodeInfo, currentMaxPrefixLength
<1>2. /\ b \in Seq(nodeInfo) /\ Len(b) \in Nat /\ DOMAIN b = 1 .. Len(b)
      /\ Len(table) \in DOMAIN table
  <2>1. Len(table) \in Nat \ {0} /\ DOMAIN table = 1 .. Len(table)
    BY LenProperties DEF IInv, TypeOK
  <2> QED
    BY <2>1, ElementOfSeq, LenProperties DEF IInv, TypeOK
<1>3. bucketOf(adding.nodeId) = b
  BY <1>1, <1>2, LenProperties DEF bucketOf, IInv, TypeOK
<1>4. adding.nodeId \notin ids /\ Len(b) >= bucketSize
  BY <1>2, <1>3, GoTableAssumption
     DEF SplitBucket, MustSplit, Refused, addSucceeds, containsNodeId, isEqual
<1>5. IsFiniteSet(ids) /\ Cardinality(ids) = Len(b)
  <2> DEFINE f == [j \in 1 .. Len(b) |-> b[j].nodeId]
  <2>1. IsFiniteSet(1 .. Len(b)) /\ Cardinality(1 .. Len(b)) = Len(b)
    <3> DEFINE n == Len(b)
    <3>1. n \in Nat
      BY <1>2
    <3> HIDE DEF n
    <3>2. IsFiniteSet(1 .. n) /\ Cardinality(1 .. n) = n
      BY <3>1, FS_Interval
    <3> QED
      BY <3>2 DEF n
  <2>2. f \in Surjection(1 .. Len(b), ids)
    BY <1>2 DEF Surjection
  <2>3. f \in Injection(1 .. Len(b), ids)
    BY <1>2 DEF Injection, IsInjective, IInv, NoIdentifierTwice
  <2> QED
    BY <2>1, <2>2, <2>3, FS_Surjection
<1>6. T \in SUBSET NodeId /\ \A id \in T : commonPrefixLength(thisNodeId, id) >= m
  BY <1>1, LastBucketPrefix DEF prefixLength
<1> HIDE DEF ids
<1>7. Cardinality(T) = Len(b) + 1
  BY <1>4, <1>5, FS_AddElement
<1> HIDE DEF m, b, T
<1>8. 2 ^ (IdBits - m) \in Nat /\ Cardinality(T) <= 2 ^ (IdBits - m)
  <2>1. m \in 0 .. IdBits
    BY <1>1, IdBitsAssumption DEF BitIndex
  <2> QED
    BY <1>6, <2>1, GoTableAssumption, SharingIdsCounted
<1> QED
  BY <1>2, <1>4, <1>7, <1>8, GoTableAssumption DEF m

\* A bucket whose prefix leaves no more identifiers than it holds is never split.
THEOREM SmallestBucketStays == Spec => []SmallestBucketNeverSplit
<1>1. IInv => Len(table) \in Nat
  BY LenProperties DEF IInv, TypeOK
<1>2. Init => SmallestBucketNeverSplit
  BY IdBitsAssumption DEF Init, SmallestBucketNeverSplit
<1>3. IInv /\ SmallestBucketNeverSplit /\ [Next]_vars => SmallestBucketNeverSplit'
  <2> SUFFICES ASSUME IInv, SmallestBucketNeverSplit, [Next]_vars,
                      NEW p \in 0 .. IdBits, 2 ^ (IdBits - p) <= bucketSize
               PROVE  Len(table') <= p + 1
    BY DEF SmallestBucketNeverSplit
  <2>1. Len(table) <= p + 1
    BY DEF SmallestBucketNeverSplit
  <2>2. CASE SplitBucket
    <3>1. ~ (2 ^ (IdBits - (Len(table) - 1)) <= bucketSize)
      BY <2>2, SplitNeedsIdentifiers
    <3>2. Len(table') = Len(table) + 1
      BY <2>2, SplitBucketFacts
    <3>3. Len(table) - 1 # p
      BY <3>1
    <3> QED
      BY <1>1, <2>1, <3>2, <3>3, IdBitsAssumption
  <2>3. CASE StoreEntry
    BY <2>1, <2>3, StoreEntryFacts
  <2>4. CASE UNCHANGED table
    BY <2>1, <2>4
  <2> QED
    BY <2>2, <2>3, <2>4 DEF Next, addEntry, addEntryRec, DropEntry, vars
<1> QED
  BY <1>2, <1>3, InductiveInvariant, PTL DEF Spec

\* What a step of any kind does to a contact the table holds: it is still
\* there.
LEMMA StepKeepsContacts == IInv /\ [Next]_vars => Known \subseteq Known'
<1> SUFFICES ASSUME IInv, [Next]_vars, NEW c \in Known
             PROVE  c \in Known'
  OBVIOUS
<1>1. PICK i \in DOMAIN table : \E j \in DOMAIN table[i] : c = table[i][j]
  BY DEF Known
<1>2. PICK j \in DOMAIN table[i] : c = table[i][j]
  BY <1>1
<1>3. SUFFICES \E x \in DOMAIN table' : \E y \in DOMAIN table'[x] : c = table'[x][y]
  BY DEF Known
<1>4. CASE UNCHANGED table
  BY <1>2, <1>4
<1>5. CASE StoreEntry
  BY <1>2, <1>5, StoreEntryFacts
<1>6. CASE SplitBucket
  <2> DEFINE n    == Len(table)
             far  == farHalf(table[n], n - 1)
             near == nearHalf(table[n], n - 1)
  <2>1. /\ n \in Nat \ {0} /\ n - 1 \in BitIndex
        /\ table[n] \in Seq(nodeInfo)
        /\ DOMAIN table = 1 .. n /\ DOMAIN table' = 1 .. n + 1
        /\ \A x \in 1 .. n + 1 :
             table'[x] = IF x = n + 1 THEN near ELSE IF x = n THEN far ELSE table[x]
    BY <1>6, SplitBucketFacts
  <2>2. \A y \in DOMAIN table[n] : \/ \E x \in DOMAIN near : near[x] = table[n][y]
                                   \/ \E x \in DOMAIN far : far[x] = table[n][y]
    BY <2>1, SplitFacts
  <2> HIDE DEF near, far, n
  <2>3. n \in DOMAIN table' /\ n + 1 \in DOMAIN table' /\ n + 1 # n
    BY <2>1
  <2>4. table'[n] = far /\ table'[n + 1] = near
    BY <2>1, <2>3
  <2>5. CASE i = n
    BY <1>2, <2>2, <2>3, <2>4, <2>5
  <2>6. CASE i # n
    <3>1. i \in DOMAIN table' /\ i # n + 1
      BY <2>1, <2>6
    <3>2. table'[i] = table[i]
      BY <2>1, <2>6, <3>1
    <3> QED
      BY <1>2, <3>1, <3>2
  <2> QED
    BY <2>5, <2>6
<1> QED
  BY <1>4, <1>5, <1>6 DEF Next, addEntry, addEntryRec, DropEntry, vars

\* A contact once stored is never lost, whatever splits later.
THEOREM ContactsAreNeverLost == Spec => KnownContactsAreKept
<1>1. IInv /\ [Next]_vars => [Known \subseteq Known']_vars
  BY StepKeepsContacts
<1> QED
  BY <1>1, InductiveInvariant, PTL DEF Spec, KnownContactsAreKept

-----------------------------------------------------------------------------
\* What becomes of an identifier that was offered, for those who use the
\* table: its bucket has it, or the bucket is full and will never be split.
Settled(id) ==
  \/ containsNodeId(bucketOf(id), id)
  \/ /\ prefixLength(id) < currentMaxPrefixLength
     /\ Len(bucketOf(id)) = bucketSize

\* An identifier in the table is in the bucket it is looked for in.
LEMMA KnownIsFound ==
  IInv => \A id \in NodeId :
            containsNodeId(bucketOf(id), id) <=> \E c \in Known : c.nodeId = id
<1> SUFFICES ASSUME IInv, NEW id \in NodeId
             PROVE  containsNodeId(bucketOf(id), id) <=> \E c \in Known : c.nodeId = id
  OBVIOUS
<1>1. bucketIndex(id) + 1 \in DOMAIN table /\ DOMAIN table = 1 .. Len(table)
  BY BucketIndexInTable DEF IInv
<1>2. ASSUME containsNodeId(bucketOf(id), id)
      PROVE  \E c \in Known : c.nodeId = id
  <2>1. PICK j \in DOMAIN table[bucketIndex(id) + 1] :
          table[bucketIndex(id) + 1][j].nodeId = id
    BY <1>2 DEF containsNodeId, isEqual, bucketOf
  <2>2. table[bucketIndex(id) + 1][j] \in Known
    BY <1>1 DEF Known
  <2> QED
    BY <2>1, <2>2
<1>3. ASSUME NEW c \in Known, c.nodeId = id
      PROVE  containsNodeId(bucketOf(id), id)
  <2>1. PICK i \in DOMAIN table : \E j \in DOMAIN table[i] : c = table[i][j]
    BY DEF Known
  <2>2. PICK j \in DOMAIN table[i] : c = table[i][j]
    BY <2>1
  <2>3. bucketIndex(id) = i - 1
    BY <1>3, <2>2 DEF IInv, EveryContactInItsBucket
  <2>4. bucketOf(id) = table[i]
    BY <1>1, <2>1, <2>3 DEF bucketOf
  <2> QED
    BY <1>3, <2>2, <2>4 DEF containsNodeId, isEqual
<1> QED
  BY <1>2, <1>3

\* What the table holds are contacts.
LEMMA KnownAreContacts ==
  ASSUME IInv, NEW c \in Known
  PROVE  c \in nodeInfo
<1>1. PICK i \in DOMAIN table : \E j \in DOMAIN table[i] : c = table[i][j]
  BY DEF Known
<1>2. table[i] \in Seq(nodeInfo)
  BY <1>1, ElementOfSeq, LenProperties DEF IInv, TypeOK
<1> QED
  BY <1>1, <1>2, ElementOfSeq, LenProperties

\* When addEntry returns, its identifier is settled.
LEMMA AddEntrySettles ==
  ASSUME IInv, addEntryRec, adding' = NoEntry,
         NEW id, adding.nodeId = id
  PROVE  Settled(id)'
<1>1. adding \in nodeInfo
  BY GoTableAssumption
     DEF addEntryRec, StoreEntry, DropEntry, SplitBucket, MustSplit, Refused, IInv, TypeOK
<1>2. id \in NodeId
  BY <1>1 DEF nodeInfo
<1>3. CASE StoreEntry
  <2> DEFINE k   == bucketIndex(id) + 1
             new == bucketAddEntry(table[k], adding)
  <2>1. /\ k \in DOMAIN table /\ Len(table') = Len(table)
        /\ \A i \in DOMAIN table : table'[i] = IF i = k THEN new ELSE table[i]
    BY <1>3, StoreEntryFacts
  <2>2. \E j \in DOMAIN new : new[j].nodeId = id
    <3>1. CASE containsNodeId(table[k], id)
      BY <3>1 DEF bucketAddEntry, containsNodeId, isEqual
    <3>2. CASE ~ containsNodeId(table[k], id)
      <4>1. new = Append(table[k], adding)
        BY <3>2 DEF bucketAddEntry
      <4>2. table[k] \in Seq(nodeInfo)
        BY <1>2, BucketIndexInTable DEF IInv, bucketOf
      <4> HIDE DEF k, new
      <4>3. Len(table[k]) + 1 \in DOMAIN new /\ new[Len(table[k]) + 1] = adding
        BY <1>1, <4>1, <4>2, LenProperties
      <4> QED
        BY <4>3
    <3> QED
      BY <3>1, <3>2
  <2>3. bucketIndex(id)' = bucketIndex(id)
    BY <2>1, SameNumberSameBucket
  <2>4. bucketOf(id)' = new
    BY <2>1, <2>3 DEF bucketOf
  <2> HIDE DEF new
  <2>5. containsNodeId(bucketOf(id), id)'
    BY <2>2, <2>4 DEF containsNodeId, isEqual
  <2> QED
    BY <2>5 DEF Settled
<1>4. CASE DropEntry
  <2>1. table' = table /\ prefixLength(id) < currentMaxPrefixLength
    BY <1>4 DEF DropEntry
  <2>2. ~ (Len(bucketOf(id)) < bucketSize)
    BY <1>4 DEF DropEntry, Refused, addSucceeds
  <2>3. Len(bucketOf(id)) <= bucketSize /\ Len(bucketOf(id)) \in Nat
    <3>1. bucketIndex(id) + 1 \in DOMAIN table /\ bucketOf(id) \in Seq(nodeInfo)
      BY <1>2, BucketIndexInTable DEF IInv
    <3> QED
      BY <3>1, LenProperties DEF IInv, NoBucketOverfull, bucketOf
  <2>4. Settled(id)
    BY <2>1, <2>2, <2>3, GoTableAssumption DEF Settled
  <2> QED
    BY <2>1, <2>4
       DEF Settled, bucketOf, bucketIndex, prefixLength, currentMaxPrefixLength
<1>5. ~ SplitBucket
  BY <1>1, GoTableAssumption DEF SplitBucket
<1> QED
  BY <1>3, <1>4, <1>5 DEF addEntryRec

\* Nothing that happens later unsettles it.
LEMMA SettledStays ==
  IInv /\ [Next]_vars => \A id \in NodeId : Settled(id) => Settled(id)'
<1>1. IInv' => (\A id \in NodeId :
                  containsNodeId(bucketOf(id), id) <=> \E c \in Known : c.nodeId = id)'
  BY KnownIsFound, PTL
<1> SUFFICES ASSUME IInv, [Next]_vars, NEW id \in NodeId, Settled(id)
             PROVE  Settled(id)'
  OBVIOUS
<1>2. IInv' /\ Known \subseteq Known'
  BY IInvNext, StepKeepsContacts
<1>3. CASE containsNodeId(bucketOf(id), id)
  <2>1. \E c \in Known' : c.nodeId = id
    BY <1>2, <1>3, KnownIsFound
  <2>2. containsNodeId(bucketOf(id), id)'
    BY <1>1, <1>2, <2>1
  <2> QED
    BY <2>2 DEF Settled
<1>4. CASE /\ prefixLength(id) < currentMaxPrefixLength
           /\ Len(bucketOf(id)) = bucketSize
  <2> DEFINE k == bucketIndex(id) + 1
  <2>1. /\ k \in DOMAIN table /\ DOMAIN table = 1 .. Len(table)
        /\ bucketOf(id) = table[k] /\ table[k] \in Seq(nodeInfo)
        /\ prefixLength(id) \in 0 .. IdBits /\ Len(table) \in Nat \ {0}
    BY BucketIndexInTable DEF IInv, bucketOf
  <2>2. prefixLength(id) < Len(table) - 1 /\ k = prefixLength(id) + 1
    BY <1>4 DEF currentMaxPrefixLength, bucketIndex
  <2>3. SUFFICES Len(table') >= Len(table) /\ Len(table'[k]) = bucketSize
    <3>1. Len(table') \in Nat
      BY <1>2, LenProperties DEF IInv, TypeOK
    <3>2. prefixLength(id)' = prefixLength(id)
      BY DEF prefixLength
    <3>3. prefixLength(id) < currentMaxPrefixLength'
      BY <2>1, <2>2, <2>3, <3>1, IdBitsAssumption DEF currentMaxPrefixLength
    <3>4. bucketOf(id)' = table'[k]
      BY <2>2, <3>2, <3>3 DEF bucketOf, bucketIndex
    <3> QED
      BY <2>3, <3>2, <3>3, <3>4 DEF Settled
  <2> HIDE DEF k
  <2>4. CASE UNCHANGED table
    BY <1>4, <2>1, <2>4
  <2>5. CASE StoreEntry
    <3> DEFINE s   == bucketIndex(adding.nodeId) + 1
               new == bucketAddEntry(table[s], adding)
    <3>1. /\ Len(table') = Len(table)
          /\ table'[k] = IF k = s THEN new ELSE table[k]
          /\ new \in Seq(nodeInfo) /\ Len(new) <= bucketSize
          /\ \A j \in DOMAIN table[s] : j \in DOMAIN new
      BY <2>1, <2>5, StoreEntryFacts
    <3> HIDE DEF s, new
    <3>2. k = s => Len(new) = bucketSize
      BY <1>4, <2>1, <3>1, LenProperties, GoTableAssumption
    <3> QED
      BY <1>4, <2>1, <3>1, <3>2
  <2>6. CASE SplitBucket
    <3>1. /\ Len(table') = Len(table) + 1
          /\ k \in 1 .. Len(table) + 1 => table'[k] =
               IF k = Len(table) + 1 THEN nearHalf(table[Len(table)], Len(table) - 1)
               ELSE IF k = Len(table) THEN farHalf(table[Len(table)], Len(table) - 1)
               ELSE table[k]
      BY <2>6, SplitBucketFacts
    <3>2. k \in 1 .. Len(table) + 1 /\ k # Len(table) + 1 /\ k # Len(table)
      BY <2>1, <2>2, IdBitsAssumption
    <3> QED
      BY <1>4, <2>1, <3>1, <3>2
  <2> QED
    BY <2>4, <2>5, <2>6 DEF Next, addEntry, addEntryRec, DropEntry, vars
<1> QED
  BY <1>3, <1>4 DEF Settled

\* What the table learns in a step is the entry under way.
LEMMA OnlyAddedIsLearned ==
  IInv /\ [Next]_vars => \A c \in Known' : c \in Known \/ (adding # NoEntry /\ c = adding)
<1> SUFFICES ASSUME IInv, [Next]_vars, NEW c \in Known'
             PROVE  c \in Known \/ (adding # NoEntry /\ c = adding)
  OBVIOUS
<1>1. PICK i \in DOMAIN table' : \E j \in DOMAIN table'[i] : c = table'[i][j]
  BY DEF Known
<1>2. PICK j \in DOMAIN table'[i] : c = table'[i][j]
  BY <1>1
<1>3. SUFFICES \/ \E x \in DOMAIN table : \E y \in DOMAIN table[x] : c = table[x][y]
               \/ adding # NoEntry /\ c = adding
  BY DEF Known
<1>4. CASE UNCHANGED table
  BY <1>2, <1>4
<1>5. CASE StoreEntry
  <2>1. adding # NoEntry
    BY <1>5 DEF StoreEntry
  <2> QED
    BY <1>2, <1>5, <2>1, StoreEntryFacts
<1>6. CASE SplitBucket
  <2> DEFINE n    == Len(table)
             far  == farHalf(table[n], n - 1)
             near == nearHalf(table[n], n - 1)
  <2>1. /\ n \in Nat \ {0} /\ n - 1 \in BitIndex
        /\ table[n] \in Seq(nodeInfo)
        /\ DOMAIN table = 1 .. n /\ DOMAIN table' = 1 .. n + 1
        /\ \A x \in 1 .. n + 1 :
             table'[x] = IF x = n + 1 THEN near ELSE IF x = n THEN far ELSE table[x]
    BY <1>6, SplitBucketFacts
  <2>2. /\ \A x \in DOMAIN near : \E y \in DOMAIN table[n] : near[x] = table[n][y]
        /\ \A x \in DOMAIN far : \E y \in DOMAIN table[n] : far[x] = table[n][y]
    <3>1. /\ \A x \in DOMAIN near : \E y \in DOMAIN table[n] :
               near[x] = table[n][y] /\ table[n][y].nodeId[n - 1] = thisNodeId[n - 1]
          /\ \A x \in DOMAIN far : \E y \in DOMAIN table[n] :
               far[x] = table[n][y] /\ table[n][y].nodeId[n - 1] # thisNodeId[n - 1]
      BY <2>1, SplitFacts
    <3> HIDE DEF near, far, n
    <3> QED
      BY <3>1
  <2> HIDE DEF near, far, n
  <2>3. n \in DOMAIN table
    BY <2>1
  <2>4. CASE i = n + 1
    BY <1>2, <2>1, <2>2, <2>3, <2>4
  <2>5. CASE i = n
    BY <1>2, <2>1, <2>2, <2>3, <2>5
  <2>6. CASE i # n /\ i # n + 1
    <3>1. i \in DOMAIN table /\ table'[i] = table[i]
      BY <2>1, <2>6
    <3> QED
      BY <1>2, <3>1
  <2> QED
    BY <2>4, <2>5, <2>6
<1> QED
  BY <1>4, <1>5, <1>6 DEF Next, addEntry, addEntryRec, DropEntry, vars

-----------------------------------------------------------------------------
\* The table implements PrefixClasses: storing an entry is Admit or Ignore,
\* dropping one is Ignore, and a split changes nothing that can be seen.  The
\* competitors of an entry, the contacts with a prefix of its length, are all in
\* the bucket addEntryRec looks at, and are all that is there when that bucket is
\* not the last one.

Contents(b) == {b[j] : j \in DOMAIN b}

\* PrefixClasses counts as this module does.
LEMMA SameCardinality ==
  ASSUME NEW S
  PROVE  Abstract!Cardinality(S) = Cardinality(S)
BY DEF Abstract!Cardinality, Cardinality

\* Where a contact is: Known, spelled out.
LEMMA KnownMeans ==
  ASSUME NEW c
  PROVE  c \in Known <=> \E i \in DOMAIN table : \E j \in DOMAIN table[i] : c = table[i][j]
BY DEF Known

\* A bucket without repetitions holds as many contacts as it is long.
LEMMA ContentsCounted ==
  ASSUME NEW b \in Seq(nodeInfo), Distinct(b)
  PROVE  IsFiniteSet(Contents(b)) /\ Cardinality(Contents(b)) = Len(b)
<1> DEFINE f == [j \in 1 .. Len(b) |-> b[j]]
<1>1. Len(b) \in Nat /\ DOMAIN b = 1 .. Len(b)
  BY LenProperties
<1>2. IsFiniteSet(1 .. Len(b)) /\ Cardinality(1 .. Len(b)) = Len(b)
  BY <1>1, FS_Interval
<1>3. f \in Surjection(1 .. Len(b), Contents(b))
  BY <1>1 DEF Surjection, Contents
<1>4. f \in Injection(1 .. Len(b), Contents(b))
  BY <1>1 DEF Injection, IsInjective, Contents, Distinct
<1> QED
  BY <1>2, <1>3, <1>4, FS_Surjection

\* The bucket that addEntryRec looks at, compared with what PrefixClasses
\* looks at.
LEMMA BucketAndClass ==
  ASSUME IInv, NEW entry \in nodeInfo
  PROVE  LET b == bucketOf(entry.nodeId)
         IN  /\ b \in Seq(nodeInfo) /\ Distinct(b)
             /\ Abstract!Class(entry) \subseteq Contents(b)
             /\ containsNodeId(b, entry.nodeId) <=> Abstract!IsKnown(entry)
             /\ prefixLength(entry.nodeId) < currentMaxPrefixLength =>
                  Abstract!Class(entry) = Contents(b)
<1> DEFINE k == bucketIndex(entry.nodeId) + 1
           b == table[k]
<1>1. entry.nodeId \in NodeId /\ \A c : Abstract!prefixLength(c) = prefixLength(c)
  BY DEF nodeInfo, Abstract!prefixLength, prefixLength,
         Abstract!commonPrefixLength, commonPrefixLength
<1>2. /\ k \in DOMAIN table /\ b \in Seq(nodeInfo)
      /\ bucketOf(entry.nodeId) = b
      /\ bucketIndex(entry.nodeId) \in Int
      /\ prefixLength(entry.nodeId) \in Int /\ currentMaxPrefixLength \in Int
      /\ DOMAIN table \subseteq Int
  BY <1>1, BucketIndexInTable DEF IInv, bucketOf, currentMaxPrefixLength
<1>3. Distinct(b)
  BY <1>2 DEF IInv, NoIdentifierTwice, Distinct
<1>4. ASSUME NEW c \in Known, bucketIndex(c.nodeId) = bucketIndex(entry.nodeId)
      PROVE  c \in Contents(b)
  <2>1. PICK i \in DOMAIN table : \E j \in DOMAIN table[i] : c = table[i][j]
    BY <1>4, KnownMeans
  <2>2. PICK j \in DOMAIN table[i] : c = table[i][j]
    BY <2>1
  <2>3. bucketIndex(c.nodeId) = i - 1
    BY <2>2 DEF IInv, EveryContactInItsBucket
  <2>4. i = k
    BY <1>2, <1>4, <2>3
  <2> QED
    BY <2>2, <2>4 DEF Contents
<1>5. ASSUME NEW c \in Contents(b)
      PROVE  /\ c \in Known /\ c.nodeId \in NodeId
             /\ bucketIndex(c.nodeId) = bucketIndex(entry.nodeId)
  <2>1. PICK j \in DOMAIN b : c = b[j]
    BY DEF Contents
  <2>2. c \in nodeInfo
    BY <1>2, <2>1, ElementOfSeq, LenProperties
  <2>3. bucketIndex(c.nodeId) = k - 1
    BY <1>2, <2>1 DEF IInv, EveryContactInItsBucket
  <2>4. c \in Known
    BY <1>2, <2>1, KnownMeans
  <2> QED
    BY <1>2, <2>2, <2>3, <2>4 DEF nodeInfo
<1> HIDE DEF b, k
<1>6. Abstract!Class(entry) \subseteq Contents(b)
  <2>1. ASSUME NEW c \in Abstract!Class(entry)
        PROVE  c \in Contents(b)
    <3>1. c \in Known /\ prefixLength(c.nodeId) = prefixLength(entry.nodeId)
      BY <1>1, <2>1 DEF Abstract!Class
    <3> QED
      BY <1>4, <3>1 DEF bucketIndex
  <2> QED
    BY <2>1
<1>7. containsNodeId(b, entry.nodeId) => Abstract!IsKnown(entry)
  BY <1>5 DEF containsNodeId, isEqual, Contents, Abstract!IsKnown
<1>8. Abstract!IsKnown(entry) => containsNodeId(b, entry.nodeId)
  BY <1>4 DEF containsNodeId, isEqual, Contents, Abstract!IsKnown
<1>9. ASSUME prefixLength(entry.nodeId) < currentMaxPrefixLength,
             NEW c \in Contents(b)
      PROVE  c \in Abstract!Class(entry)
  <2>1. /\ c \in Known /\ c.nodeId \in NodeId
        /\ bucketIndex(c.nodeId) = bucketIndex(entry.nodeId)
    BY <1>5, <1>9
  <2>2. prefixLength(c.nodeId) \in Int
    BY <2>1, BucketIndexInTable DEF IInv
  <2>3. prefixLength(c.nodeId) = prefixLength(entry.nodeId)
    BY <1>2, <1>9, <2>1, <2>2 DEF bucketIndex
  <2> QED
    BY <1>1, <2>1, <2>3 DEF Abstract!Class
<1> QED
  BY <1>2, <1>3, <1>6, <1>7, <1>8, <1>9

\* No more contacts compete with an entry than its bucket is long.
LEMMA ClassIsSmall ==
  ASSUME IInv, NEW entry \in nodeInfo
  PROVE  LET b == bucketOf(entry.nodeId)
             m == Cardinality(Abstract!Class(entry))
         IN  /\ Len(b) \in Nat /\ m \in Nat /\ m <= Len(b)
             /\ prefixLength(entry.nodeId) < currentMaxPrefixLength => m = Len(b)
<1> DEFINE b == bucketOf(entry.nodeId)
           C == Abstract!Class(entry)
<1>1. /\ b \in Seq(nodeInfo) /\ Distinct(b) /\ C \subseteq Contents(b)
      /\ prefixLength(entry.nodeId) < currentMaxPrefixLength => C = Contents(b)
  BY BucketAndClass
<1>2. IsFiniteSet(Contents(b)) /\ Cardinality(Contents(b)) = Len(b)
  BY <1>1, ContentsCounted
<1>3. IsFiniteSet(C) /\ Cardinality(C) <= Len(b)
  BY <1>1, <1>2, FS_Subset
<1> QED
  BY <1>1, <1>2, <1>3, FS_CardinalityType, LenProperties

\* Storing an entry adds it to the contacts, and nothing else.
LEMMA StoreEntryAdmits ==
  ASSUME IInv, StoreEntry
  PROVE  Abstract!Admit \/ Abstract!Ignore
<1> DEFINE k   == bucketIndex(adding.nodeId) + 1
           new == bucketAddEntry(table[k], adding)
<1>1. /\ adding \in nodeInfo /\ adding' = NoEntry /\ adding # NoEntry
      /\ k \in DOMAIN table /\ DOMAIN table' = DOMAIN table
      /\ \A i \in DOMAIN table : table'[i] = IF i = k THEN new ELSE table[i]
      /\ \A j \in DOMAIN new :
           new[j] = adding \/ (j \in DOMAIN table[k] /\ new[j] = table[k][j])
  BY StoreEntryFacts DEF StoreEntry
<1>2. /\ bucketOf(adding.nodeId) = table[k]
      /\ addSucceeds(table[k], adding)
      /\ containsNodeId(table[k], adding.nodeId) <=> Abstract!IsKnown(adding)
  BY <1>1, BucketAndClass DEF bucketOf, StoreEntry
<1>3. CASE containsNodeId(table[k], adding.nodeId)
  <2>1. new = table[k]
    BY <1>3 DEF bucketAddEntry
  <2>2. table' = table
    <3>1. table' = [table EXCEPT ![k] = new]
      BY DEF StoreEntry
    <3>2. table \in Seq(Seq(nodeInfo))
      BY DEF IInv, TypeOK
    <3> HIDE DEF new, k
    <3> QED
      BY <1>1, <2>1, <3>1, <3>2
  <2>3. Known' = Known
    BY <2>2 DEF Known
  <2> QED
    BY <1>1, <1>2, <1>3, <2>3 DEF Abstract!Ignore
<1>4. CASE ~ containsNodeId(table[k], adding.nodeId)
  <2>1. Len(table[k]) < bucketSize
    BY <1>2, <1>4 DEF addSucceeds
  <2>2. Cardinality(Abstract!Class(adding)) < bucketSize
    BY <1>1, <1>2, <2>1, ClassIsSmall, GoTableAssumption
  <2>3. Known' = Known \cup {adding}
    <3>1. Known \subseteq Known'
      BY StepKeepsContacts DEF Next, addEntryRec
    <3>2. adding \in Known'
      <4>1. table[k] \in Seq(nodeInfo)
        BY <1>1, ElementOfSeq, LenProperties DEF IInv, TypeOK
      <4>2. new = Append(table[k], adding)
        BY <1>4 DEF bucketAddEntry
      <4>3. Len(new) \in DOMAIN new /\ new[Len(new)] = adding
        BY <1>1, <4>1, <4>2, AppendProperties, LenProperties
      <4> QED
        BY <1>1, <4>3 DEF Known
    <3>3. ASSUME NEW c \in Known', c # adding
          PROVE  c \in Known
      <4>1. PICK i \in DOMAIN table' : \E j \in DOMAIN table'[i] : c = table'[i][j]
        BY <3>3 DEF Known
      <4>2. PICK j \in DOMAIN table'[i] : c = table'[i][j]
        BY <4>1
      <4> HIDE DEF new, k
      <4>3. j \in DOMAIN table[i] /\ c = table[i][j]
        BY <1>1, <3>3, <4>2
      <4> QED
        BY <1>1, <4>3, KnownMeans
    <3> QED
      BY <3>1, <3>2, <3>3
  <2> QED
    BY <1>1, <1>2, <1>4, <2>2, <2>3, SameCardinality DEF Abstract!Admit
<1> QED
  BY <1>3, <1>4

\* An entry is dropped only when its class is full.
LEMMA DropEntryIgnores ==
  ASSUME IInv, DropEntry
  PROVE  Abstract!Ignore
<1>1. /\ adding \in nodeInfo /\ adding # NoEntry /\ adding' = NoEntry
      /\ Known' = Known
  BY GoTableAssumption DEF DropEntry, Refused, IInv, TypeOK, Known
<1>2. Len(bucketOf(adding.nodeId)) >= bucketSize
  BY <1>1, ClassIsSmall, GoTableAssumption DEF DropEntry, Refused, addSucceeds
<1>3. Cardinality(Abstract!Class(adding)) >= bucketSize
  BY <1>1, <1>2, ClassIsSmall DEF DropEntry
<1> QED
  BY <1>1, <1>3, SameCardinality DEF Abstract!Ignore

\* A split moves contacts and changes nothing that can be seen.
LEMMA SplitBucketIsUnseen ==
  ASSUME IInv, SplitBucket
  PROVE  UNCHANGED Abstract!vars
<1> DEFINE n    == Len(table)
           far  == farHalf(table[n], n - 1)
           near == nearHalf(table[n], n - 1)
<1>1. /\ n \in Nat \ {0} /\ n - 1 \in BitIndex
      /\ table[n] \in Seq(nodeInfo)
      /\ DOMAIN table = 1 .. n /\ DOMAIN table' = 1 .. n + 1
      /\ \A x \in 1 .. n + 1 :
           table'[x] = IF x = n + 1 THEN near ELSE IF x = n THEN far ELSE table[x]
  BY SplitBucketFacts
<1>2. /\ \A x \in DOMAIN near : \E y \in DOMAIN table[n] : near[x] = table[n][y]
      /\ \A x \in DOMAIN far : \E y \in DOMAIN table[n] : far[x] = table[n][y]
  <2>1. \A x \in DOMAIN near : \E y \in DOMAIN table[n] :
          near[x] = table[n][y] /\ table[n][y].nodeId[n - 1] = thisNodeId[n - 1]
    BY <1>1, SplitFacts
  <2>2. \A x \in DOMAIN far : \E y \in DOMAIN table[n] :
          far[x] = table[n][y] /\ table[n][y].nodeId[n - 1] # thisNodeId[n - 1]
    BY <1>1, SplitFacts
  <2> HIDE DEF near, far, n
  <2> QED
    BY <2>1, <2>2
<1> HIDE DEF near, far, n
<1>3. Known \subseteq Known'
  BY StepKeepsContacts DEF Next, addEntryRec
<1>4. ASSUME NEW c \in Known'
      PROVE  c \in Known
  <2>1. PICK i \in DOMAIN table' : \E j \in DOMAIN table'[i] : c = table'[i][j]
    BY <1>4 DEF Known
  <2>2. PICK j \in DOMAIN table'[i] : c = table'[i][j]
    BY <2>1
  <2>3. n \in DOMAIN table
    BY <1>1
  <2>4. CASE i = n \/ i = n + 1
    <3>1. \E y \in DOMAIN table[n] : c = table[n][y]
      BY <1>1, <1>2, <2>2, <2>4
    <3> QED
      BY <2>3, <3>1, KnownMeans
  <2>5. CASE i # n /\ i # n + 1
    <3>1. i \in DOMAIN table /\ table'[i] = table[i]
      BY <1>1, <2>5
    <3> QED
      BY <2>2, <3>1, KnownMeans
  <2> QED
    BY <2>4, <2>5
<1>5. adding' = adding
  BY DEF SplitBucket
<1> QED
  BY <1>3, <1>4, <1>5 DEF Abstract!vars

\* An empty table knows nobody.
LEMMA InitImplements == Init => Abstract!Init
<1> SUFFICES ASSUME Init PROVE Abstract!Init
  OBVIOUS
<1>1. /\ adding = NoEntry /\ DOMAIN table = {1} /\ DOMAIN table[1] = {}
  BY DEF Init, newBucket
<1>2. Known = {}
  BY <1>1, KnownMeans
<1> QED
  BY <1>1, <1>2 DEF Abstract!Init

LEMMA StepImplements ==
  IInv /\ [Next]_vars => [Abstract!Next]_(Abstract!vars)
<1> SUFFICES ASSUME IInv, [Next]_vars
             PROVE  Abstract!Next \/ UNCHANGED Abstract!vars
  OBVIOUS
<1>1. ASSUME NEW entry \in Offered, addEntry(entry)
      PROVE  Abstract!Next
  BY <1>1 DEF addEntry, Known, Abstract!Offer, Abstract!Next
<1>2. CASE StoreEntry
  BY <1>2, StoreEntryAdmits DEF Abstract!Next
<1>3. CASE DropEntry
  BY <1>3, DropEntryIgnores DEF Abstract!Next
<1>4. CASE SplitBucket
  BY <1>4, SplitBucketIsUnseen
<1>5. CASE UNCHANGED vars
  BY <1>5 DEF vars, Known, Abstract!vars
<1> QED
  BY <1>1, <1>2, <1>3, <1>4, <1>5 DEF Next, addEntryRec

\* Which contacts the table keeps depends on their prefix lengths only: the
\* safety part of AdmitsByPrefixClass, for every number of bits, bucket size
\* and order of insertions.
THEOREM BucketsImplementClasses ==
  Spec => Abstract!Init /\ [][Abstract!Next]_(Abstract!vars)
<1>1. Init => Abstract!Init
  BY InitImplements
<1>2. IInv /\ [Next]_vars => [Abstract!Next]_(Abstract!vars)
  BY StepImplements
<1> QED
  BY <1>1, <1>2, InductiveInvariant, PTL DEF Spec

-----------------------------------------------------------------------------
\* findNode.

\* What findNodeWithoutSelf has found after some of its iterations.
Answer == {a \in [result : Seq(nodeInfo), exact : BOOLEAN] :
             Len(a.result) <= bucketSize}

BucketNumber == 0 .. Len(table) - 1

\* A list that was filled from the buckets of `looked`, each bucket once: it
\* repeats no identifier, and it has all they hold as long as it is not full.
Gathered(result, looked) ==
  /\ Distinct(result)
  /\ \A j \in DOMAIN result : \E i \in looked : \E k \in DOMAIN table[i + 1] :
       result[j] = table[i + 1][k]
  /\ Len(result) < bucketSize =>
       \A i \in looked : \A k \in DOMAIN table[i + 1] :
         \E j \in DOMAIN result : result[j] = table[i + 1][k]

\* A bucket, as the search sees it.
LEMMA BucketFacts ==
  ASSUME IInv, NEW i \in BucketNumber
  PROVE  LET b == table[i + 1]
         IN  /\ i + 1 \in DOMAIN table
             /\ b \in Seq(nodeInfo)
             /\ Len(b) \in 0 .. bucketSize
             /\ DOMAIN b = 1 .. Len(b)
             /\ Distinct(b)
             /\ \A k \in DOMAIN b : b[k] \in nodeInfo /\ bucketIndex(b[k].nodeId) = i
<1>1. Len(table) \in Nat /\ DOMAIN table = 1 .. Len(table)
  BY LenProperties DEF IInv, TypeOK
<1>2. i + 1 \in DOMAIN table /\ (i + 1) - 1 = i
  BY <1>1 DEF BucketNumber
<1>3. table[i + 1] \in Seq(nodeInfo)
  BY <1>1, <1>2, ElementOfSeq DEF IInv, TypeOK
<1>4. /\ DOMAIN table[i + 1] = 1 .. Len(table[i + 1])
      /\ Len(table[i + 1]) \in Nat
      /\ \A k \in DOMAIN table[i + 1] : table[i + 1][k] \in nodeInfo
  BY <1>3, LenProperties, ElementOfSeq
<1>5. Len(table[i + 1]) <= bucketSize
  BY <1>2 DEF IInv, NoBucketOverfull
<1>6. \A k \in DOMAIN table[i + 1] : bucketIndex(table[i + 1][k].nodeId) = i
  BY <1>2 DEF IInv, EveryContactInItsBucket
<1>7. Distinct(table[i + 1])
  BY <1>2 DEF IInv, NoIdentifierTwice, Distinct
<1> QED
  BY <1>2, <1>3, <1>4, <1>5, <1>6, <1>7, GoTableAssumption

\* A bucket with the identifier is answered with the contact that has it.
LEMMA LookAtExact ==
  ASSUME IInv, NEW found, NEW i \in BucketNumber, NEW id,
         containsNodeId(table[i + 1], id)
  PROVE  \E c \in nodeInfo :
           /\ c \in Known /\ c.nodeId = id
           /\ LookAt(found, i, id) = [result |-> <<c>>, exact |-> TRUE]
<1> DEFINE b        == table[i + 1]
           First(k) == /\ isEqual(b[k].nodeId, id)
                       /\ \A j \in 1 .. k - 1 : b[j].nodeId # id
<1>1. /\ i + 1 \in DOMAIN table /\ DOMAIN b = 1 .. Len(b) /\ Len(b) \in Nat
      /\ Distinct(b) /\ \A k \in DOMAIN b : b[k] \in nodeInfo
  BY BucketFacts
<1>2. PICK k \in DOMAIN b : b[k].nodeId = id
  BY DEF containsNodeId, isEqual
<1>3. \E x \in DOMAIN b : First(x)
  <2>1. \A j \in 1 .. k - 1 : j \in DOMAIN b /\ j # k
    BY <1>1
  <2>2. First(k)
    BY <1>1, <1>2, <2>1 DEF isEqual, Distinct
  <2> QED
    BY <2>2
<1> DEFINE x == CHOOSE k_1 \in DOMAIN b : First(k_1)
<1>4. x \in DOMAIN b /\ First(x)
  <2> HIDE DEF First, b
  <2> QED
    BY <1>3
<1>5. LookAt(found, i, id) = [result |-> <<b[x]>>, exact |-> TRUE]
  BY DEF LookAt, getEntryByIdOrReturnAll
<1> HIDE DEF x
<1>6. b[x] \in Known
  <2>1. \E y \in DOMAIN table : \E z \in DOMAIN table[y] : b[x] = table[y][z]
    BY <1>1, <1>4
  <2> QED
    BY <2>1 DEF Known
<1>7. b[x] \in nodeInfo /\ b[x].nodeId = id
  BY <1>1, <1>4 DEF isEqual
<1> QED
  BY <1>5, <1>6, <1>7

\* Any other bucket only adds what it holds to the result.
LEMMA LookAtOther ==
  ASSUME IInv, NEW found \in Answer, NEW i \in BucketNumber, NEW id,
         ~ containsNodeId(table[i + 1], id)
  PROVE  /\ LookAt(found, i, id) \in Answer
         /\ LookAt(found, i, id).exact = found.exact
         /\ ToSet(found.result) \subseteq ToSet(LookAt(found, i, id).result)
         /\ \A looked \in SUBSET (BucketNumber \ {i}) :
              Gathered(found.result, looked) =>
                Gathered(LookAt(found, i, id).result, looked \cup {i})
<1> DEFINE b    == table[i + 1]
           old  == found.result
           room == bucketSize - Len(old)
           new  == old \o SubSeq(b, 1, IF room < Len(b) THEN room ELSE Len(b))
<1>1. /\ old \in Seq(nodeInfo) /\ Len(old) <= bucketSize
      /\ Len(old) \in Nat /\ DOMAIN old = 1 .. Len(old) /\ bucketSize \in Nat
  BY LenProperties, GoTableAssumption DEF Answer
<1>2. /\ b \in Seq(nodeInfo) /\ Len(b) \in Nat /\ DOMAIN b = 1 .. Len(b)
      /\ Distinct(b) /\ \A k \in DOMAIN b : bucketIndex(b[k].nodeId) = i
  BY BucketFacts
<1>3. LookAt(found, i, id) = [found EXCEPT !.result = new]
  BY DEF LookAt, getEntryByIdOrReturnAll
<1>4. /\ new \in Seq(nodeInfo)
      /\ Len(new) \in Nat /\ Len(old) <= Len(new) /\ Len(new) <= bucketSize
      /\ DOMAIN new = 1 .. Len(new)
      /\ \A j \in 1 .. Len(old) : new[j] = old[j]
      /\ \A j \in 1 .. Len(new) :
           j > Len(old) => j - Len(old) \in 1 .. Len(b) /\ new[j] = b[j - Len(old)]
      /\ Len(new) < bucketSize => Len(new) = Len(old) + Len(b)
  <2> HIDE DEF b, old
  <2> QED
    BY <1>1, <1>2, FillFacts
<1> HIDE DEF b, new
<1>5. /\ LookAt(found, i, id) \in Answer
      /\ LookAt(found, i, id).exact = found.exact
      /\ LookAt(found, i, id).result = new
  <2>1. found \in [result : Seq(nodeInfo), exact : BOOLEAN]
    BY DEF Answer
  <2>2. [found EXCEPT !.result = new] \in [result : Seq(nodeInfo), exact : BOOLEAN]
    BY <1>4, <2>1
  <2>3. /\ [found EXCEPT !.result = new].result = new
        /\ [found EXCEPT !.result = new].exact = found.exact
    BY <2>1
  <2>4. Len(new) <= bucketSize
    BY <1>4
  <2> QED
    BY <1>3, <2>2, <2>3, <2>4 DEF Answer
<1> HIDE DEF old, room
<1>6. Len(new) \in Nat /\ Len(old) <= Len(new) /\ Len(new) <= bucketSize
  BY <1>4
<1>7. ASSUME NEW y \in DOMAIN new, ~ (y > Len(old))
      PROVE  y \in DOMAIN old /\ new[y] = old[y]
  <2>1. y \in 1 .. Len(new)
    BY <1>4
  <2>2. y \in 1 .. Len(old)
    BY <1>1, <1>6, <1>7, <2>1
  <2> QED
    BY <1>1, <1>4, <2>2
<1>8. ASSUME NEW y \in DOMAIN old
      PROVE  y \in DOMAIN new /\ new[y] = old[y]
  <2>1. y \in 1 .. Len(new)
    BY <1>1, <1>6
  <2> QED
    BY <1>1, <1>4, <2>1
<1>9. ASSUME NEW looked \in SUBSET (BucketNumber \ {i}), Gathered(old, looked)
      PROVE  Gathered(new, looked \cup {i})
  <2>1. ASSUME NEW j \in 1 .. Len(old)
        PROVE  bucketIndex(old[j].nodeId) # i
    <3>1. PICK x \in looked : \E k \in DOMAIN table[x + 1] : old[j] = table[x + 1][k]
      BY <1>1, <1>9 DEF Gathered
    <3>2. PICK k \in DOMAIN table[x + 1] : old[j] = table[x + 1][k]
      BY <3>1
    <3>3. x \in BucketNumber /\ x # i
      BY <1>9
    <3>4. bucketIndex(table[x + 1][k].nodeId) = x
      BY <3>3, BucketFacts
    <3> QED
      BY <3>2, <3>3, <3>4
  <2>2. Distinct(new)
    <3> SUFFICES ASSUME NEW j \in 1 .. Len(new), NEW k \in 1 .. Len(new),
                        new[j].nodeId = new[k].nodeId
                 PROVE  j = k
      BY <1>4 DEF Distinct
    <3>1. ASSUME NEW y \in 1 .. Len(new), y > Len(old)
          PROVE  bucketIndex(new[y].nodeId) = i
      BY <1>2, <1>4, <3>1
    <3>2. ASSUME NEW y \in 1 .. Len(new), ~ (y > Len(old))
          PROVE  bucketIndex(new[y].nodeId) # i
      BY <1>1, <1>4, <1>7, <2>1, <3>2
    <3>3. CASE j > Len(old) /\ k > Len(old)
      <4>1. /\ j - Len(old) \in DOMAIN b /\ new[j] = b[j - Len(old)]
            /\ k - Len(old) \in DOMAIN b /\ new[k] = b[k - Len(old)]
        BY <1>2, <1>4, <3>3
      <4>2. j - Len(old) = k - Len(old)
        BY <1>2, <4>1 DEF Distinct
      <4> QED
        BY <1>1, <1>6, <4>2
    <3>4. CASE ~ (j > Len(old)) /\ ~ (k > Len(old))
      <4>1. j \in DOMAIN old /\ k \in DOMAIN old /\ new[j] = old[j] /\ new[k] = old[k]
        BY <1>4, <1>7, <3>4
      <4> QED
        BY <1>9, <4>1 DEF Gathered, Distinct
    <3> QED
      BY <3>1, <3>2, <3>3, <3>4
  <2>3. ASSUME NEW j \in DOMAIN new
        PROVE  \E x \in looked \cup {i} : \E k \in DOMAIN table[x + 1] :
                 new[j] = table[x + 1][k]
    <3>1. CASE j > Len(old)
      <4>1. j - Len(old) \in DOMAIN b /\ new[j] = b[j - Len(old)]
        BY <1>2, <1>4, <3>1
      <4> QED
        BY <4>1 DEF b
    <3>2. CASE ~ (j > Len(old))
      <4>1. j \in DOMAIN old /\ new[j] = old[j]
        BY <1>7, <3>2
      <4> QED
        BY <1>9, <4>1 DEF Gathered
    <3> QED
      BY <3>1, <3>2
  <2>4. ASSUME Len(new) < bucketSize, NEW x \in looked \cup {i},
               NEW k \in DOMAIN table[x + 1]
        PROVE  \E j \in DOMAIN new : new[j] = table[x + 1][k]
    <3>1. Len(new) = Len(old) + Len(b)
      BY <1>4, <2>4
    <3>2. CASE x = i
      <4>1. k \in 1 .. Len(b) /\ table[x + 1][k] = b[k]
        BY <1>2, <2>4, <3>2 DEF b
      <4>2. Len(old) + k \in 1 .. Len(new) /\ Len(old) + k > Len(old)
            /\ (Len(old) + k) - Len(old) = k
        BY <1>1, <1>2, <3>1, <4>1
      <4>3. new[Len(old) + k] = b[k]
        BY <1>4, <4>2
      <4> QED
        BY <1>4, <4>1, <4>2, <4>3
    <3>3. CASE x # i
      <4>1. x \in looked /\ Len(old) < bucketSize
        BY <1>1, <1>2, <2>4, <3>1, <3>3
      <4>2. PICK j \in DOMAIN old : old[j] = table[x + 1][k]
        BY <1>9, <2>4, <4>1 DEF Gathered
      <4>3. j \in DOMAIN new /\ new[j] = old[j]
        BY <1>8
      <4> QED
        BY <4>2, <4>3
    <3> QED
      BY <3>2, <3>3
  <2> QED
    BY <2>2, <2>3, <2>4 DEF Gathered
<1>10. ToSet(old) \subseteq ToSet(new)
  BY <1>8 DEF ToSet
<1> QED
  BY <1>5, <1>9, <1>10 DEF old

\* Looking at a bucket gives an answer of the right form and length, whether
\* the bucket has the identifier or not.
LEMMA LookAtType ==
  ASSUME IInv, NEW found \in Answer, NEW i \in BucketNumber, NEW id
  PROVE  LookAt(found, i, id) \in Answer
<1>1. CASE containsNodeId(table[i + 1], id)
  <2>1. PICK c \in nodeInfo : LookAt(found, i, id) = [result |-> <<c>>, exact |-> TRUE]
    BY <1>1, LookAtExact
  <2>2. <<c>> \in Seq(nodeInfo) /\ Len(<<c>>) = 1
    OBVIOUS
  <2>3. [result |-> <<c>>, exact |-> TRUE] \in [result : Seq(nodeInfo), exact : BOOLEAN]
    BY <2>2
  <2>4. Len([result |-> <<c>>, exact |-> TRUE].result) <= bucketSize
    BY <2>2, GoTableAssumption
  <2> QED
    BY <2>1, <2>3, <2>4 DEF Answer
<1>2. CASE ~ containsNodeId(table[i + 1], id)
  BY <1>2, LookAtOther
<1> QED
  BY <1>1, <1>2

\* So does an iteration.
LEMMA IterationType ==
  ASSUME IInv, NEW found \in Answer, NEW id, NEW start \in BucketNumber,
         NEW offset \in Nat
  PROVE  Iteration(found, id, start, offset) \in Answer
<1> DEFINE lower == IF start - offset >= 0
                    THEN LookAt(found, start - offset, id) ELSE found
<1>1. Len(table) \in Nat
  BY LenProperties DEF IInv, TypeOK
<1>2. lower \in Answer
  <2>1. start - offset >= 0 => start - offset \in BucketNumber
    BY <1>1 DEF BucketNumber
  <2> QED
    BY <2>1, LookAtType
<1>3. start + offset <= currentMaxPrefixLength => start + offset \in BucketNumber
  BY <1>1 DEF BucketNumber, currentMaxPrefixLength
<1> HIDE DEF lower
<1>4. start + offset <= currentMaxPrefixLength =>
        LookAt(lower, start + offset, id) \in Answer
  BY <1>2, <1>3, LookAtType
<1> QED
  BY <1>2, <1>4 DEF Iteration, LowerThenHigher, lower

\* findNodeWithoutSelf is what its loop has found after so many iterations.
LEMMA SearchIterates ==
  ASSUME IInv, NEW id \in NodeId
  PROVE  \E after \in [0 .. Len(table) -> Answer] :
           /\ after[0] = Unsearched
           /\ \A n \in 1 .. Len(table) :
                after[n] = Iteration(after[n - 1], id, bucketIndex(id), n - 1)
           /\ findNodeWithoutSelf(id) = after[Len(table)]
<1> DEFINE N       == Len(table)
           Body(f) == [n \in 0 .. N |->
                         IF n = 0 THEN Unsearched
                         ELSE Iteration(f[n - 1], id, bucketIndex(id), n - 1)]
           step    == [n \in 1 .. N |-> [a \in Answer |->
                         Iteration(a, id, bucketIndex(id), n - 1)]]
<1>1. N \in Nat /\ bucketIndex(id) \in BucketNumber
  BY BucketIndexInTable DEF IInv, BucketNumber
<1>2. Unsearched \in Answer
  <2>1. <<>> \in Seq(nodeInfo) /\ Len(<<>>) = 0
    OBVIOUS
  <2>2. Unsearched \in [result : Seq(nodeInfo), exact : BOOLEAN]
    BY <2>1 DEF Unsearched
  <2>3. Len(Unsearched.result) <= bucketSize
    BY <2>1, GoTableAssumption DEF Unsearched
  <2> QED
    BY <2>2, <2>3 DEF Answer
<1>3. step \in Steps(N, Answer)
  <2>1. \A n \in 1 .. N : \A a \in Answer :
          Iteration(a, id, bucketIndex(id), n - 1) \in Answer
    BY <1>1, IterationType
  <2> QED
    BY <2>1 DEF Steps
<1>4. PICK f \in [0 .. N -> Answer] :
        f[0] = Unsearched /\ \A n \in 1 .. N : f[n] = step[n][f[n - 1]]
  <2>1. N \in Nat
    BY <1>1
  <2> HIDE DEF step, N, Body
  <2> QED
    BY <1>2, <1>3, <2>1, IterationExists
<1>5. f = Body(f)
  <2>1. ASSUME NEW n \in 1 .. N
        PROVE  f[n] = Iteration(f[n - 1], id, bucketIndex(id), n - 1)
    <3>1. f[n - 1] \in Answer
      BY <1>1, <1>4
    <3> QED
      BY <1>4, <3>1
  <2>2. \A n \in 0 .. N : n = 0 \/ n \in 1 .. N
    BY <1>1
  <2>3. \A n \in 0 .. N : f[n] = Body(f)[n]
    BY <1>4, <2>1, <2>2
  <2> QED
    BY <1>4, <2>3
<1> DEFINE after == CHOOSE g : g = Body(g)
<1>6. findNodeWithoutSelf(id) = after[N]
  BY DEF findNodeWithoutSelf
<1>7. after = Body(after)
  <2> HIDE DEF Body
  <2> QED
    BY <1>5
<1> HIDE DEF after, step
<1>8. /\ after[0] = Unsearched
      /\ \A n \in 1 .. N : after[n] = Iteration(after[n - 1], id, bucketIndex(id), n - 1)
  BY <1>1, <1>7
<1>9. after \in [0 .. N -> Answer]
  <2> DEFINE Typed == {n \in 0 .. N : after[n] \in Answer}
  <2>1. 0 \in Typed
    BY <1>1, <1>2, <1>8
  <2>2. \A n \in 1 .. N : n - 1 \in Typed => n \in Typed
    BY <1>1, <1>8, IterationType
  <2> HIDE DEF Typed
  <2>3. \A n \in 0 .. N : n \in Typed
    BY <1>1, <2>1, <2>2, CountingUp
  <2>4. \A n \in 0 .. N : after[n] \in Answer
    BY <2>3 DEF Typed
  <2> QED
    BY <1>7, <2>4
<1> QED
  BY <1>6, <1>8, <1>9

\* The search for an identifier the table knows ends at its first bucket.
LEMMA KnownIsFoundAtOnce ==
  ASSUME IInv, NEW id \in NodeId, containsNodeId(bucketOf(id), id)
  PROVE  \E c \in Known :
           /\ c.nodeId = id
           /\ findNodeWithoutSelf(id) = [result |-> <<c>>, exact |-> TRUE]
<1> DEFINE start == bucketIndex(id)
<1>1. /\ start \in BucketNumber /\ Len(table) \in Nat \ {0}
      /\ bucketOf(id) = table[start + 1]
  BY BucketIndexInTable DEF IInv, BucketNumber, bucketOf
<1>2. PICK after \in [0 .. Len(table) -> Answer] :
        /\ after[0] = Unsearched
        /\ \A n \in 1 .. Len(table) :
             after[n] = Iteration(after[n - 1], id, bucketIndex(id), n - 1)
        /\ findNodeWithoutSelf(id) = after[Len(table)]
  BY SearchIterates
<1>3. PICK c \in nodeInfo :
        /\ c \in Known /\ c.nodeId = id
        /\ LookAt(Unsearched, start, id) = [result |-> <<c>>, exact |-> TRUE]
  BY <1>1, LookAtExact
<1> DEFINE answer == [result |-> <<c>>, exact |-> TRUE]
<1>4. Iteration(Unsearched, id, start, 0) = answer
  <2>1. LowerThenHigher(Unsearched, id, start, 0) = LookAt(Unsearched, start, id)
    <3>1. start - 0 = start /\ start >= 0
      BY <1>1 DEF BucketNumber
    <3> QED
      BY <3>1 DEF LowerThenHigher
  <2>2. LoopContinues(start, 0)
    BY <1>1 DEF LoopContinues, BucketNumber, currentMaxPrefixLength
  <2>3. ~ Unsearched.exact /\ ~ (Len(Unsearched.result) >= bucketSize)
    BY GoTableAssumption DEF Unsearched
  <2> QED
    BY <1>3, <2>1, <2>2, <2>3 DEF Iteration
<1> DEFINE Same == {n \in 0 .. Len(table) : n >= 1 => after[n] = answer}
<1>5. 0 \in Same
  BY <1>1
<1>6. ASSUME NEW n \in 1 .. Len(table), n - 1 \in Same
      PROVE  n \in Same
  <2> SUFFICES after[n] = answer
    BY <1>1
  <2>1. after[n] = Iteration(after[n - 1], id, start, n - 1)
    BY <1>2
  <2>2. CASE n = 1
    <3>1. n - 1 = 0
      BY <2>2
    <3>2. after[n] = Iteration(Unsearched, id, start, 0)
      BY <1>2, <2>1, <3>1
    <3> QED
      BY <1>4, <3>2
  <2>3. CASE n # 1
    <3>1. after[n - 1] = answer
      BY <1>1, <1>6, <2>3
    <3> QED
      BY <2>1, <3>1 DEF Iteration
  <2> QED
    BY <2>2, <2>3
<1>7. Len(table) \in Same
  <2> HIDE DEF Same
  <2>1. \A n \in 0 .. Len(table) : n \in Same
    BY <1>1, <1>5, <1>6, CountingUp
  <2> QED
    BY <1>1, <2>1
<1>8. after[Len(table)] = answer
  BY <1>1, <1>7
<1> QED
  BY <1>2, <1>3, <1>8

\* The buckets less than n places away from where the search starts.
Near(start, n) == {i \in BucketNumber : start - n < i /\ i < start + n}

\* The bucket that the condition of the loop may leave out: bucket 0, if the
\* last bucket was looked at before it.
Skipped(start) == IF start + start > currentMaxPrefixLength THEN {0} ELSE {}

\* How far the search for an unknown identifier has come after n iterations:
\* it has looked at all near buckets, except a skipped one, or it is full.
Searched(found, start, n) ==
  /\ found \in Answer
  /\ ~ found.exact
  /\ \E looked \in SUBSET Near(start, n) :
       /\ Near(start, n) \ Skipped(start) \subseteq looked
       /\ Gathered(found.result, looked)

\* One more iteration looks at the buckets one place further away.
LEMMA IterationSearches ==
  ASSUME IInv, NEW id \in NodeId, NEW start \in BucketNumber, NEW offset \in Nat,
         \A i \in BucketNumber : ~ containsNodeId(table[i + 1], id),
         NEW found, Searched(found, start, offset)
  PROVE  Searched(Iteration(found, id, start, offset), start, offset + 1)
<1>1. PICK looked \in SUBSET Near(start, offset) :
        /\ Near(start, offset) \ Skipped(start) \subseteq looked
        /\ Gathered(found.result, looked)
  BY DEF Searched
<1>2. found \in Answer /\ ~ found.exact
  BY DEF Searched
<1>3. Len(table) \in Nat /\ BucketNumber \subseteq Int /\ start \in Nat
  BY LenProperties DEF IInv, TypeOK, BucketNumber
<1>4. Near(start, offset) \subseteq Near(start, offset + 1)
  <2> SUFFICES ASSUME NEW i \in Near(start, offset) PROVE i \in Near(start, offset + 1)
    OBVIOUS
  <2>1. i \in Int
    BY <1>3 DEF Near
  <2> QED
    BY <1>3, <2>1 DEF Near
<1>5. CASE Len(found.result) >= bucketSize
  <2>1. Iteration(found, id, start, offset) = found
    BY <1>5 DEF Iteration
  <2>2. Len(found.result) \in Nat /\ ~ (Len(found.result) < bucketSize)
    BY <1>2, <1>5, LenProperties, GoTableAssumption DEF Answer
  <2>3. Gathered(found.result, Near(start, offset + 1))
    BY <1>1, <1>4, <2>2 DEF Gathered
  <2> QED
    BY <1>2, <2>1, <2>3 DEF Searched
<1>6. CASE ~ LoopContinues(start, offset)
  <2>1. Iteration(found, id, start, offset) = found
    BY <1>6 DEF Iteration
  <2>2. ASSUME NEW i \in Near(start, offset + 1), i \notin Skipped(start)
        PROVE  i \in Near(start, offset)
    <3>1. /\ start - offset <= 0 /\ start + offset > Len(table) - 1
          /\ i \in 0 .. Len(table) - 1 /\ i \in BucketNumber
      BY <1>3, <1>6 DEF LoopContinues, currentMaxPrefixLength, Near, BucketNumber
    <3>2. i = 0 => start + start <= Len(table) - 1
      BY <1>3, <2>2 DEF Skipped, currentMaxPrefixLength
    <3> QED
      BY <1>3, <3>1, <3>2 DEF Near
  <2>3. /\ looked \in SUBSET Near(start, offset + 1)
        /\ Near(start, offset + 1) \ Skipped(start) \subseteq looked
    BY <1>1, <1>4, <2>2
  <2> QED
    BY <1>1, <1>2, <2>1, <2>3 DEF Searched
<1>7. CASE ~ (Len(found.result) >= bucketSize) /\ LoopContinues(start, offset)
  <2> DEFINE below == start - offset
             above == start + offset
             lower == IF below >= 0 THEN LookAt(found, below, id) ELSE found
             up    == ~ lower.exact /\ offset > 0 /\ above <= currentMaxPrefixLength
             both  == IF up THEN LookAt(lower, above, id) ELSE lower
             seen  == looked \cup {i \in BucketNumber : i = below}
             all   == seen \cup {i \in BucketNumber : i = above}
  <2>1. Iteration(found, id, start, offset) = both
    BY <1>2, <1>7 DEF Iteration, LowerThenHigher
  <2>2. below \in BucketNumber <=> below >= 0
    BY <1>3 DEF BucketNumber
  <2>3. lower \in Answer /\ ~ lower.exact /\ Gathered(lower.result, seen)
    <3>1. CASE below >= 0
      <4>1. looked \in SUBSET (BucketNumber \ {below})
        BY <1>3 DEF Near
      <4>2. seen = looked \cup {below}
        BY <2>2, <3>1
      <4>3. /\ LookAt(found, below, id) \in Answer
            /\ LookAt(found, below, id).exact = found.exact
            /\ Gathered(LookAt(found, below, id).result, looked \cup {below})
        <5> HIDE DEF below
        <5> QED
          BY <1>1, <1>2, <2>2, <3>1, <4>1, LookAtOther
      <4> QED
        BY <1>2, <3>1, <4>2, <4>3
    <3>2. CASE ~ (below >= 0)
      <4>1. seen = looked
        BY <2>2, <3>2
      <4> QED
        BY <1>1, <1>2, <3>2, <4>1
    <3> QED
      BY <3>1, <3>2
  <2>4. above \in BucketNumber <=> above <= currentMaxPrefixLength
    BY <1>3 DEF BucketNumber, currentMaxPrefixLength
  <2> HIDE DEF lower
  <2>5. both \in Answer /\ ~ both.exact /\ Gathered(both.result, all)
    <3>1. CASE up
      <4>1. above \in BucketNumber /\ above # below /\ above \notin looked
        BY <1>3, <2>4, <3>1 DEF Near
      <4>2. seen \in SUBSET (BucketNumber \ {above}) /\ all = seen \cup {above}
        BY <4>1 DEF Near
      <4>3. /\ LookAt(lower, above, id) \in Answer
            /\ LookAt(lower, above, id).exact = lower.exact
            /\ Gathered(LookAt(lower, above, id).result, seen \cup {above})
        <5> HIDE DEF above, seen
        <5> QED
          BY <2>3, <4>1, <4>2, LookAtOther
      <4> QED
        BY <2>3, <3>1, <4>2, <4>3
    <3>2. CASE ~ up
      <4>1. all = seen
        <5>1. above \in BucketNumber => offset = 0
          BY <2>3, <2>4, <3>2
        <5>2. offset = 0 => above = below
          BY <1>3
        <5> QED
          BY <5>1, <5>2
      <4> QED
        BY <2>3, <3>2, <4>1
    <3> QED
      BY <3>1, <3>2
  <2>6. all \in SUBSET Near(start, offset + 1)
    <3>1. \A i \in BucketNumber : i = below \/ i = above => i \in Near(start, offset + 1)
      BY <1>3 DEF Near
    <3> QED
      BY <1>1, <1>4, <3>1
  <2>7. Near(start, offset + 1) \ Skipped(start) \subseteq all
    <3> SUFFICES ASSUME NEW i \in Near(start, offset + 1), i \notin Skipped(start)
                 PROVE  i \in all
      OBVIOUS
    <3>1. i \in BucketNumber /\ i \in Int
      BY <1>3 DEF Near
    <3>2. i = below \/ i = above \/ i \in Near(start, offset)
      BY <1>3, <3>1 DEF Near
    <3> QED
      BY <1>1, <3>1, <3>2
  <2> HIDE DEF both, all
  <2> QED
    BY <2>1, <2>5, <2>6, <2>7 DEF Searched
<1> QED
  BY <1>5, <1>6, <1>7

\* An iteration keeps what the answer names.
LEMMA IterationExtends ==
  ASSUME IInv, NEW id \in NodeId, NEW start \in BucketNumber, NEW offset \in Nat,
         \A i \in BucketNumber : ~ containsNodeId(table[i + 1], id),
         NEW found \in Answer, ~ found.exact
  PROVE  ToSet(found.result) \subseteq ToSet(Iteration(found, id, start, offset).result)
<1> DEFINE below == start - offset
           above == start + offset
           lower == IF below >= 0 THEN LookAt(found, below, id) ELSE found
           both  == IF ~ lower.exact /\ offset > 0 /\ above <= currentMaxPrefixLength
                    THEN LookAt(lower, above, id) ELSE lower
<1>1. /\ below >= 0 => below \in BucketNumber
      /\ above <= currentMaxPrefixLength => above \in BucketNumber
  BY LenProperties DEF IInv, TypeOK, BucketNumber, currentMaxPrefixLength
<1> HIDE DEF below, above
<1>2. lower \in Answer /\ ToSet(found.result) \subseteq ToSet(lower.result)
  BY <1>1, LookAtOther
<1> HIDE DEF lower
<1>3. ToSet(lower.result) \subseteq ToSet(both.result)
  BY <1>1, <1>2, LookAtOther
<1>4. Iteration(found, id, start, offset) \in {found, both}
  BY DEF Iteration, LowerThenHigher, lower, below, above
<1> QED
  BY <1>2, <1>3, <1>4

\* How many places a bucket is away from the first one looked at.
Away(i, start) == IF i < start THEN start - i ELSE i - start

\* Of the near buckets, none with a contact in the answer is further away than
\* one with a contact that is not.
InOrder(result, start, n) ==
  \A x, y \in Near(start, n) :
    \A k \in DOMAIN table[x + 1], l \in DOMAIN table[y + 1] :
      table[x + 1][k] \in ToSet(result) /\ table[y + 1][l] \notin ToSet(result)
      => Away(x, start) <= Away(y, start)

\* An iteration adds nothing from the next buckets before the answer has all
\* there is in the ones before them.  Once bucket 0 was skipped there are no
\* next buckets.
LEMMA IterationInOrder ==
  ASSUME IInv, NEW id \in NodeId, NEW start \in BucketNumber, NEW offset \in Nat,
         \A i \in BucketNumber : ~ containsNodeId(table[i + 1], id),
         NEW found, Searched(found, start, offset),
         InOrder(found.result, start, offset)
  PROVE  InOrder(Iteration(found, id, start, offset).result, start, offset + 1)
<1> DEFINE more == Iteration(found, id, start, offset)
<1> SUFFICES ASSUME NEW x \in Near(start, offset + 1),
                    NEW y \in Near(start, offset + 1),
                    NEW k \in DOMAIN table[x + 1],
                    NEW l \in DOMAIN table[y + 1],
                    table[x + 1][k] \in ToSet(more.result),
                    table[y + 1][l] \notin ToSet(more.result)
             PROVE  Away(x, start) <= Away(y, start)
  BY DEF InOrder
<1>1. /\ x \in BucketNumber /\ y \in BucketNumber
      /\ x \in Int /\ y \in Int /\ start \in Int
  BY LenProperties DEF IInv, TypeOK, BucketNumber, Near
<1>2. Away(x, start) <= offset
  BY <1>1 DEF Near, Away
<1>3. PICK looked \in SUBSET Near(start, offset) :
        /\ Near(start, offset) \ Skipped(start) \subseteq looked
        /\ Gathered(found.result, looked)
  BY DEF Searched
<1>4. CASE y \notin Near(start, offset)
  <2>1. Away(y, start) >= offset
    BY <1>1, <1>4 DEF Near, Away
  <2> QED
    BY <1>1, <1>2, <2>1 DEF Away
<1>5. CASE y \in Near(start, offset)
  <2>1. table[y + 1][l] \notin ToSet(found.result)
    BY IterationExtends DEF Searched
  <2>2. more = found
    <3>1. CASE y \in looked
      <4>1. Len(found.result) \in Nat /\ ~ (Len(found.result) < bucketSize)
        BY <1>3, <2>1, <3>1, LenProperties DEF Gathered, ToSet, Searched, Answer
      <4> QED
        BY <4>1, GoTableAssumption DEF Iteration
    <3>2. CASE y \notin looked
      <4>1. y = 0 /\ start + start > currentMaxPrefixLength
        BY <1>3, <1>5, <3>2 DEF Skipped
      <4>2. ~ LoopContinues(start, offset)
        <5>1. start - offset < 0 /\ currentMaxPrefixLength \in Int
          BY <1>1, <1>5, <4>1, LenProperties
          DEF Near, currentMaxPrefixLength, IInv, TypeOK
        <5> QED
          BY <1>1, <4>1, <5>1 DEF LoopContinues
      <4> QED
        BY <4>2 DEF Iteration
    <3> QED
      BY <3>1, <3>2
  <2>3. PICK j \in DOMAIN found.result : table[x + 1][k] = found.result[j]
    BY <2>2 DEF ToSet
  <2>4. PICK z \in looked : \E m \in DOMAIN table[z + 1] :
          found.result[j] = table[z + 1][m]
    BY <1>3 DEF Gathered
  <2>5. PICK m \in DOMAIN table[z + 1] : found.result[j] = table[z + 1][m]
    BY <2>4
  <2>6. z \in Near(start, offset) /\ z \in BucketNumber
    BY DEF Near
  <2>7. x = z
    <3>1. bucketIndex(table[z + 1][m].nodeId) = z
      BY <2>6, BucketFacts
    <3>2. bucketIndex(table[x + 1][k].nodeId) = x
      BY <1>1, BucketFacts
    <3> QED
      BY <2>3, <2>5, <3>1, <3>2
  <2>8. table[x + 1][k] \in ToSet(found.result)
    BY <2>2
  <2> QED
    BY <1>5, <2>1, <2>6, <2>7, <2>8 DEF InOrder
<1> QED
  BY <1>4, <1>5

\* What the search for an unknown identifier ends with.
LEMMA UnknownIsSearched ==
  ASSUME IInv, NEW id \in NodeId, ~ containsNodeId(bucketOf(id), id)
  PROVE  /\ Searched(findNodeWithoutSelf(id), bucketIndex(id), Len(table))
         /\ InOrder(findNodeWithoutSelf(id).result, bucketIndex(id), Len(table))
<1> DEFINE start == bucketIndex(id)
<1>1. start \in BucketNumber /\ Len(table) \in Nat
  BY BucketIndexInTable DEF IInv, BucketNumber
<1>2. PICK after \in [0 .. Len(table) -> Answer] :
        /\ after[0] = Unsearched
        /\ \A n \in 1 .. Len(table) :
             after[n] = Iteration(after[n - 1], id, start, n - 1)
        /\ findNodeWithoutSelf(id) = after[Len(table)]
  BY SearchIterates
<1>3. \A i \in BucketNumber : ~ containsNodeId(table[i + 1], id)
  <2> SUFFICES ASSUME NEW i \in BucketNumber, containsNodeId(table[i + 1], id)
               PROVE  FALSE
    OBVIOUS
  <2>1. PICK k \in DOMAIN table[i + 1] : table[i + 1][k].nodeId = id
    BY DEF containsNodeId, isEqual
  <2>2. start = i
    BY <2>1, BucketFacts
  <2> QED
    BY <2>2 DEF bucketOf
<1> DEFINE Reached == {n \in 0 .. Len(table) :
                         /\ Searched(after[n], start, n)
                         /\ InOrder(after[n].result, start, n)}
<1>4. 0 \in Reached
  <2>1. Near(start, 0) = {}
    BY <1>1 DEF Near, BucketNumber
  <2>2. Gathered(Unsearched.result, {})
    BY DEF Gathered, Distinct, Unsearched
  <2>3. after[0] \in Answer
    BY <1>1
  <2>4. ~ Unsearched.exact
    BY DEF Unsearched
  <2>5. Searched(after[0], start, 0)
    BY <1>2, <2>1, <2>2, <2>3, <2>4 DEF Searched
  <2>6. InOrder(after[0].result, start, 0)
    BY <2>1 DEF InOrder
  <2> QED
    BY <1>1, <2>5, <2>6
<1>5. ASSUME NEW n \in 1 .. Len(table), n - 1 \in Reached
      PROVE  n \in Reached
  <2>1. n - 1 \in Nat /\ (n - 1) + 1 = n
    BY <1>1
  <2>2. /\ Searched(after[n - 1], start, n - 1)
        /\ InOrder(after[n - 1].result, start, n - 1)
    BY <1>5
  <2> DEFINE more == Iteration(after[n - 1], id, start, n - 1)
  <2> HIDE DEF start
  <2>3. /\ Searched(more, start, (n - 1) + 1)
        /\ InOrder(more.result, start, (n - 1) + 1)
    BY <1>1, <1>3, <2>1, <2>2, IterationSearches, IterationInOrder
  <2>4. Searched(after[n], start, n) /\ InOrder(after[n].result, start, n)
    BY <1>2, <2>1, <2>3
  <2> QED
    BY <1>1, <2>4
<1>6. Len(table) \in Reached
  <2> HIDE DEF Reached
  <2>1. \A n \in 0 .. Len(table) : n \in Reached
    BY <1>1, <1>4, <1>5, CountingUp
  <2> QED
    BY <1>1, <2>1
<1> QED
  BY <1>2, <1>6

\* findNode finds every contact the table holds, and never claims another one.
THEOREM KnownAreFound == Spec => []KnownNodesAreFound
<1>1. IInv => KnownNodesAreFound
  <2> SUFFICES ASSUME IInv, NEW id \in NodeId \ {thisNodeId}
               PROVE  LET found == findNode(id)
                          known == {c \in Known : c.nodeId = id}
                      IN  IF known = {} THEN ~ found.exact
                          ELSE /\ found.exact /\ Len(found.result) = 1
                               /\ found.result[1] \in known
    BY DEF KnownNodesAreFound
  <2>1. findNode(id) = findNodeWithoutSelf(id)
    BY DEF findNode, isEqual
  <2>2. CASE containsNodeId(bucketOf(id), id)
    <3>1. PICK c \in Known :
            /\ c.nodeId = id
            /\ findNodeWithoutSelf(id) = [result |-> <<c>>, exact |-> TRUE]
      BY <2>2, KnownIsFoundAtOnce
    <3> QED
      BY <2>1, <3>1
  <2>3. CASE ~ containsNodeId(bucketOf(id), id)
    <3>1. {c \in Known : c.nodeId = id} = {}
      BY <2>3, KnownIsFound
    <3>2. ~ findNodeWithoutSelf(id).exact
      BY <2>3, UnknownIsSearched DEF Searched
    <3> QED
      BY <2>1, <3>1, <3>2
  <2> QED
    BY <2>2, <2>3
<1> QED
  BY <1>1, InductiveInvariant, PTL

\* An answer with room left misses contacts of bucket 0 only, and no answer
\* names a contact twice.
THEOREM UnfilledMissesBucketZero == Spec => []UnfilledMissesOnlyBucketZero
<1>1. IInv => UnfilledMissesOnlyBucketZero
  <2> DEFINE found(id)    == findNodeWithoutSelf(id)
             answered(id) == ToSet(found(id).result)
  <2> SUFFICES ASSUME IInv, NEW id \in NodeId, ~ found(id).exact
               PROVE  /\ Cardinality(answered(id)) = Len(found(id).result)
                      /\ Len(found(id).result) <= bucketSize
                      /\ Len(found(id).result) < bucketSize =>
                           Known \ answered(id) \subseteq ToSet(table[1])
    BY DEF UnfilledMissesOnlyBucketZero
  <2>1. ~ containsNodeId(bucketOf(id), id)
    BY KnownIsFoundAtOnce
  <2> DEFINE result == found(id).result
             start  == bucketIndex(id)
  <2>2. /\ result \in Seq(nodeInfo) /\ Len(result) <= bucketSize
        /\ \E looked \in SUBSET Near(start, Len(table)) :
             /\ Near(start, Len(table)) \ Skipped(start) \subseteq looked
             /\ Gathered(result, looked)
    BY <2>1, UnknownIsSearched DEF Searched, Answer
  <2>3. PICK looked \in SUBSET Near(start, Len(table)) :
          /\ Near(start, Len(table)) \ Skipped(start) \subseteq looked
          /\ Gathered(result, looked)
    BY <2>2
  <2>4. start \in BucketNumber /\ Len(table) \in Nat /\ DOMAIN table = 1 .. Len(table)
    BY BucketIndexInTable DEF IInv, BucketNumber
  <2> HIDE DEF start, result
  <2>5. DOMAIN result = 1 .. Len(result) /\ Len(result) \in Nat
    BY <2>2, LenProperties
  <2>6. Cardinality(ToSet(result)) = Len(result)
    <3>1. \A j, k \in 1 .. Len(result) : result[j] = result[k] => j = k
      BY <2>3, <2>5 DEF Gathered, Distinct
    <3>2. /\ \A j \in 1 .. Len(result) : result[j] \in ToSet(result)
          /\ \A x \in ToSet(result) : \E j \in 1 .. Len(result) : x = result[j]
      BY <2>5 DEF ToSet
    <3> QED
      BY <2>5, <3>1, <3>2, ElementsCounted
  <2>7. ASSUME Len(result) < bucketSize, NEW c \in Known, c \notin ToSet(result)
        PROVE  c \in ToSet(table[1])
    <3>1. PICK x \in DOMAIN table : \E k \in DOMAIN table[x] : c = table[x][k]
      BY DEF Known
    <3>2. PICK k \in DOMAIN table[x] : c = table[x][k]
      BY <3>1
    <3>3. x - 1 \in BucketNumber /\ (x - 1) + 1 = x
      BY <2>4 DEF BucketNumber
    <3>4. x - 1 \notin looked
      BY <2>3, <2>7, <3>2, <3>3 DEF Gathered, ToSet
    <3>5. x - 1 \in Near(start, Len(table))
      BY <2>4, <3>3 DEF Near, BucketNumber
    <3>6. x = 1
      BY <2>3, <2>4, <3>3, <3>4, <3>5 DEF Skipped
    <3> QED
      BY <3>2, <3>6 DEF ToSet
  <2> QED
    BY <2>2, <2>6, <2>7 DEF result
<1> QED
  BY <1>1, InductiveInvariant, PTL

\* How many buckets apart two identifiers are.
Apart(a, b) == Away(bucketIndex(a), bucketIndex(b))

\* What findNodeWithoutSelf, which looks at one bucket on each side after the
\* other (routing_table.go:89), makes of a table without the identifier: no
\* contact that was left out is in a bucket nearer to the identifier's than the
\* bucket of one that is named.  The bucket that the loop's condition leaves out
\* is no exception, since it is the furthest.
NearestBucketsFirst ==
  ~ Locked => \A id \in NodeId :
    LET found    == findNodeWithoutSelf(id)
        answered == ToSet(found.result)
    IN  ~ found.exact =>
          \A c \in answered, other \in Known \ answered :
            Apart(c.nodeId, id) <= Apart(other.nodeId, id)

\* findNode fills its answer from the nearest buckets outwards.
THEOREM AnswersFromNearestBuckets == Spec => []NearestBucketsFirst
<1>1. IInv => NearestBucketsFirst
  <2> SUFFICES ASSUME IInv, NEW id \in NodeId, ~ findNodeWithoutSelf(id).exact,
                      NEW c \in ToSet(findNodeWithoutSelf(id).result),
                      NEW other \in Known \ ToSet(findNodeWithoutSelf(id).result)
               PROVE  Apart(c.nodeId, id) <= Apart(other.nodeId, id)
    BY DEF NearestBucketsFirst
  <2> DEFINE result == findNodeWithoutSelf(id).result
             start  == bucketIndex(id)
             N      == Len(table)
  <2>1. /\ Searched(findNodeWithoutSelf(id), start, N)
        /\ InOrder(result, start, N)
    BY KnownIsFoundAtOnce, UnknownIsSearched
  <2>2. /\ start \in BucketNumber /\ N \in Nat /\ DOMAIN table = 1 .. N
        /\ BucketNumber = 0 .. N - 1
    BY BucketIndexInTable, LenProperties DEF IInv, BucketNumber, TypeOK
  <2>3. Near(start, N) = BucketNumber
    <3>1. \A i \in 0 .. N - 1 : start - N < i /\ i < start + N
      BY <2>2
    <3> QED
      BY <2>2, <3>1 DEF Near
  <2>4. \E x \in BucketNumber : \E k \in DOMAIN table[x + 1] :
          c = table[x + 1][k] /\ bucketIndex(c.nodeId) = x
    <3>1. PICK looked \in SUBSET Near(start, N) : Gathered(result, looked)
      BY <2>1 DEF Searched
    <3>2. PICK j \in DOMAIN result : c = result[j]
      BY DEF ToSet
    <3>3. PICK x \in looked : \E k \in DOMAIN table[x + 1] : c = table[x + 1][k]
      BY <3>1, <3>2 DEF Gathered
    <3>4. x \in BucketNumber
      BY <2>3
    <3> QED
      BY <3>3, <3>4, BucketFacts
  <2>5. \E y \in BucketNumber : \E l \in DOMAIN table[y + 1] :
          other = table[y + 1][l] /\ bucketIndex(other.nodeId) = y
    <3>1. PICK i \in DOMAIN table : \E l \in DOMAIN table[i] : other = table[i][l]
      BY DEF Known
    <3>2. i - 1 \in BucketNumber /\ (i - 1) + 1 = i
      BY <2>2
    <3> QED
      BY <3>1, <3>2, BucketFacts
  <2>6. PICK x \in BucketNumber : \E k \in DOMAIN table[x + 1] :
          c = table[x + 1][k] /\ bucketIndex(c.nodeId) = x
    BY <2>4
  <2>7. PICK y \in BucketNumber : \E l \in DOMAIN table[y + 1] :
          other = table[y + 1][l] /\ bucketIndex(other.nodeId) = y
    BY <2>5
  <2> HIDE DEF start, N
  <2>8. Away(x, start) <= Away(y, start)
    BY <2>1, <2>3, <2>6, <2>7 DEF InOrder
  <2> QED
    BY <2>6, <2>7, <2>8 DEF Apart, start
<1> QED
  BY <1>1, InductiveInvariant, PTL

-----------------------------------------------------------------------------
\* splitAt, as the code writes it.

\* One more position, beyond the others, is one more element at the end.
LEMMA SubsequenceGrows ==
  ASSUME NEW T, NEW s \in Seq(T), NEW n \in 1 .. Len(s), NEW P \in SUBSET (1 .. n - 1)
  PROVE  Subsequence(s, P \cup {n}) = Append(Subsequence(s, P), s[n])
<1> DEFINE Q    == P \cup {n}
           m    == Cardinality(P)
           sub  == Subsequence(s, P)
           more == Subsequence(s, Q)
<1>1. Len(s) \in Nat /\ DOMAIN s = 1 .. Len(s) /\ s[n] \in T
  BY LenProperties, ElementOfSeq
<1>2. P \in SUBSET DOMAIN s /\ Q \in SUBSET DOMAIN s /\ P \subseteq Int /\ n \in Int
  BY <1>1
<1>3. IsFiniteSet(P) /\ m \in Nat
  <2>1. n - 1 \in Nat
    BY <1>1
  <2> QED
    BY <2>1, RankIsInjective
<1>4. n \notin P
  OBVIOUS
<1>5. Cardinality(Q) = m + 1
  BY <1>3, <1>4, FS_AddElement
<1>6. ASSUME NEW i \in P
      PROVE  Rank(Q, i) = Rank(P, i)
  <2>1. {k \in Q : k <= i} = {k \in P : k <= i}
    BY <1>2
  <2> QED
    BY <2>1 DEF Rank
<1>7. Rank(Q, n) = m + 1
  <2>1. {k \in Q : k <= n} = Q
    BY <1>2
  <2> QED
    BY <1>5, <2>1 DEF Rank
<1>8. /\ sub \in Seq(T) /\ Len(sub) = m
      /\ \A i \in P : Rank(P, i) \in 1 .. m /\ sub[Rank(P, i)] = s[i]
  BY <1>2, SubsequenceFacts
<1> HIDE DEF Q
<1>9. /\ more \in Seq(T) /\ Len(more) = m + 1
      /\ \A j \in 1 .. m + 1 : \E i \in Q : Rank(Q, i) = j /\ more[j] = s[i]
      /\ \A i \in Q : more[Rank(Q, i)] = s[i]
  <2>1. /\ more \in Seq(T)
        /\ Len(more) = Cardinality(Q)
        /\ \A j \in 1 .. Cardinality(Q) : \E i \in Q : Rank(Q, i) = j /\ more[j] = s[i]
        /\ \A i \in Q : /\ Rank(Q, i) \in 1 .. Cardinality(Q)
                        /\ more[Rank(Q, i)] = s[i]
    BY <1>2, SubsequenceFacts
  <2> HIDE DEF m, more
  <2> QED
    BY <1>5, <2>1
<1> HIDE DEF sub, more, m
<1>10. /\ Append(sub, s[n]) \in Seq(T)
       /\ Len(Append(sub, s[n])) = m + 1
       /\ \A j \in 1 .. m : Append(sub, s[n])[j] = sub[j]
       /\ Append(sub, s[n])[m + 1] = s[n]
  BY <1>1, <1>8, AppendProperties
<1>11. ASSUME NEW j \in 1 .. m + 1
       PROVE  more[j] = Append(sub, s[n])[j]
  <2>1. CASE j = m + 1
    <3>1. n \in Q
      BY DEF Q
    <3> QED
      BY <1>7, <1>9, <1>10, <2>1, <3>1
  <2>2. CASE j # m + 1
    <3>1. PICK i \in Q : Rank(Q, i) = j /\ more[j] = s[i]
      BY <1>9
    <3>2. i \in P
      BY <1>7, <2>2, <3>1 DEF Q
    <3>3. Rank(P, i) = j
      BY <1>6, <3>1, <3>2
    <3>4. j \in 1 .. m /\ sub[j] = s[i]
      BY <1>8, <3>2, <3>3
    <3> QED
      BY <1>10, <3>1, <3>4
  <2> QED
    BY <2>1, <2>2
<1>12. more = Append(sub, s[n])
  BY <1>3, <1>9, <1>10, <1>11, SeqEqual
<1> QED
  BY <1>12 DEF more, sub, Q

\* No position at all is the empty bucket.
LEMMA SubsequenceOfNothing ==
  ASSUME NEW s \in Seq(nodeInfo)
  PROVE  Subsequence(s, {}) = newBucket
<1>1. Subsequence(s, {}) \in Seq(nodeInfo) /\ Len(Subsequence(s, {})) = Cardinality({})
  BY SubsequenceFacts
<1>2. Cardinality({}) = 0
  BY FS_EmptySet
<1> QED
  BY <1>1, <1>2, EmptySeq DEF newBucket

\* A half takes the next entry of the bucket: it is new to the half, and a half
\* has room for all of a bucket.
LEMMA RefillTakesEntry ==
  ASSUME NEW b \in Seq(nodeInfo), Distinct(b), Len(b) <= bucketSize,
         NEW n \in 1 .. Len(b), NEW P \in SUBSET (1 .. n - 1)
  PROVE  Refill(Subsequence(b, P), b[n]) = Subsequence(b, P \cup {n})
<1> DEFINE half == Subsequence(b, P)
<1>1. Len(b) \in Nat /\ DOMAIN b = 1 .. Len(b)
  BY LenProperties
<1>2. P \in SUBSET DOMAIN b /\ n \in DOMAIN b /\ n \notin P
  BY <1>1
<1>3. /\ Len(half) = Cardinality(P)
      /\ DOMAIN half = 1 .. Len(half)
      /\ \A j \in DOMAIN half : \E i \in P : half[j] = b[i]
  BY <1>2, HalfFacts, SubsequenceFacts
<1>4. Cardinality(P) \in 0 .. n - 1
  <2>1. n - 1 \in Nat
    BY <1>1
  <2> QED
    BY <2>1, RankIsInjective
<1>5. ~ containsNodeId(half, b[n].nodeId)
  <2> SUFFICES ASSUME NEW j \in DOMAIN half, half[j].nodeId = b[n].nodeId
               PROVE  FALSE
    BY DEF containsNodeId, isEqual
  <2>1. PICK i \in P : half[j] = b[i]
    BY <1>3
  <2>2. i = n
    BY <1>2, <2>1 DEF Distinct
  <2> QED
    BY <1>2, <2>2
<1>6. Len(half) < bucketSize
  BY <1>1, <1>3, <1>4, GoTableAssumption
<1>7. Refill(half, b[n]) = Append(half, b[n])
  BY <1>5, <1>6 DEF Refill, addSucceeds, bucketAddEntry
<1> QED
  BY <1>7, SubsequenceGrows

\* Refilling two new buckets through bucket.addEntry drops no entry, although
\* splitAt ignores its `success`: it is splitAt as the model writes it.
THEOREM SplitRefusesNothing == Spec => []SplitAsWritten
<1> DEFINE Ones(b, bit, n)  == {i \in 1 .. n : isBitSet(b[i].nodeId, bit)}
           Zeros(b, bit, n) == {i \in 1 .. n : ~ isBitSet(b[i].nodeId, bit)}
           Halves(b, bit, n) == [zeroBucket |-> Subsequence(b, Zeros(b, bit, n)),
                                 oneBucket  |-> Subsequence(b, Ones(b, bit, n))]
           First   == [zeroBucket |-> newBucket, oneBucket |-> newBucket]
           Put(h, e, bit) == IF isBitSet(e.nodeId, bit)
                             THEN [h EXCEPT !.oneBucket = Refill(@, e)]
                             ELSE [h EXCEPT !.zeroBucket = Refill(@, e)]
           Body(h, b, bit) == [n \in 0 .. Len(b) |->
                                 IF n = 0 THEN First ELSE Put(h[n - 1], b[n], bit)]
<1>1. ASSUME NEW b \in Seq(nodeInfo), Distinct(b), Len(b) <= bucketSize, NEW bit
      PROVE  splitAt(b, bit) = (CHOOSE h : h = Body(h, b, bit))[Len(b)]
  <2>1. Len(b) \in Nat /\ DOMAIN b = 1 .. Len(b)
    BY LenProperties
  <2>2. Halves(b, bit, 0) = First
    <3>1. Zeros(b, bit, 0) = {} /\ Ones(b, bit, 0) = {}
      OBVIOUS
    <3> HIDE DEF Zeros, Ones
    <3> QED
      BY <3>1, SubsequenceOfNothing
  <2>3. ASSUME NEW n \in 1 .. Len(b)
        PROVE  Halves(b, bit, n) = Put(Halves(b, bit, n - 1), b[n], bit)
    <3>1. /\ Zeros(b, bit, n - 1) \in SUBSET (1 .. n - 1)
          /\ Ones(b, bit, n - 1) \in SUBSET (1 .. n - 1)
      OBVIOUS
    <3>2. \A i \in 1 .. n : i = n \/ i \in 1 .. n - 1
      BY <2>1
    <3>3. 1 .. n - 1 \subseteq 1 .. n /\ n \in 1 .. n
      BY <2>1
    <3>4. CASE isBitSet(b[n].nodeId, bit)
      <4>1. /\ Ones(b, bit, n) = Ones(b, bit, n - 1) \cup {n}
            /\ Zeros(b, bit, n) = Zeros(b, bit, n - 1)
        BY <3>2, <3>3, <3>4
      <4> HIDE DEF Ones, Zeros
      <4>2. Subsequence(b, Ones(b, bit, n)) =
              Refill(Subsequence(b, Ones(b, bit, n - 1)), b[n])
        BY <1>1, <3>1, <4>1, RefillTakesEntry
      <4> QED
        BY <3>4, <4>1, <4>2
    <3>5. CASE ~ isBitSet(b[n].nodeId, bit)
      <4>1. /\ Zeros(b, bit, n) = Zeros(b, bit, n - 1) \cup {n}
            /\ Ones(b, bit, n) = Ones(b, bit, n - 1)
        BY <3>2, <3>3, <3>5
      <4> HIDE DEF Ones, Zeros
      <4>2. Subsequence(b, Zeros(b, bit, n)) =
              Refill(Subsequence(b, Zeros(b, bit, n - 1)), b[n])
        BY <1>1, <3>1, <4>1, RefillTakesEntry
      <4> QED
        BY <3>5, <4>1, <4>2
    <3> QED
      BY <3>4, <3>5
  <2> DEFINE f == [n \in 0 .. Len(b) |-> Halves(b, bit, n)]
             h == CHOOSE g : g = Body(g, b, bit)
  <2>4. splitAt(b, bit) = Halves(b, bit, Len(b))
    <3>1. /\ Ones(b, bit, Len(b)) = {i \in DOMAIN b : isBitSet(b[i].nodeId, bit)}
          /\ Zeros(b, bit, Len(b)) =
               DOMAIN b \ {i \in DOMAIN b : isBitSet(b[i].nodeId, bit)}
      BY <2>1
    <3> QED
      BY <3>1 DEF splitAt
  <2> HIDE DEF Halves, First, Put
  <2>5. f = Body(f, b, bit)
    <3>1. ASSUME NEW n \in 0 .. Len(b), n # 0
          PROVE  Halves(b, bit, n) = Put(f[n - 1], b[n], bit)
      <4>1. n \in 1 .. Len(b) /\ n - 1 \in 0 .. Len(b)
        BY <2>1, <3>1
      <4> QED
        BY <2>3, <4>1
    <3> QED
      BY <2>2, <3>1
  <2>6. h = Body(h, b, bit)
    <3> HIDE DEF f, Body
    <3> QED
      BY <2>5
  <2> HIDE DEF h, f
  <2>7. /\ h[0] = First
        /\ \A n \in 1 .. Len(b) : h[n] = Put(h[n - 1], b[n], bit)
    BY <2>1, <2>6
  <2> DEFINE Same == {n \in 0 .. Len(b) : h[n] = Halves(b, bit, n)}
  <2>8. 0 \in Same
    BY <2>1, <2>2, <2>7
  <2>9. \A n \in 1 .. Len(b) : n - 1 \in Same => n \in Same
    BY <2>1, <2>3, <2>7
  <2>10. Len(b) \in Same
    <3> HIDE DEF Same
    <3>1. \A n \in 0 .. Len(b) : n \in Same
      BY <2>1, <2>8, <2>9, CountingUp
    <3> QED
      BY <2>1, <3>1
  <2> QED
    BY <2>4, <2>10 DEF h
<1>2. IInv => SplitAsWritten
  <2> SUFFICES ASSUME IInv, NEW i \in DOMAIN table, NEW bit \in BitIndex
               PROVE  splitAt(table[i], bit) =
                        (CHOOSE h : h = Body(h, table[i], bit))[Len(table[i])]
    BY DEF SplitAsWritten
  <2>1. i - 1 \in BucketNumber /\ (i - 1) + 1 = i
    BY LenProperties DEF IInv, TypeOK, BucketNumber
  <2>2. table[i] \in Seq(nodeInfo) /\ Distinct(table[i]) /\ Len(table[i]) <= bucketSize
    BY <2>1, BucketFacts DEF IInv, NoBucketOverfull
  <2> HIDE DEF Body
  <2> QED
    BY <1>1, <2>2
<1> QED
  BY <1>2, InductiveInvariant, PTL

-----------------------------------------------------------------------------
\* The recursion of addEntryRec is bounded: every step that changes anything
\* while an entry is added either ends it or adds one bucket, of which there
\* are never more than there are bits and one.  With the fairness of
\* addEntryRec this is why every addEntry returns and unlocks the table.
AddingUsesUpBuckets ==
  [][adding # NoEntry => \/ adding' = NoEntry
                         \/ /\ Len(table') = Len(table) + 1
                            /\ Len(table') <= IdBits + 1]_vars

\* Each addEntry calls itself at most IdBits times.
THEOREM RecursionIsBounded == Spec => AddingUsesUpBuckets
<1>1. ASSUME IInv, Next, adding # NoEntry, adding' # NoEntry
      PROVE  Len(table') = Len(table) + 1 /\ Len(table') <= IdBits + 1
  <2> USE <1>1
  <2>1. SplitBucket
    BY DEF Next, addEntry, addEntryRec, StoreEntry, DropEntry
  <2>2. Len(table) \in Nat \ {0} /\ Len(table') = Len(table) + 1
    BY <1>1, <2>1, SplitBucketFacts, Zenon
  <2>3. Len(table) - 1 \in BitIndex
    BY <2>1, SplitBitExists DEF SplitBucket
  <2> QED
    BY <2>2, <2>3, IdBitsAssumption DEF BitIndex
<1>2. IInv /\ [Next]_vars =>
        [adding # NoEntry => \/ adding' = NoEntry
                             \/ /\ Len(table') = Len(table) + 1
                                /\ Len(table') <= IdBits + 1]_vars
  BY <1>1
<1> QED
  BY <1>2, InductiveInvariant, PTL DEF Spec, AddingUsesUpBuckets

=============================================================================
