----------------------------- MODULE GoFindNode -----------------------------
(***************************************************************************)
(* The read side of the Go routing table: findNode.  A reader takes the    *)
(* read lock, so that it sees the table of a state in which no addEntry is *)
(* under way; an operator of that state models what it returns.            *)
(***************************************************************************)
EXTENDS GoRoutingTable, SequencesExt

Locked == adding # NoEntry

\* bucket.getEntryByIdOrReturnAll
getEntryByIdOrReturnAll(bucket, id) ==
  IF containsNodeId(bucket, id)
  THEN [entries |-> <<bucket[CHOOSE i \in DOMAIN bucket :
                        /\ isEqual(bucket[i].nodeId, id)
                        /\ \A j \in 1 .. i - 1 : bucket[j].nodeId # id]>>,
        exact   |-> TRUE]
  ELSE [entries |-> bucket, exact |-> FALSE]

\* Mutant: an exact match does not end the search.
LookAtAll(found, i, id) ==
  LET b == table[i + 1]
      n == bucketSize - Len(found.result)
  IN  [found EXCEPT !.result =
         @ \o SubSeq(b, 1, IF n < Len(b) THEN n ELSE Len(b))]

\* The two halves of the loop's body look at one bucket each: an exact match
\* is the result at once, other entries are appended while there is space.
LookAt(found, i, id) ==
  LET here == getEntryByIdOrReturnAll(table[i + 1], id)
      n    == bucketSize - Len(found.result)
  IN  IF here.exact
      THEN [result |-> here.entries, exact |-> TRUE]
      ELSE [found EXCEPT !.result =
              @ \o SubSeq(here.entries, 1,
                          IF n < Len(here.entries) THEN n ELSE Len(here.entries))]

\* The condition of the loop over `offset`.
LoopContinues(start, offset) ==
  \/ start - offset > 0
  \/ start + offset <= currentMaxPrefixLength

\* Mutant: the test for offset 0 is missing, the first bucket is read twice.
LowerThenHigherTwice(found, id, start, offset) ==
  LET lower == IF start - offset >= 0 THEN LookAt(found, start - offset, id) ELSE found
  IN  IF ~ lower.exact /\ start + offset <= currentMaxPrefixLength
      THEN LookAt(lower, start + offset, id) ELSE lower

\* The loop's body: the bucket `offset` places lower, then the one as far up.
LowerThenHigher(found, id, start, offset) ==
  LET lower == IF start - offset >= 0 THEN LookAt(found, start - offset, id) ELSE found
  IN  IF ~ lower.exact /\ offset > 0 /\ start + offset <= currentMaxPrefixLength
      THEN LookAt(lower, start + offset, id) ELSE lower

\* A match, a full result or the condition of the loop ends it.
Iteration(found, id, start, offset) ==
  IF \/ found.exact
     \/ Len(found.result) >= bucketSize
     \/ ~ LoopContinues(start, offset)
  THEN found
  ELSE LowerThenHigher(found, id, start, offset)

Unsearched == [result |-> <<>>, exact |-> FALSE]

\* after[n] is what is found after n iterations; there are no more than buckets.
findNodeWithoutSelf(id) ==
  LET after[n \in 0 .. Len(table)] ==
        IF n = 0 THEN Unsearched
        ELSE Iteration(after[n - 1], id, bucketIndex(id), n - 1)
  IN  after[Len(table)]

\* findNode answers for the node itself, whatever the table holds.  The
\* contact it then returns, thisNodeInfo, is written as its identifier.
findNode(id) ==
  IF isEqual(thisNodeId, id)
  THEN [result |-> <<thisNodeId>>, exact |-> TRUE]
  ELSE findNodeWithoutSelf(id)

-----------------------------------------------------------------------------
\* Properties.

\* What splitAt makes of a half, bucket.addEntry's `success` ignored.
Refill(half, entry) ==
  IF addSucceeds(half, entry) THEN bucketAddEntry(half, entry) ELSE half

\* splitAt refills its halves through bucket.addEntry and ignores `success`
\* (routing_bucket.go:63): written that way, it drops nothing either.
SplitAsWritten ==
  \A i \in DOMAIN table : \A bit \in BitIndex :
    LET halves[n \in 0 .. Len(table[i])] ==
          IF n = 0 THEN [zeroBucket |-> newBucket, oneBucket |-> newBucket]
          ELSE IF isBitSet(table[i][n].nodeId, bit)
          THEN [halves[n - 1] EXCEPT !.oneBucket = Refill(@, table[i][n])]
          ELSE [halves[n - 1] EXCEPT !.zeroBucket = Refill(@, table[i][n])]
    IN  splitAt(table[i], bit) = halves[Len(table[i])]

\* findNode finds every node the table knows, and says "exact" of no other.
KnownNodesAreFound ==
  ~ Locked => \A id \in NodeId \ {thisNodeId} :
    LET found == findNode(id)
        known == {c \in Known : c.nodeId = id}
    IN  IF known = {} THEN ~ found.exact
        ELSE found.exact /\ Len(found.result) = 1 /\ found.result[1] \in known

\* An inexact answer names each contact once, and when it has room left then
\* the only bucket the search did not reach is bucket 0: the loop's first
\* condition (routing_table.go:89) ends it one bucket early on that side.
UnfilledMissesOnlyBucketZero ==
  ~ Locked => \A id \in NodeId :
    LET found    == findNodeWithoutSelf(id)
        answered == ToSet(found.result)
    IN  ~ found.exact =>
          /\ Cardinality(answered) = Len(found.result)
          /\ Len(found.result) <= bucketSize
          /\ Len(found.result) < bucketSize =>
               Known \ answered \subseteq ToSet(table[1])

\* What the test expects (routing_table_test.go:130: two contacts known, a
\* bucketSize of 2, and `len(result) != 2` is an error): an inexact answer is
\* a bucketful, or everything the table knows when that is less.
AnswerIsFilled ==
  ~ Locked => \A id \in NodeId :
    LET found == findNodeWithoutSelf(id)
        n     == Cardinality(Known)
    IN  ~ found.exact =>
          Len(found.result) = IF n < bucketSize THEN n ELSE bucketSize

=============================================================================
