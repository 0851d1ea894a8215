------------------------------ MODULE RustFind ------------------------------
(***************************************************************************)
(* RoutingTable::find of the Rust program.  It borrows the table while no  *)
(* update is under way; the list of contacts it returns is modelled as the *)
(* sequence of the items of its FixedVec.                                  *)
(***************************************************************************)
EXTENDS RustRoutingTable, SequencesExt

NodesOf(bucket) ==
  [j \in 1 .. bucket.entries.length |-> as_slice(bucket.entries)[j].node]

NotFull(result) == Len(result) < BUCKET_SIZE

\* Pushes the nodes of a bucket until the result is full.
TakeFrom(result, bucket) ==
  LET nodes == NodesOf(bucket)
      room  == BUCKET_SIZE - Len(result)
  IN  result \o SubSeq(nodes, 1, IF room < Len(nodes) THEN room ELSE Len(nodes))

\* Mutant: the lower bucket is not looked at any more once it is the first.
LowerThenHigherShort(result, start, offset) ==
  LET lower  == IF start > offset + 1
                THEN TakeFrom(result, buckets[start - offset]) ELSE result
  IN  IF start + offset <= Len(buckets) /\ NotFull(lower)
      THEN TakeFrom(lower, buckets[start + offset]) ELSE lower

\* One iteration: the bucket `offset` places lower, then the one as far up.
LowerThenHigher(result, start, offset) ==
  LET lower  == IF start > offset
                THEN TakeFrom(result, buckets[start - offset]) ELSE result
  IN  IF start + offset <= Len(buckets) /\ NotFull(lower)
      THEN TakeFrom(lower, buckets[start + offset]) ELSE lower

\* The condition of the loop, and its body.
Iteration(result, start, offset) ==
  IF NotFull(result) /\ (start > offset \/ start + offset <= Len(buckets))
  THEN LowerThenHigher(result, start, offset) ELSE result

\* NodeMatch::Exact or NodeMatch::Closest, of an identifier with a bucket.
\* after[n] is the result after n iterations.
find(id) ==
  LET start == bucketIndex(id)
      known == PositionsOf(buckets[start].entries, id)
      after[n \in 0 .. Len(buckets)] ==
        IF n = 0 THEN NodesOf(buckets[start]) ELSE Iteration(after[n - 1], start, n)
  IN  IF known # {}
      THEN [exact |-> TRUE,
            nodes |-> <<buckets[start].entries.data[First(known)].node>>]
      ELSE [exact |-> FALSE, nodes |-> after[Len(buckets)]]

-----------------------------------------------------------------------------
\* Properties.

Others == NodeId \ {reference_id}

Nodes == {e.node : e \in Entries}

\* A node is found exactly if the table has an entry for it.
EntriesAreFound ==
  Idle => \A id \in Others :
    LET found == find(id)
        known == {n \in Nodes : n.id = id}
    IN  IF known = {} THEN ~ found.exact
        ELSE found.exact /\ Len(found.nodes) = 1 /\ found.nodes[1] \in known

\* A list of closest nodes names entries only, each once, and as many as it
\* has places for or the table has entries: no bucket is left out.
ClosestIsFilled ==
  Idle => \A id \in Others :
    LET found == find(id)
        n     == Cardinality(Nodes)
    IN  ~ found.exact =>
          /\ ToSet(found.nodes) \subseteq Nodes
          /\ Cardinality(ToSet(found.nodes)) = Len(found.nodes)
          /\ Len(found.nodes) = IF n < BUCKET_SIZE THEN n ELSE BUCKET_SIZE

\* NodeMatch::Closest (main.rs:254; the test of main.rs:678 calls its nodes
\* the closest): no entry left out is closer than one of the nodes returned.
ClosestAreClosest ==
  Idle => \A id \in Others :
    LET found == find(id)
    IN  ~ found.exact =>
          \A n \in ToSet(found.nodes), other \in Nodes \ ToSet(found.nodes) :
            ~ Closer(other.id, n.id, id)

=============================================================================
