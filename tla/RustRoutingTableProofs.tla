----------------------- MODULE RustRoutingTableProofs -----------------------
(***************************************************************************)
(* Safety of the Rust routing table and of what find answers, for every    *)
(* identifier width, bucket size, window of good nodes and set of          *)
(* contacts.                                                               *)
(*                                                                         *)
(* None of the properties of the table is inductive alone.  That append    *)
(* does not write over entries rests on which entries a split in progress  *)
(* has moved where, that only the node's own identifier has no bucket on   *)
(* the bounds being those of a table that is split at its last bucket      *)
(* only, and both on the bucket that is being split staying that last one. *)
(*                                                                         *)
(* What find gathers is followed from one iteration of its loop to the     *)
(* next by what has been taken so far: the nodes of the buckets looked at, *)
(* the nearest ones first, as many as fit.                                 *)
(***************************************************************************)
EXTENDS RustFind, NodeIdsProofs, SequenceTheorems

\* The entries of a vector by their slots; a well-formed vector has one in
\* exactly the slots below its length.
Occupied(v) == {j \in Slot : j < v.length}

WellFormed(v) ==
  /\ v \in Vectors
  /\ v.length <= BUCKET_SIZE
  /\ \A j \in Slot : v.data[j] # Uninit <=> j < v.length

IdAt(v, j) == v.data[j].node.id

Distinct(v) == \A j, k \in Occupied(v) : IdAt(v, j) = IdAt(v, k) => j = k

Bucket == [entries : Vectors, bounds : [start : Nat, end : Nat]]

SplitInProgress == [new_entry : RoutingEntry, i : Nat, drained_upper_nodes : Vectors]

TypeOK ==
  /\ buckets \in Seq(Bucket)
  /\ splitting \in SplitInProgress \cup {NoSplit}
  /\ panicked \in NodeId \cup {NoPanic}

\* The last bucket covers all prefix lengths that none before it does.
Bounds ==
  /\ Len(buckets) \in 1 .. IdBits
  /\ \A n \in DOMAIN buckets :
       buckets[n].bounds = [start |-> n - 1,
                            end   |-> IF n = Len(buckets) THEN IdBits ELSE n]

\* Which of m buckets an identifier belongs to, without looking at the bounds.
Place(id, m) == IF prefixLength(id) < m THEN prefixLength(id) + 1 ELSE m

\* v is the vector of the n-th of m buckets.
HoldsItsOwn(v, n, m) ==
  /\ WellFormed(v) /\ Distinct(v)
  /\ \A j \in Occupied(v) : IdAt(v, j) # reference_id /\ Place(IdAt(v, j), m) = n

BucketsHoldTheirOwn ==
  \A n \in DOMAIN buckets : HoldsItsOwn(buckets[n].entries, n, Len(buckets))

\* Of n buckets the last one, with the vector v, is being split: its entries
\* below i belong to the lower half and all those drained to the upper one,
\* and none was bad when the split started.
StaysInLower(split, v, n) ==
  \A j \in Occupied(v) :
    /\ j < split.i => prefixLength(IdAt(v, j)) < n
    /\ IdAt(v, j) # split.new_entry.node.id
    /\ rating(v.data[j]) # "Bad"
    /\ \A k \in Occupied(split.drained_upper_nodes) :
         IdAt(v, j) # IdAt(split.drained_upper_nodes, k)

GoesUp(split, drained, n) ==
  /\ WellFormed(drained) /\ Distinct(drained)
  /\ \A k \in Occupied(drained) :
       /\ prefixLength(IdAt(drained, k)) >= n
       /\ IdAt(drained, k) # reference_id
       /\ IdAt(drained, k) # split.new_entry.node.id
       /\ rating(drained.data[k]) # "Bad"

IsSplitOf(split, v, n) ==
  /\ n < IdBits
  /\ \E node \in Contacts, seen_in \in SeenIn :
       split.new_entry = updated(newEntry(node), seen_in)
  /\ split.new_entry.node.id # reference_id
  /\ Place(split.new_entry.node.id, n) = n
  /\ v.length + split.drained_upper_nodes.length = BUCKET_SIZE
  /\ split.i <= v.length
  /\ StaysInLower(split, v, n)
  /\ GoesUp(split, split.drained_upper_nodes, n)

SplitOfLast ==
  splitting # NoSplit =>
    /\ panicked = NoPanic
    /\ IsSplitOf(splitting, buckets[Len(buckets)].entries, Len(buckets))

\* The inductive invariant.
IInv ==
  /\ TypeOK
  /\ Bounds
  /\ BucketsHoldTheirOwn
  /\ SplitOfLast
  /\ panicked # NoPanic => panicked = reference_id

-----------------------------------------------------------------------------
\* Prefix lengths and the bucket of an identifier.

\* Only the node's own identifier shares all its bits with it.
LEMMA PrefixFacts ==
  ASSUME NEW id \in NodeId
  PROVE  /\ prefixLength(id) \in 0 .. IdBits
         /\ prefixLength(id) = IdBits <=> id = reference_id
BY PrefixLengthsAgree, PrefixLengthFacts, FullPrefixIsSame, RustTableAssumption
   DEF prefixLength

\* The number of buckets is a number, and each has a vector.
LEMMA BucketFacts ==
  ASSUME TypeOK
  PROVE  /\ Len(buckets) \in Nat /\ DOMAIN buckets = 1 .. Len(buckets)
         /\ \A n \in DOMAIN buckets : buckets[n] \in Bucket
  BY LenProperties, ElementOfSeq DEF TypeOK

\* An identifier other than the node's own belongs to one bucket, the one that
\* bucketIndex finds; the node's own has none.
LEMMA PlaceFacts ==
  ASSUME TypeOK, Bounds, NEW id \in NodeId
  PROVE  /\ id = reference_id => ~ HasBucket(id)
         /\ id # reference_id =>
              /\ Place(id, Len(buckets)) \in DOMAIN buckets
              /\ \A n \in DOMAIN buckets :
                   contains(buckets[n].bounds, prefixLength(id)) <=> n = Place(id, Len(buckets))
              /\ HasBucket(id)
              /\ bucketIndex(id) = Place(id, Len(buckets))
<1> USE IdBitsAssumption
<1> DEFINE p == prefixLength(id)
           m == Len(buckets)
<1>1. /\ p \in 0 .. IdBits
      /\ p = IdBits <=> id = reference_id
      /\ m \in 1 .. IdBits /\ DOMAIN buckets = 1 .. m
  BY PrefixFacts, BucketFacts DEF Bounds
<1>2. \A n \in 1 .. m :
        /\ buckets[n].bounds.start = n - 1
        /\ buckets[n].bounds.end = IF n = m THEN IdBits ELSE n
  <2> TAKE n \in 1 .. m
  <2>1. buckets[n].bounds = [start |-> n - 1, end |-> IF n = m THEN IdBits ELSE n]
    BY <1>1 DEF Bounds
  <2> QED
    BY <2>1
<1> HIDE DEF p, m
<1>3. \A n \in 1 .. m : contains(buckets[n].bounds, p) <=>
        n - 1 <= p /\ p < IF n = m THEN IdBits ELSE n
  BY <1>2 DEF contains
<1>4. CASE id = reference_id
  <2>1. \A n \in 1 .. m : ~ contains(buckets[n].bounds, p)
    BY <1>1, <1>3, <1>4
  <2> QED
    BY <1>1, <1>4, <2>1 DEF HasBucket, p
<1>5. CASE id # reference_id
  <2>1. Place(id, m) = IF p < m THEN p + 1 ELSE m
    BY DEF Place, p
  <2>2. Place(id, Len(buckets)) \in 1 .. m
    BY <1>1, <2>1
  <2>3. \A n \in 1 .. m : contains(buckets[n].bounds, p) <=> n = Place(id, Len(buckets))
    BY <1>1, <1>3, <1>5, <2>1
  <2>4. HasBucket(id)
    BY <1>1, <2>2, <2>3 DEF HasBucket, p
  <2>5. bucketIndex(id) = Place(id, Len(buckets))
    <3>1. \A j \in 1 .. Place(id, Len(buckets)) - 1 : ~ contains(buckets[j].bounds, p)
      BY <1>1, <2>2, <2>3
    <3> DEFINE IsIndex(n) == /\ contains(buckets[n].bounds, p)
                             /\ \A j \in 1 .. n - 1 : ~ contains(buckets[j].bounds, p)
    <3>2. \A n \in DOMAIN buckets : IsIndex(n) <=> n = Place(id, Len(buckets))
      BY <1>1, <2>2, <2>3, <3>1
    <3>3. bucketIndex(id) = CHOOSE n \in DOMAIN buckets : IsIndex(n)
      BY DEF bucketIndex, p
    <3> HIDE DEF IsIndex
    <3> QED
      BY <1>1, <2>2, <3>2, <3>3
  <2> QED
    BY <1>1, <1>5, <2>2, <2>3, <2>4, <2>5 DEF p
<1> QED
  BY <1>4, <1>5

-----------------------------------------------------------------------------
\* The operations of fixed_vec.rs, on vectors that are well-formed.

\* The entries below the length are entries, and no slot above it is read.
LEMMA VectorFacts ==
  ASSUME NEW v, WellFormed(v)
  PROVE  /\ v.length \in 0 .. BUCKET_SIZE
         /\ Occupied(v) = 0 .. v.length - 1
         /\ Occupied(v) \subseteq Slot
         /\ v.data \in [Slot -> RoutingEntry \cup {Uninit}]
         /\ v = [data |-> v.data, length |-> v.length]
         /\ \A j \in Occupied(v) : v.data[j] \in RoutingEntry /\ IdAt(v, j) \in NodeId
<1> USE FixedVecAssumption
<1>1. /\ v.length \in 0 .. BUCKET_SIZE
      /\ v.data \in [Slot -> RoutingEntry \cup {Uninit}]
      /\ v = [data |-> v.data, length |-> v.length]
  BY DEF WellFormed, Vectors
<1>2. Occupied(v) = 0 .. v.length - 1
  BY <1>1 DEF Occupied, Slot
<1>3. ASSUME NEW j \in Occupied(v)
      PROVE  v.data[j] \in RoutingEntry /\ IdAt(v, j) \in NodeId
  <2>1. v.data[j] \in RoutingEntry
    BY <1>1 DEF WellFormed, Occupied
  <2> QED
    BY <2>1 DEF IdAt, RoutingEntry, NodeContactInfo
<1> QED
  BY <1>1, <1>2, <1>3 DEF Occupied

LEMMA NewFacts ==
  /\ WellFormed(new) /\ new.length = 0 /\ Occupied(new) = {} /\ Distinct(new)
<1> USE FixedVecAssumption
<1>1. new.length = 0 /\ new.data = [j \in Slot |-> Uninit]
  BY DEF new
<1>2. new \in Vectors
  BY DEF new, Vectors
<1>3. Occupied(new) = {}
  BY <1>1 DEF Occupied, Slot
<1>4. WellFormed(new)
  BY <1>1, <1>2 DEF WellFormed, Slot
<1> QED
  BY <1>1, <1>3, <1>4 DEF Distinct

\* push writes the first slot above the items.
LEMMA PushFacts ==
  ASSUME NEW v, WellFormed(v), v.length < BUCKET_SIZE, NEW e \in RoutingEntry
  PROVE  LET w == push(v, e)
         IN  /\ WellFormed(w) /\ w.length = v.length + 1
             /\ Occupied(w) = Occupied(v) \cup {v.length}
             /\ v.length \notin Occupied(v)
             /\ w.data[v.length] = e
             /\ \A j \in Occupied(v) : w.data[j] = v.data[j]
<1> USE FixedVecAssumption
<1> DEFINE w == push(v, e)
<1>1. /\ v.length \in 0 .. BUCKET_SIZE - 1
      /\ v.data \in [Slot -> RoutingEntry \cup {Uninit}]
      /\ v.length \in Slot
  BY VectorFacts DEF Slot
<1>2. w.length = v.length + 1 /\ w.data = [v.data EXCEPT ![v.length] = e]
  BY DEF push
<1>3. w \in Vectors
  BY <1>1 DEF push, Vectors
<1>4. \A j \in Slot : w.data[j] = IF j = v.length THEN e ELSE v.data[j]
  BY <1>1, <1>2
<1> HIDE DEF w
<1>5. \A j \in Slot : w.data[j] # Uninit <=> j < w.length
  BY <1>1, <1>2, <1>4, RustTableAssumption DEF WellFormed, Slot
<1>6. WellFormed(w)
  BY <1>1, <1>2, <1>3, <1>5 DEF WellFormed
<1>7. Occupied(w) = Occupied(v) \cup {v.length} /\ v.length \notin Occupied(v)
  BY <1>1, <1>2 DEF Occupied, Slot
<1>8. w.data[v.length] = e /\ \A j \in Occupied(v) : w.data[j] = v.data[j]
  BY <1>1, <1>4 DEF Occupied
<1> QED
  BY <1>2, <1>6, <1>7, <1>8 DEF w

\* swap_remove moves the last item into the slot of the one removed.
LEMMA SwapRemoveFacts ==
  ASSUME NEW v, WellFormed(v), NEW index \in Occupied(v)
  PROVE  LET removed == swap_remove(v, index)
             w       == removed.rest
             last    == v.length - 1
         IN  /\ removed.item = v.data[index]
             /\ WellFormed(w) /\ w.length = last
             /\ last \in Occupied(v) /\ Occupied(w) = Occupied(v) \ {last}
             /\ \A j \in Occupied(w) :
                  w.data[j] = IF j = index THEN v.data[last] ELSE v.data[j]
<1> USE FixedVecAssumption
<1> DEFINE last == v.length - 1
           w    == swap_remove(v, index).rest
<1>1. /\ v.length \in 1 .. BUCKET_SIZE /\ last \in Occupied(v)
      /\ Occupied(v) = 0 .. last
      /\ last \in Slot /\ index \in Slot /\ index <= last
      /\ v.data \in [Slot -> RoutingEntry \cup {Uninit}]
  BY VectorFacts DEF Slot
<1>2. /\ w.length = last
      /\ w.data = [v.data EXCEPT ![index] = v.data[last], ![last] = Uninit]
      /\ swap_remove(v, index).item = v.data[index]
  BY DEF swap_remove
<1>3. w \in Vectors
  BY <1>1 DEF swap_remove, Vectors
<1>4. \A j \in Slot : w.data[j] = IF j = last THEN Uninit
                                  ELSE IF j = index THEN v.data[last] ELSE v.data[j]
  BY <1>1, <1>2
<1> HIDE DEF w
<1>5. \A j \in Slot : w.data[j] # Uninit <=> j < w.length
  <2> SUFFICES ASSUME NEW j \in Slot
               PROVE  w.data[j] # Uninit <=> j < last
    BY <1>2
  <2>1. \A k \in Slot : v.data[k] # Uninit <=> k < v.length
    BY DEF WellFormed
  <2>2. /\ j \in Int /\ last \in Int /\ last < v.length /\ index < v.length
        /\ j < v.length <=> (j < last \/ j = last)
    BY <1>1 DEF Slot
  <2> HIDE DEF last
  <2>3. CASE j = last
    BY <1>4, <2>2, <2>3
  <2>4. CASE j # last /\ j = index
    BY <1>1, <1>4, <2>1, <2>2, <2>4
  <2>5. CASE j # last /\ j # index
    BY <1>4, <2>1, <2>2, <2>5
  <2> QED
    BY <2>3, <2>4, <2>5
<1>6. WellFormed(w)
  BY <1>1, <1>2, <1>3, <1>5 DEF WellFormed
<1>7. Occupied(w) = Occupied(v) \ {last}
  BY <1>1, <1>2 DEF Occupied, Slot
<1>8. \A j \in Occupied(w) : w.data[j] = IF j = index THEN v.data[last] ELSE v.data[j]
  <2>1. \A j \in Occupied(w) : j \in Slot /\ j # last
    BY <1>7 DEF Occupied
  <2> HIDE DEF last
  <2> QED
    BY <1>4, <2>1
<1> QED
  BY <1>1, <1>2, <1>6, <1>7, <1>8 DEF w

\* append is right when one of the two vectors has no items: it then returns
\* the other one.
LEMMA AppendFacts ==
  ASSUME NEW v, WellFormed(v), NEW w, WellFormed(w)
  PROVE  /\ w.length = 0 => append(v, w) = v
         /\ v.length = 0 => append(v, w) = w
<1> USE FixedVecAssumption
<1>1. /\ v = [data |-> v.data, length |-> v.length] /\ v.length \in Nat
      /\ w = [data |-> w.data, length |-> w.length] /\ w.length \in Nat
      /\ v.data \in [Slot -> RoutingEntry \cup {Uninit}]
      /\ w.data \in [Slot -> RoutingEntry \cup {Uninit}]
  BY VectorFacts
<1> DEFINE data == [j \in Slot |-> IF j < w.length THEN w.data[j] ELSE v.data[j]]
<1>2. append(v, w) = [data |-> data, length |-> v.length + w.length]
  BY DEF append
<1>3. ASSUME w.length = 0 PROVE append(v, w) = v
  <2>1. data = v.data
    BY <1>1, <1>3 DEF Slot
  <2> QED
    BY <1>1, <1>2, <1>3, <2>1
<1>4. ASSUME v.length = 0 PROVE append(v, w) = w
  <2>1. \A j \in Slot : ~ (j < w.length) => w.data[j] = v.data[j]
    BY <1>4 DEF WellFormed, Slot
  <2>2. data = w.data
    BY <1>1, <2>1
  <2> QED
    BY <1>1, <1>2, <1>4, <2>2
<1> QED
  BY <1>3, <1>4

\* An entry written over another one, as update does in its first two cases.
LEMMA OverwriteFacts ==
  ASSUME NEW v, WellFormed(v), NEW p \in Occupied(v), NEW e \in RoutingEntry
  PROVE  LET w == [v EXCEPT !.data[p] = e]
         IN  /\ WellFormed(w) /\ w.length = v.length /\ Occupied(w) = Occupied(v)
             /\ \A j \in Occupied(v) : w.data[j] = IF j = p THEN e ELSE v.data[j]
<1> DEFINE w == [v EXCEPT !.data[p] = e]
<1>1. /\ v.length \in 0 .. BUCKET_SIZE /\ p \in Slot
      /\ v.data \in [Slot -> RoutingEntry \cup {Uninit}]
      /\ v = [data |-> v.data, length |-> v.length]
  BY VectorFacts
<1>2. w.length = v.length /\ w.data = [v.data EXCEPT ![p] = e]
  BY <1>1
<1>3. w \in Vectors
  BY <1>1 DEF Vectors
<1>4. \A j \in Slot : w.data[j] = IF j = p THEN e ELSE v.data[j]
  BY <1>1, <1>2
<1> HIDE DEF w
<1>5. WellFormed(w)
  BY <1>1, <1>2, <1>3, <1>4, RustTableAssumption DEF WellFormed, Occupied
<1>6. Occupied(w) = Occupied(v)
  BY <1>2 DEF Occupied
<1> QED
  BY <1>2, <1>4, <1>5, <1>6 DEF w, Occupied

-----------------------------------------------------------------------------
\* Entries.

LEMMA EntryFacts ==
  /\ \A entry \in RoutingEntry : \A seen_in :
       /\ updated(entry, seen_in) \in RoutingEntry
       /\ updated(entry, seen_in).node = entry.node
  /\ \A node \in NodeContactInfo :
       newEntry(node) \in RoutingEntry /\ newEntry(node).node = node
<1>1. 0 \in Instant
  <2>1. StaleAge \in Nat
    BY RustTableAssumption DEF StaleAge
  <2> QED
    BY <2>1 DEF Instant
<1> QED
  BY <1>1 DEF updated, newEntry, RoutingEntry

\* position() finds the first of the positions.
LEMMA FirstFacts ==
  ASSUME NEW positions \in SUBSET Slot, positions # {}
  PROVE  /\ First(positions) \in positions
         /\ \A j \in positions : First(positions) <= j
<1> USE FixedVecAssumption
<1>1. positions \subseteq Nat
  BY DEF Slot
<1>2. PICK p \in positions : \A j \in positions : ~ (<<j, p>> \in OpToRel(<, Nat))
  BY <1>1, NatLessThanWellFounded, WFMin
<1>3. \A j \in positions : p <= j
  <2>1. \A j \in positions : ~ (j < p)
    BY <1>1, <1>2 DEF OpToRel
  <2> QED
    BY <1>1, <2>1
<1> DEFINE IsFirst(i) == \A j \in positions : i <= j
<1>4. First(positions) = CHOOSE i \in positions : IsFirst(i)
  BY DEF First
<1>5. \E i \in positions : IsFirst(i)
  BY <1>3
<1> HIDE DEF IsFirst
<1>6. First(positions) \in positions /\ IsFirst(First(positions))
  BY <1>4, <1>5
<1> QED
  BY <1>6 DEF IsFirst

LEMMA NewEntryFacts ==
  ASSUME NEW node \in Contacts, NEW seen_in
  PROVE  /\ node \in NodeContactInfo /\ node.id \in NodeId
         /\ updated(newEntry(node), seen_in) \in RoutingEntry
         /\ updated(newEntry(node), seen_in).node = node
<1>1. node \in NodeContactInfo
  BY RustTableAssumption
<1> QED
  BY <1>1, EntryFacts DEF NodeContactInfo

-----------------------------------------------------------------------------
\* Steps that replace the vector of one bucket.

\* No other bucket changes, and every identifier keeps its bucket.
LEMMA OneBucketChanges ==
  ASSUME TypeOK, Bounds, NEW n \in DOMAIN buckets, NEW w \in Vectors,
         buckets' = [buckets EXCEPT ![n].entries = w]
  PROVE  /\ buckets' \in Seq(Bucket)
         /\ Len(buckets') = Len(buckets) /\ DOMAIN buckets' = DOMAIN buckets
         /\ Bounds'
         /\ \A k \in DOMAIN buckets :
              /\ buckets'[k].entries = IF k = n THEN w ELSE buckets[k].entries
              /\ buckets'[k].bounds = buckets[k].bounds
<1> DEFINE b == [buckets[n] EXCEPT !.entries = w]
<1>1. /\ DOMAIN buckets = 1 .. Len(buckets) /\ Len(buckets) \in Nat
      /\ buckets \in Seq(Bucket) /\ buckets[n] \in Bucket
  BY BucketFacts DEF TypeOK
<1>2. b \in Bucket /\ b.entries = w /\ b.bounds = buckets[n].bounds
  BY <1>1 DEF Bucket
<1>3. buckets' = [buckets EXCEPT ![n] = b]
  OBVIOUS
<1> HIDE DEF b
<1>4. /\ buckets' \in Seq(Bucket) /\ Len(buckets') = Len(buckets)
      /\ DOMAIN buckets' = DOMAIN buckets
      /\ \A k \in DOMAIN buckets : buckets'[k] = IF k = n THEN b ELSE buckets[k]
  BY <1>1, <1>2, <1>3, ExceptSeq
<1>5. \A k \in DOMAIN buckets :
        /\ buckets'[k].entries = IF k = n THEN w ELSE buckets[k].entries
        /\ buckets'[k].bounds = buckets[k].bounds
  BY <1>2, <1>4
<1>6. Bounds'
  BY <1>4, <1>5 DEF Bounds
<1> QED
  BY <1>4, <1>5, <1>6

\* The buckets still hold their own when the new vector does.
LEMMA OneBucketKeeps ==
  ASSUME TypeOK, Bounds, BucketsHoldTheirOwn,
         NEW n \in DOMAIN buckets, NEW w, HoldsItsOwn(w, n, Len(buckets)),
         buckets' = [buckets EXCEPT ![n].entries = w]
  PROVE  /\ buckets' \in Seq(Bucket) /\ Bounds' /\ BucketsHoldTheirOwn'
         /\ Len(buckets') = Len(buckets)
<1>1. w \in Vectors
  BY DEF HoldsItsOwn, WellFormed
<1>2. /\ buckets' \in Seq(Bucket) /\ Bounds'
      /\ Len(buckets') = Len(buckets) /\ DOMAIN buckets' = DOMAIN buckets
      /\ \A k \in DOMAIN buckets :
           buckets'[k].entries = IF k = n THEN w ELSE buckets[k].entries
  BY <1>1, OneBucketChanges
<1>3. BucketsHoldTheirOwn'
  BY <1>2 DEF BucketsHoldTheirOwn
<1> QED
  BY <1>2, <1>3

\* Overwriting an entry of a bucket with one that belongs there, and that has
\* an identifier of its own or the one of the entry it replaces.
LEMMA OverwriteKeeps ==
  ASSUME IInv, NEW n \in DOMAIN buckets, NEW p \in Occupied(buckets[n].entries),
         NEW e \in RoutingEntry,
         e.node.id # reference_id, Place(e.node.id, Len(buckets)) = n,
         \A j \in Occupied(buckets[n].entries) :
           IdAt(buckets[n].entries, j) = e.node.id => j = p,
         splitting = NoSplit, UNCHANGED <<splitting, panicked>>,
         buckets' = WithEntry(n, p, e)
  PROVE  IInv'
<1> DEFINE v == buckets[n].entries
           w == [v EXCEPT !.data[p] = e]
<1>1. HoldsItsOwn(v, n, Len(buckets))
  BY DEF IInv, BucketsHoldTheirOwn
<1>2. buckets' = [buckets EXCEPT ![n].entries = w]
  BY DEF WithEntry
<1>3. /\ WellFormed(w) /\ Occupied(w) = Occupied(v)
      /\ \A j \in Occupied(v) : w.data[j] = IF j = p THEN e ELSE v.data[j]
  BY <1>1, OverwriteFacts DEF HoldsItsOwn
<1> HIDE DEF w
<1>4. \A j \in Occupied(v) : IdAt(w, j) = IF j = p THEN e.node.id ELSE IdAt(v, j)
  BY <1>3 DEF IdAt
<1>5. \A j \in Occupied(v) : IdAt(v, j) = e.node.id => j = p
  OBVIOUS
<1> HIDE DEF v
<1>6. HoldsItsOwn(w, n, Len(buckets))
  BY <1>1, <1>3, <1>4, <1>5 DEF HoldsItsOwn, Distinct
<1>7. buckets' \in Seq(Bucket) /\ Bounds' /\ BucketsHoldTheirOwn'
  BY <1>2, <1>6, OneBucketKeeps DEF IInv
<1> QED
  BY <1>7 DEF IInv, TypeOK, SplitOfLast

\* A node other than this one belongs to the bucket update looks at, which is
\* one of a table without a split in progress.
LEMMA UpdateFacts ==
  ASSUME IInv, NEW node \in Contacts, Idle, HasBucket(node.id)
  PROVE  LET n == bucketIndex(node.id)
         IN  /\ n \in DOMAIN buckets /\ n = Place(node.id, Len(buckets))
             /\ node.id \in NodeId /\ node.id # reference_id
             /\ HoldsItsOwn(buckets[n].entries, n, Len(buckets))
             /\ splitting = NoSplit /\ panicked = NoPanic
<1>1. node.id \in NodeId
  BY NewEntryFacts
<1> QED
  BY <1>1, PlaceFacts DEF Idle, IInv, BucketsHoldTheirOwn

\* UpdateKnown: the entry found is one of the bucket, and keeps its identifier.
LEMMA UpdateKnownKeeps ==
  ASSUME IInv, NEW node \in Contacts, NEW seen_in \in SeenIn, UpdateKnown(node, seen_in)
  PROVE  IInv'
<1> DEFINE n == bucketIndex(node.id)
           v == buckets[n].entries
           p == First(PositionsOf(v, node.id))
           e == updated(v.data[p], seen_in)
<1>1. /\ n \in DOMAIN buckets /\ n = Place(node.id, Len(buckets))
      /\ node.id # reference_id
      /\ HoldsItsOwn(v, n, Len(buckets))
      /\ splitting = NoSplit
  BY UpdateFacts DEF UpdateKnown
<1>2. p \in PositionsOf(v, node.id)
  <2>1. PositionsOf(v, node.id) \in SUBSET Slot
    BY DEF PositionsOf
  <2> QED
    BY <2>1, FirstFacts DEF UpdateKnown
<1>3. buckets' = WithEntry(n, p, e) /\ UNCHANGED <<splitting, panicked>>
  BY DEF UpdateKnown
<1> HIDE DEF n, p
<1>4. p \in Occupied(v) /\ v.data[p].node.id = node.id
  BY <1>2 DEF PositionsOf, Occupied
<1>5. e \in RoutingEntry /\ e.node.id = node.id
  <2>1. v.data[p] \in RoutingEntry
    BY <1>1, <1>4, VectorFacts DEF HoldsItsOwn
  <2> QED
    BY <1>4, <2>1, EntryFacts
<1>6. \A j \in Occupied(v) : IdAt(v, j) = e.node.id => j = p
  BY <1>1, <1>4, <1>5 DEF HoldsItsOwn, Distinct, IdAt
<1> HIDE DEF e
<1> QED
  BY <1>1, <1>3, <1>4, <1>5, <1>6, OverwriteKeeps

\* A node without an entry: none in the bucket has its identifier.
LEMMA IsNewFacts ==
  ASSUME IInv, NEW node \in Contacts, IsNew(node)
  PROVE  \A j \in Occupied(bucketOf(node.id).entries) :
           IdAt(bucketOf(node.id).entries, j) # node.id
BY DEF IsNew, PositionsOf, Occupied, IdAt

\* Case 2: an entry that is bad makes room for one of the same bucket.
LEMMA ReplaceBadKeeps ==
  ASSUME IInv, NEW node \in Contacts, NEW seen_in \in SeenIn, ReplaceBad(node, seen_in)
  PROVE  IInv'
<1> DEFINE n   == bucketIndex(node.id)
           v   == buckets[n].entries
           bad == BadPositions(v)
           p   == First(bad)
           e   == updated(newEntry(node), seen_in)
<1>1. /\ n \in DOMAIN buckets /\ n = Place(node.id, Len(buckets))
      /\ node.id # reference_id
      /\ splitting = NoSplit
  BY UpdateFacts DEF ReplaceBad, IsNew
<1>2. \A j \in Occupied(v) : IdAt(v, j) # node.id
  BY IsNewFacts DEF ReplaceBad, bucketOf
<1>3. p \in bad
  <2>1. bad \in SUBSET Slot
    BY DEF BadPositions
  <2> QED
    BY <2>1, FirstFacts DEF ReplaceBad
<1>4. p \in Occupied(v)
  BY <1>3 DEF BadPositions, Occupied
<1>5. buckets' = WithEntry(n, p, e) /\ UNCHANGED <<splitting, panicked>>
  BY DEF ReplaceBad
<1>6. e \in RoutingEntry /\ e.node.id = node.id
  BY NewEntryFacts
<1> HIDE DEF n, p, e
<1> QED
  BY <1>1, <1>2, <1>4, <1>5, <1>6, OverwriteKeeps

\* A vector with one entry more, which has an identifier of its own.
LEMMA PushKeepsOwn ==
  ASSUME NEW n, NEW m, NEW v, HoldsItsOwn(v, n, m), v.length < BUCKET_SIZE,
         NEW e \in RoutingEntry, e.node.id # reference_id, Place(e.node.id, m) = n,
         \A j \in Occupied(v) : IdAt(v, j) # e.node.id
  PROVE  HoldsItsOwn(push(v, e), n, m)
<1> DEFINE w == push(v, e)
<1>1. /\ WellFormed(w) /\ Occupied(w) = Occupied(v) \cup {v.length}
      /\ v.length \notin Occupied(v) /\ w.data[v.length] = e
      /\ \A j \in Occupied(v) : w.data[j] = v.data[j]
  BY PushFacts DEF HoldsItsOwn
<1> HIDE DEF w
<1>2. /\ IdAt(w, v.length) = e.node.id
      /\ \A j \in Occupied(v) : IdAt(w, j) = IdAt(v, j)
  BY <1>1 DEF IdAt
<1>3. Distinct(w)
  BY <1>1, <1>2 DEF HoldsItsOwn, Distinct
<1> QED
  BY <1>1, <1>2, <1>3 DEF HoldsItsOwn, w

\* Case 1.
LEMMA InsertIntoSlotKeeps ==
  ASSUME IInv, NEW node \in Contacts, NEW seen_in \in SeenIn,
         InsertIntoSlot(node, seen_in)
  PROVE  IInv'
<1> DEFINE n == bucketIndex(node.id)
           v == buckets[n].entries
           e == updated(newEntry(node), seen_in)
           w == push(v, e)
<1>1. /\ n \in DOMAIN buckets /\ n = Place(node.id, Len(buckets))
      /\ node.id # reference_id
      /\ HoldsItsOwn(v, n, Len(buckets))
      /\ splitting = NoSplit
  BY UpdateFacts DEF InsertIntoSlot, IsNew
<1>2. \A j \in Occupied(v) : IdAt(v, j) # node.id
  BY IsNewFacts DEF InsertIntoSlot, bucketOf
<1>3. e \in RoutingEntry /\ e.node.id = node.id
  BY NewEntryFacts
<1>4. /\ v.length < BUCKET_SIZE
      /\ buckets' = [buckets EXCEPT ![n].entries = w]
      /\ UNCHANGED <<splitting, panicked>>
  BY DEF InsertIntoSlot, is_not_full
<1> HIDE DEF n, v, e
<1>5. HoldsItsOwn(w, n, Len(buckets))
  BY <1>1, <1>2, <1>3, <1>4, PushKeepsOwn
<1> HIDE DEF w
<1>6. buckets' \in Seq(Bucket) /\ Bounds' /\ BucketsHoldTheirOwn'
  BY <1>1, <1>4, <1>5, OneBucketKeeps DEF IInv
<1> QED
  BY <1>1, <1>4, <1>6 DEF IInv, TypeOK, SplitOfLast

\* Case 3 begins: only the last bucket covers more than one prefix length, and
\* none of its entries is bad.
LEMMA StartSplitKeeps ==
  ASSUME IInv, NEW node \in Contacts, NEW seen_in \in SeenIn, StartSplit(node, seen_in)
  PROVE  IInv'
<1> USE IdBitsAssumption
<1> DEFINE n == bucketIndex(node.id)
           v == buckets[n].entries
           e == updated(newEntry(node), seen_in)
<1>1. /\ n \in DOMAIN buckets /\ n = Place(node.id, Len(buckets))
      /\ node.id # reference_id
      /\ HoldsItsOwn(v, n, Len(buckets))
      /\ panicked = NoPanic
  BY UpdateFacts DEF StartSplit, IsFullOfOthers, IsNew
<1>2. \A j \in Occupied(v) : IdAt(v, j) # node.id
  BY IsNewFacts DEF StartSplit, IsFullOfOthers, bucketOf
<1>3. e \in RoutingEntry /\ e.node.id = node.id
  BY NewEntryFacts
<1>4. \A j \in Occupied(v) : rating(v.data[j]) # "Bad"
  BY DEF StartSplit, IsFullOfOthers, bucketOf, BadPositions, Occupied
<1>5. /\ v.length = BUCKET_SIZE
      /\ splitting' = [new_entry |-> e, i |-> 0, drained_upper_nodes |-> new]
      /\ UNCHANGED <<buckets, panicked>>
  BY DEF StartSplit, IsFullOfOthers, bucketOf, is_full
<1>6. n = Len(buckets) /\ n < IdBits
  <2>1. buckets[n].bounds.end - buckets[n].bounds.start > 1
    BY DEF StartSplit, CanSplit, bucketOf
  <2>2. /\ n \in 1 .. Len(buckets) /\ Len(buckets) \in Nat
        /\ buckets[n].bounds = [start |-> n - 1,
                                end |-> IF n = Len(buckets) THEN IdBits ELSE n]
    BY <1>1, BucketFacts DEF IInv, Bounds
  <2> HIDE DEF n
  <2>3. buckets[n].bounds.start = n - 1
    BY <2>2
  <2>4. buckets[n].bounds.end = IF n = Len(buckets) THEN IdBits ELSE n
    BY <2>2
  <2> QED
    BY <2>1, <2>2, <2>3, <2>4
<1>7. e = updated(newEntry(node), seen_in)
  OBVIOUS
<1> HIDE DEF n, v, e
<1>8. \E other \in Contacts, seen \in SeenIn : e = updated(newEntry(other), seen)
  BY <1>7
<1>9. v.length \in Nat /\ BUCKET_SIZE \in Nat /\ Occupied(v) \subseteq Nat
  BY <1>1, VectorFacts, FixedVecAssumption DEF HoldsItsOwn
<1> DEFINE split == [new_entry |-> e, i |-> 0, drained_upper_nodes |-> new]
<1>10. /\ split.new_entry = e /\ split.i = 0 /\ split.drained_upper_nodes = new
       /\ splitting' = split
  BY <1>5
<1> HIDE DEF split
<1>11. SplitOfLast'
  <2>1. StaysInLower(split, v, n) /\ GoesUp(split, new, n)
    BY <1>2, <1>3, <1>4, <1>9, <1>10, NewFacts DEF StaysInLower, GoesUp
  <2>2. IsSplitOf(split, v, n)
    <3>1. v.length + split.drained_upper_nodes.length = BUCKET_SIZE /\ split.i <= v.length
      BY <1>5, <1>9, <1>10, NewFacts, FixedVecAssumption
    <3>2. split.new_entry.node.id # reference_id /\ Place(split.new_entry.node.id, n) = n
      <4>1. split.new_entry.node.id = node.id
        BY <1>3, <1>10
      <4> QED
        BY <1>1, <1>6, <4>1
    <3>3. \E other \in Contacts, seen \in SeenIn :
            split.new_entry = updated(newEntry(other), seen)
      BY <1>8, <1>10
    <3>4. GoesUp(split, split.drained_upper_nodes, n)
      BY <1>10, <2>1
    <3> QED
      BY <1>6, <2>1, <3>1, <3>2, <3>3, <3>4, Zenon DEF IsSplitOf
  <2>3. v = buckets'[Len(buckets')].entries /\ n = Len(buckets')
    BY <1>5, <1>6 DEF v
  <2> QED
    BY <1>1, <1>5, <1>10, <2>2, <2>3 DEF SplitOfLast
<1>12. TypeOK'
  <2>1. new \in Vectors
    BY NewFacts DEF WellFormed
  <2> QED
    BY <1>3, <1>5, <2>1 DEF IInv, TypeOK, SplitInProgress
<1> QED
  BY <1>5, <1>11, <1>12 DEF IInv, Bounds, BucketsHoldTheirOwn

\* The remaining cases of update change no entry.
LEMMA UpdateWithoutEntryKeeps ==
  ASSUME IInv, NEW node \in Contacts, UpdatePanics(node) \/ Discard(node)
  PROVE  IInv'
<1>1. node.id \in NodeId
  BY NewEntryFacts
<1>2. CASE Discard(node)
  BY <1>2 DEF Discard, vars, IInv, TypeOK, Bounds, BucketsHoldTheirOwn, SplitOfLast
<1>3. CASE UpdatePanics(node)
  <2>1. /\ node.id = reference_id /\ panicked' = node.id
        /\ splitting = NoSplit /\ UNCHANGED <<buckets, splitting>>
    BY <1>1, <1>3, PlaceFacts DEF UpdatePanics, Idle, IInv
  <2> QED
    BY <1>1, <2>1 DEF IInv, TypeOK, Bounds, BucketsHoldTheirOwn, SplitOfLast
<1> QED
  BY <1>2, <1>3

-----------------------------------------------------------------------------
\* The loop of case 3.

\* The split in progress, its vectors and the bucket they belong to.
LEMMA LoopFacts ==
  ASSUME IInv, splitting # NoSplit
  PROVE  /\ splitting \in SplitInProgress
         /\ splitting.new_entry \in RoutingEntry
         /\ splitting.new_entry.node.id \in NodeId
         /\ splitting.i \in Nat
         /\ SplitIndex = Len(buckets) /\ Len(buckets) \in DOMAIN buckets
         /\ Len(buckets) \in 1 .. IdBits - 1
         /\ buckets[Len(buckets)].bounds = [start |-> Len(buckets) - 1, end |-> IdBits]
         /\ HoldsItsOwn(buckets[Len(buckets)].entries, Len(buckets), Len(buckets))
         /\ IsSplitOf(splitting, buckets[Len(buckets)].entries, Len(buckets))
         /\ panicked = NoPanic
<1> USE IdBitsAssumption
<1>1. splitting \in SplitInProgress
  BY DEF IInv, TypeOK
<1>2. splitting.new_entry \in RoutingEntry /\ splitting.i \in Nat
  BY <1>1 DEF SplitInProgress
<1>3. splitting.new_entry.node.id \in NodeId
  BY <1>2 DEF RoutingEntry, NodeContactInfo
<1>4. /\ panicked = NoPanic
      /\ IsSplitOf(splitting, buckets[Len(buckets)].entries, Len(buckets))
  BY DEF IInv, SplitOfLast
<1>5. /\ Len(buckets) < IdBits
      /\ splitting.new_entry.node.id # reference_id
      /\ Place(splitting.new_entry.node.id, Len(buckets)) = Len(buckets)
  BY <1>4 DEF IsSplitOf
<1>6. SplitIndex = Len(buckets) /\ Len(buckets) \in DOMAIN buckets
  BY <1>3, <1>5, PlaceFacts DEF IInv, SplitIndex
<1>7. /\ Len(buckets) \in 1 .. IdBits - 1
      /\ buckets[Len(buckets)].bounds = [start |-> Len(buckets) - 1, end |-> IdBits]
  BY <1>5, <1>6, BucketFacts DEF IInv, Bounds
<1>8. HoldsItsOwn(buckets[Len(buckets)].entries, Len(buckets), Len(buckets))
  BY <1>6 DEF IInv, BucketsHoldTheirOwn
<1> QED
  BY <1>1, <1>2, <1>3, <1>4, <1>6, <1>7, <1>8

\* What IsSplitOf says of the two vectors.
LEMMA SplitFacts ==
  ASSUME NEW split \in SplitInProgress, NEW n, NEW v,
         HoldsItsOwn(v, n, n), IsSplitOf(split, v, n)
  PROVE  LET drained == split.drained_upper_nodes
         IN  /\ WellFormed(v) /\ Distinct(v) /\ WellFormed(drained) /\ Distinct(drained)
             /\ v.length \in 0 .. BUCKET_SIZE /\ drained.length \in 0 .. BUCKET_SIZE
             /\ v.length + drained.length = BUCKET_SIZE
             /\ split.i \in 0 .. v.length
             /\ split.new_entry \in RoutingEntry
             /\ split.new_entry.node.id # reference_id
<1>1. /\ WellFormed(v) /\ Distinct(v)
      /\ WellFormed(split.drained_upper_nodes) /\ Distinct(split.drained_upper_nodes)
  BY DEF HoldsItsOwn, IsSplitOf, GoesUp
<1>2. /\ v.length \in 0 .. BUCKET_SIZE
      /\ split.drained_upper_nodes.length \in 0 .. BUCKET_SIZE
  BY <1>1, VectorFacts
<1>3. split.i \in Nat /\ split.new_entry \in RoutingEntry
  BY DEF SplitInProgress
<1>4. /\ v.length + split.drained_upper_nodes.length = BUCKET_SIZE
      /\ split.i <= v.length /\ split.new_entry.node.id # reference_id
  BY DEF IsSplitOf
<1>5. split.i \in 0 .. v.length
  BY <1>2, <1>3, <1>4
<1> QED
  BY <1>1, <1>2, <1>3, <1>4, <1>5

\* In the loop, the entry at i goes to the upper half exactly if it shares more
\* bits with the node's identifier than the lower half covers.
LEMMA InLoopFacts ==
  ASSUME IInv, InLoop
  PROVE  LET n == Len(buckets)
             v == buckets[n].entries
         IN  /\ splitting.i \in Occupied(v)
             /\ FallsInUpper(v.data[splitting.i]) <=> prefixLength(IdAt(v, splitting.i)) >= n
<1> USE IdBitsAssumption, FixedVecAssumption
<1> DEFINE n == Len(buckets)
           v == buckets[n].entries
           id == IdAt(v, splitting.i)
<1>1. /\ splitting \in SplitInProgress /\ SplitIndex = n
      /\ n \in 1 .. IdBits - 1
      /\ buckets[n].bounds = [start |-> n - 1, end |-> IdBits]
      /\ HoldsItsOwn(v, n, n) /\ IsSplitOf(splitting, v, n)
      /\ splitting.i # v.length
  BY LoopFacts DEF InLoop
<1>2. /\ WellFormed(v) /\ v.length \in 0 .. BUCKET_SIZE /\ splitting.i \in 0 .. v.length
  BY <1>1, SplitFacts
<1>3. splitting.i \in Occupied(v)
  BY <1>1, <1>2, VectorFacts
<1>4. id \in NodeId /\ id # reference_id
  BY <1>1, <1>2, <1>3, VectorFacts DEF HoldsItsOwn
<1>5. prefixLength(id) \in 0 .. IdBits - 1
  BY <1>4, PrefixFacts
<1>6. FallsInUpper(v.data[splitting.i]) <=>
        contains([start |-> n, end |-> IdBits], prefixLength(id))
  <2>1. upper_bounds(buckets[n].bounds) = [start |-> n, end |-> IdBits]
    BY <1>1 DEF upper_bounds
  <2> QED
    BY <1>1, <2>1 DEF FallsInUpper, IdAt
<1>7. contains([start |-> n, end |-> IdBits], prefixLength(id)) <=> prefixLength(id) >= n
  BY <1>1, <1>5 DEF contains
<1> QED
  BY <1>3, <1>6, <1>7

\* An entry of the lower half stays where it is.
LEMMA KeepInLowerKeeps ==
  ASSUME IInv, KeepInLower
  PROVE  IInv'
<1> USE IdBitsAssumption, FixedVecAssumption
<1> DEFINE n == Len(buckets)
           v == buckets[n].entries
           split == [splitting EXCEPT !.i = @ + 1]
<1>1. /\ splitting \in SplitInProgress /\ SplitIndex = n
      /\ n \in 1 .. IdBits - 1
      /\ HoldsItsOwn(v, n, n) /\ IsSplitOf(splitting, v, n)
      /\ panicked = NoPanic
  BY LoopFacts DEF KeepInLower, InLoop
<1>2. splitting.i \in Occupied(v) /\ ~ (prefixLength(IdAt(v, splitting.i)) >= n)
  BY <1>1, InLoopFacts DEF KeepInLower
<1>3. splitting' = split /\ UNCHANGED <<buckets, panicked>>
  BY DEF KeepInLower
<1>4. /\ split \in SplitInProgress /\ split.i = splitting.i + 1
      /\ split.new_entry = splitting.new_entry
      /\ split.drained_upper_nodes = splitting.drained_upper_nodes
  BY <1>1 DEF SplitInProgress
<1> HIDE DEF split, v
<1>5. /\ WellFormed(v) /\ v.length \in 0 .. BUCKET_SIZE /\ splitting.i \in 0 .. v.length
      /\ Occupied(v) = 0 .. v.length - 1
      /\ \A j \in Occupied(v) : IdAt(v, j) \in NodeId
  BY <1>1, SplitFacts, VectorFacts
<1>6. StaysInLower(split, v, n)
  <2>1. StaysInLower(splitting, v, n)
    BY <1>1 DEF IsSplitOf
  <2>2. ASSUME NEW j \in Occupied(v), j < split.i
        PROVE  prefixLength(IdAt(v, j)) < n
    <3>1. j < splitting.i \/ j = splitting.i
      BY <1>4, <1>5, <2>2
    <3>2. CASE j < splitting.i
      BY <2>1, <3>2 DEF StaysInLower
    <3>3. CASE j = splitting.i
      <4>1. prefixLength(IdAt(v, j)) \in 0 .. IdBits
        BY <1>5, PrefixFacts
      <4> QED
        BY <1>1, <1>2, <3>3, <4>1
    <3> QED
      BY <3>1, <3>2, <3>3
  <2> QED
    BY <1>4, <2>1, <2>2 DEF StaysInLower
<1>7. IsSplitOf(split, v, n)
  <2>1. GoesUp(split, split.drained_upper_nodes, n)
    BY <1>1, <1>4 DEF IsSplitOf, GoesUp
  <2>2. split.i <= v.length
    BY <1>2, <1>4, <1>5
  <2> QED
    BY <1>1, <1>4, <1>6, <2>1, <2>2, Zenon DEF IsSplitOf
<1>8. SplitOfLast'
  BY <1>1, <1>3, <1>7 DEF SplitOfLast, v
<1> QED
  BY <1>3, <1>4, <1>8 DEF IInv, TypeOK, Bounds, BucketsHoldTheirOwn

\* An entry of the upper half is moved from the one vector to the other.
LEMMA DrainKeepsSplit ==
  ASSUME NEW split \in SplitInProgress, NEW n \in Nat, NEW v,
         HoldsItsOwn(v, n, n), IsSplitOf(split, v, n),
         split.i \in Occupied(v), prefixLength(IdAt(v, split.i)) >= n
  PROVE  LET removed == swap_remove(v, split.i)
             drained == push(split.drained_upper_nodes, removed.item)
             after   == [split EXCEPT !.drained_upper_nodes = drained]
         IN  /\ HoldsItsOwn(removed.rest, n, n)
             /\ after \in SplitInProgress
             /\ IsSplitOf(after, removed.rest, n)
<1> USE IdBitsAssumption, FixedVecAssumption
<1> DEFINE i       == split.i
           removed == swap_remove(v, i)
           w       == removed.rest
           old     == split.drained_upper_nodes
           drained == push(old, removed.item)
           after   == [split EXCEPT !.drained_upper_nodes = drained]
           last    == v.length - 1
           m       == old.length
<1>1. /\ WellFormed(v) /\ Distinct(v) /\ WellFormed(old) /\ Distinct(old)
      /\ v.length \in 0 .. BUCKET_SIZE /\ m \in 0 .. BUCKET_SIZE
      /\ v.length + m = BUCKET_SIZE /\ i \in 0 .. v.length
  BY SplitFacts
<1>2. /\ Occupied(v) = 0 .. last /\ i \in 0 .. last
      /\ m < BUCKET_SIZE
      /\ v.data[i] \in RoutingEntry
  BY <1>1, VectorFacts
<1>3. /\ removed.item = v.data[i]
      /\ WellFormed(w) /\ w.length = last
      /\ last \in Occupied(v) /\ Occupied(w) = Occupied(v) \ {last}
      /\ \A j \in Occupied(w) : w.data[j] = IF j = i THEN v.data[last] ELSE v.data[j]
  BY <1>1, SwapRemoveFacts
<1>4. /\ WellFormed(drained) /\ drained.length = m + 1
      /\ Occupied(drained) = Occupied(old) \cup {m} /\ m \notin Occupied(old)
      /\ drained.data[m] = v.data[i]
      /\ \A k \in Occupied(old) : drained.data[k] = old.data[k]
  BY <1>1, <1>2, <1>3, PushFacts
<1> HIDE DEF drained, removed
<1>5. /\ after \in SplitInProgress /\ after.i = i /\ after.new_entry = split.new_entry
      /\ after.drained_upper_nodes = drained
  BY <1>4 DEF SplitInProgress, WellFormed
<1> HIDE DEF after
<1>6. /\ \A j \in Occupied(w) : IdAt(w, j) = IF j = i THEN IdAt(v, last) ELSE IdAt(v, j)
      /\ IdAt(drained, m) = IdAt(v, i)
      /\ \A k \in Occupied(old) : IdAt(drained, k) = IdAt(old, k)
  BY <1>3, <1>4 DEF IdAt
<1> HIDE DEF w, old
<1>7. \A j \in Occupied(w) :
        \E k \in Occupied(v) : /\ k # i /\ w.data[j] = v.data[k] /\ IdAt(w, j) = IdAt(v, k)
                               /\ (j # i => k = j)
                               /\ (j = i => k = last)
  <2> SUFFICES ASSUME NEW j \in Occupied(w)
               PROVE  \E k \in Occupied(v) :
                        /\ k # i /\ w.data[j] = v.data[k] /\ IdAt(w, j) = IdAt(v, k)
                        /\ (j # i => k = j)
                        /\ (j = i => k = last)
    OBVIOUS
  <2>1. j \in Occupied(v) /\ j # last
    BY <1>3
  <2> HIDE DEF last
  <2>2. CASE j = i
    BY <1>3, <1>6, <2>1, <2>2
  <2>3. CASE j # i
    BY <1>3, <1>6, <2>1, <2>3
  <2> QED
    BY <2>2, <2>3
<1>8. Distinct(w)
  <2> SUFFICES ASSUME NEW j \in Occupied(w), NEW k \in Occupied(w),
                      IdAt(w, j) = IdAt(w, k)
               PROVE  j = k
    BY DEF Distinct
  <2>1. j \in Occupied(v) /\ j # last /\ k \in Occupied(v) /\ k # last
    BY <1>3
  <2> HIDE DEF last
  <2> QED
    BY <1>1, <1>3, <1>6, <2>1 DEF Distinct
<1>9. HoldsItsOwn(w, n, n)
  BY <1>3, <1>7, <1>8 DEF HoldsItsOwn
<1>10. StaysInLower(split, v, n) /\ GoesUp(split, old, n)
  BY DEF IsSplitOf, old
<1>11. StaysInLower(after, w, n)
  <2> SUFFICES ASSUME NEW j \in Occupied(w)
               PROVE  /\ j < i => prefixLength(IdAt(w, j)) < n
                      /\ IdAt(w, j) # split.new_entry.node.id
                      /\ rating(w.data[j]) # "Bad"
                      /\ \A k \in Occupied(drained) : IdAt(w, j) # IdAt(drained, k)
    BY <1>5 DEF StaysInLower
  <2>1. PICK k \in Occupied(v) : /\ k # i /\ w.data[j] = v.data[k] /\ IdAt(w, j) = IdAt(v, k)
                                 /\ (j # i => k = j)
    BY <1>7
  <2>2. j < i => prefixLength(IdAt(w, j)) < n
    <3> SUFFICES ASSUME j < i PROVE prefixLength(IdAt(w, j)) < n
      OBVIOUS
    <3>1. j # i
      BY <1>2
    <3> QED
      BY <1>10, <2>1, <3>1 DEF StaysInLower
  <2>3. IdAt(w, j) # split.new_entry.node.id /\ rating(w.data[j]) # "Bad"
    BY <1>10, <2>1 DEF StaysInLower
  <2>4. \A q \in Occupied(old) : IdAt(w, j) # IdAt(drained, q)
    BY <1>6, <1>10, <2>1 DEF StaysInLower, old
  <2>5. IdAt(w, j) # IdAt(drained, m)
    BY <1>1, <1>6, <2>1 DEF Distinct
  <2> QED
    BY <1>4, <2>2, <2>3, <2>4, <2>5
<1>12. GoesUp(after, drained, n)
  <2>1. Distinct(drained)
    <3>1. \A k \in Occupied(old) : IdAt(drained, k) # IdAt(drained, m)
      BY <1>6, <1>10 DEF StaysInLower, old
    <3> QED
      BY <1>1, <1>4, <1>6, <3>1 DEF Distinct
  <2>2. /\ prefixLength(IdAt(drained, m)) >= n /\ IdAt(drained, m) # reference_id
        /\ IdAt(drained, m) # split.new_entry.node.id
        /\ rating(drained.data[m]) # "Bad"
    BY <1>4, <1>6, <1>10 DEF HoldsItsOwn, StaysInLower
  <2>3. \A k \in Occupied(old) :
          /\ prefixLength(IdAt(drained, k)) >= n /\ IdAt(drained, k) # reference_id
          /\ IdAt(drained, k) # split.new_entry.node.id
          /\ rating(drained.data[k]) # "Bad"
    BY <1>4, <1>6, <1>10 DEF GoesUp
  <2> QED
    BY <1>4, <1>5, <2>1, <2>2, <2>3 DEF GoesUp
<1>13. w.length + after.drained_upper_nodes.length = BUCKET_SIZE /\ after.i <= w.length
  BY <1>1, <1>2, <1>3, <1>4, <1>5
<1>14. IsSplitOf(after, w, n)
  <2>1. /\ n < IdBits
        /\ \E node \in Contacts, seen_in \in SeenIn :
             after.new_entry = updated(newEntry(node), seen_in)
        /\ after.new_entry.node.id # reference_id
        /\ Place(after.new_entry.node.id, n) = n
    BY <1>5 DEF IsSplitOf
  <2> QED
    BY <1>5, <1>11, <1>12, <1>13, <2>1, Zenon DEF IsSplitOf
<1> QED
  BY <1>5, <1>9, <1>14 DEF w, removed, after, drained, old

LEMMA DrainToUpperKeeps ==
  ASSUME IInv, DrainToUpper
  PROVE  IInv'
<1> DEFINE n       == Len(buckets)
           v       == buckets[n].entries
           removed == swap_remove(v, splitting.i)
           w       == removed.rest
           split   == [splitting EXCEPT
                         !.drained_upper_nodes =
                            push(splitting.drained_upper_nodes, removed.item)]
<1>1. /\ splitting \in SplitInProgress /\ SplitIndex = n
      /\ n \in 1 .. IdBits - 1 /\ n \in DOMAIN buckets
      /\ HoldsItsOwn(v, n, n) /\ IsSplitOf(splitting, v, n)
      /\ panicked = NoPanic
  BY LoopFacts DEF DrainToUpper, InLoop
<1>2. splitting.i \in Occupied(v) /\ prefixLength(IdAt(v, splitting.i)) >= n
  BY <1>1, InLoopFacts DEF DrainToUpper
<1>3. /\ buckets' = [buckets EXCEPT ![n].entries = w] /\ splitting' = split
      /\ UNCHANGED panicked
  BY <1>1 DEF DrainToUpper
<1>4. n \in Nat
  BY <1>1, IdBitsAssumption
<1> HIDE DEF n
<1>5. HoldsItsOwn(w, n, n) /\ split \in SplitInProgress /\ IsSplitOf(split, w, n)
  BY <1>1, <1>2, <1>4, DrainKeepsSplit
<1> HIDE DEF split, w
<1>6. /\ buckets' \in Seq(Bucket) /\ Bounds' /\ BucketsHoldTheirOwn'
      /\ Len(buckets') = n /\ buckets'[n].entries = w
  <2>1. w \in Vectors
    BY <1>5 DEF HoldsItsOwn, WellFormed
  <2> QED
    <3>1. TypeOK /\ Bounds /\ BucketsHoldTheirOwn /\ HoldsItsOwn(w, n, Len(buckets))
      BY <1>5 DEF IInv, n
    <3>2. /\ buckets' \in Seq(Bucket) /\ Bounds' /\ BucketsHoldTheirOwn'
          /\ Len(buckets') = n
      <4>1. Len(buckets) = n
        BY DEF n
      <4> QED
        BY <1>1, <1>3, <3>1, <4>1, OneBucketKeeps
    <3>3. buckets'[n].entries = w
      <4>1. \A k \in DOMAIN buckets :
              buckets'[k].entries = IF k = n THEN w ELSE buckets[k].entries
        BY <1>1, <1>3, <2>1, <3>1, OneBucketChanges
      <4> QED
        BY <1>1, <4>1
    <3> QED
      BY <3>2, <3>3
<1>7. SplitOfLast'
  <2>1. IsSplitOf(splitting', buckets'[Len(buckets')].entries, Len(buckets'))
    BY <1>3, <1>5, <1>6
  <2> QED
    BY <1>1, <1>3, <2>1 DEF SplitOfLast
<1> QED
  BY <1>1, <1>3, <1>5, <1>6, <1>7 DEF IInv, TypeOK

\* Which half the new entry falls into, once all entries have been looked at.
LEMMA DrainedFacts ==
  ASSUME IInv, Drained
  PROVE  LET n  == Len(buckets)
             v  == buckets[n].entries
             id == splitting.new_entry.node.id
         IN  /\ splitting.i = v.length
             /\ \A j \in Occupied(v) : prefixLength(IdAt(v, j)) < n
             /\ contains(lower_bounds(buckets[n].bounds), prefixLength(id)) <=> prefixLength(id) < n
             /\ contains(upper_bounds(buckets[n].bounds), prefixLength(id)) <=> prefixLength(id) >= n
<1> USE IdBitsAssumption, FixedVecAssumption
<1> DEFINE n  == Len(buckets)
           v  == buckets[n].entries
           id == splitting.new_entry.node.id
           p  == prefixLength(id)
<1>1. /\ splitting \in SplitInProgress /\ SplitIndex = n
      /\ n \in 1 .. IdBits - 1 /\ id \in NodeId
      /\ buckets[n].bounds = [start |-> n - 1, end |-> IdBits]
      /\ HoldsItsOwn(v, n, n) /\ IsSplitOf(splitting, v, n)
      /\ splitting.i = v.length
  BY LoopFacts DEF Drained, InLoop
<1>2. id # reference_id /\ Place(id, n) = n /\ StaysInLower(splitting, v, n)
  BY <1>1 DEF IsSplitOf
<1>3. p \in 0 .. IdBits - 1
  BY <1>1, <1>2, PrefixFacts
<1>4. p >= n - 1
  BY <1>1, <1>2, <1>3 DEF Place
<1>5. \A j \in Occupied(v) : prefixLength(IdAt(v, j)) < n
  <2>1. \A j \in Occupied(v) : j < splitting.i
    BY <1>1 DEF Occupied
  <2> QED
    BY <1>2, <2>1 DEF StaysInLower
<1>6. /\ lower_bounds(buckets[n].bounds) = [start |-> n - 1, end |-> n]
      /\ upper_bounds(buckets[n].bounds) = [start |-> n, end |-> IdBits]
  BY <1>1 DEF lower_bounds, upper_bounds
<1> HIDE DEF p, n
<1>7. contains([start |-> n - 1, end |-> n], p) <=> p < n
  BY <1>1, <1>3, <1>4 DEF contains
<1>8. contains([start |-> n, end |-> IdBits], p) <=> p >= n
  BY <1>1, <1>3, <1>4 DEF contains
<1> QED
  BY <1>1, <1>5, <1>6, <1>7, <1>8 DEF n, p

\* No split: the half the new entry belongs to is full, so the other vector has
\* no items.
LEMMA RevertSplitHasAnEmptyHalf ==
  ASSUME IInv, RevertSplit
  PROVE  \/ buckets[Len(buckets)].entries.length = 0
         \/ splitting.drained_upper_nodes.length = 0
<1> USE IdBitsAssumption, FixedVecAssumption
<1> DEFINE n       == Len(buckets)
           v       == buckets[n].entries
           drained == splitting.drained_upper_nodes
           p       == prefixLength(splitting.new_entry.node.id)
<1>1. /\ splitting \in SplitInProgress /\ SplitIndex = n /\ n \in 1 .. IdBits - 1
      /\ splitting.new_entry.node.id \in NodeId
      /\ HoldsItsOwn(v, n, n) /\ IsSplitOf(splitting, v, n)
      /\ ~ GoesToLower /\ ~ GoesToUpper
  BY LoopFacts DEF RevertSplit, Drained
<1>2. /\ v.length \in 0 .. BUCKET_SIZE /\ drained.length \in 0 .. BUCKET_SIZE
      /\ v.length + drained.length = BUCKET_SIZE
  BY <1>1, SplitFacts
<1>3. p \in 0 .. IdBits
  BY <1>1, PrefixFacts
<1>4. p < n => v.length = BUCKET_SIZE
  BY <1>1, <1>2, DrainedFacts DEF RevertSplit, GoesToLower, is_not_full
<1>5. p >= n => drained.length = BUCKET_SIZE
  BY <1>1, <1>2, DrainedFacts DEF RevertSplit, GoesToUpper, is_not_full
<1> QED
  BY <1>1, <1>2, <1>3, <1>4, <1>5

\* append returns the vector that has the items.
LEMMA RevertSplitKeeps ==
  ASSUME IInv, RevertSplit
  PROVE  IInv'
<1> USE IdBitsAssumption, FixedVecAssumption
<1> DEFINE n       == Len(buckets)
           v       == buckets[n].entries
           drained == splitting.drained_upper_nodes
           w       == append(v, drained)
<1>1. /\ splitting \in SplitInProgress /\ SplitIndex = n /\ n \in 1 .. IdBits - 1
      /\ n \in DOMAIN buckets
      /\ HoldsItsOwn(v, n, n) /\ IsSplitOf(splitting, v, n)
      /\ panicked = NoPanic
  BY LoopFacts DEF RevertSplit, Drained
<1>2. /\ buckets' = [buckets EXCEPT ![n].entries = w]
      /\ splitting' = NoSplit /\ UNCHANGED panicked
  BY <1>1 DEF RevertSplit
<1>3. WellFormed(v) /\ WellFormed(drained) /\ Distinct(drained)
  BY <1>1, SplitFacts
<1>4. w = v \/ w = drained
  BY <1>3, RevertSplitHasAnEmptyHalf, AppendFacts
<1>5. HoldsItsOwn(drained, n, n)
  <2>1. \A k \in Occupied(drained) :
          /\ prefixLength(IdAt(drained, k)) >= n
          /\ IdAt(drained, k) # reference_id
          /\ IdAt(drained, k) \in NodeId
    BY <1>1, <1>3, VectorFacts DEF IsSplitOf, GoesUp
  <2>2. \A k \in Occupied(drained) : Place(IdAt(drained, k), n) = n
    BY <1>1, <2>1, PrefixFacts DEF Place
  <2> QED
    BY <1>3, <2>1, <2>2 DEF HoldsItsOwn
<1> HIDE DEF n, w
<1>6. HoldsItsOwn(w, n, n)
  BY <1>1, <1>4, <1>5
<1>7. buckets' \in Seq(Bucket) /\ Bounds' /\ BucketsHoldTheirOwn'
  BY <1>1, <1>2, <1>6, OneBucketKeeps DEF IInv, n
<1> QED
  BY <1>1, <1>2, <1>7 DEF IInv, TypeOK, SplitOfLast

\* A split of the last bucket: it stays with the lower entries, and one with
\* the upper entries follows it.
LEMMA SplitIntoFacts ==
  ASSUME IInv, splitting # NoSplit, NEW lower \in Vectors, NEW upper \in Vectors,
         SplitInto(lower, upper)
  PROVE  LET n == Len(buckets)
         IN  /\ buckets' \in Seq(Bucket) /\ Len(buckets') = n + 1
             /\ DOMAIN buckets' = 1 .. n + 1
             /\ \A k \in 1 .. n - 1 : buckets'[k] = buckets[k]
             /\ buckets'[n] = [entries |-> lower, bounds |-> [start |-> n - 1, end |-> n]]
             /\ buckets'[n + 1] = [entries |-> upper,
                                   bounds  |-> [start |-> n, end |-> IdBits]]
             /\ splitting' = NoSplit /\ panicked' = NoPanic
<1> USE IdBitsAssumption
<1> DEFINE n      == Len(buckets)
           a      == [entries |-> lower, bounds |-> lower_bounds(buckets[n].bounds)]
           b      == [entries |-> upper, bounds |-> upper_bounds(buckets[n].bounds)]
           before == SubSeq(buckets, 1, n - 1)
           behind == SubSeq(buckets, n + 1, n)
           pair   == <<a, b>>
<1>1. /\ SplitIndex = n /\ n \in 1 .. IdBits - 1
      /\ buckets[n].bounds = [start |-> n - 1, end |-> IdBits]
      /\ panicked = NoPanic
  BY LoopFacts
<1>2. /\ buckets' = (before \o pair) \o behind
      /\ splitting' = NoSplit /\ panicked' = NoPanic
  BY <1>1 DEF SplitInto
<1>3. /\ a = [entries |-> lower, bounds |-> [start |-> n - 1, end |-> n]]
      /\ b = [entries |-> upper, bounds |-> [start |-> n, end |-> IdBits]]
  BY <1>1 DEF lower_bounds, upper_bounds
<1>4. a \in Bucket /\ b \in Bucket
  BY <1>1, <1>3 DEF Bucket
<1> HIDE DEF a, b
<1>5. pair \in Seq(Bucket) /\ Len(pair) = 2 /\ pair[1] = a /\ pair[2] = b
  BY <1>4
<1>6. \A k \in 1 .. n : buckets[k] \in Bucket
  BY BucketFacts DEF IInv
<1> HIDE DEF pair, n
<1>7. /\ before \in Seq(Bucket) /\ Len(before) = n - 1
      /\ \A k \in 1 .. n - 1 : before[k] = buckets[k]
  <2>1. /\ before \in Seq(Bucket)
        /\ Len(before) = IF 1 <= n - 1 THEN n - 1 - 1 + 1 ELSE 0
        /\ \A k \in 1 .. n - 1 - 1 + 1 : before[k] = buckets[1 + k - 1]
    <3>1. 1 \in Int /\ n - 1 \in Int /\ \A k \in 1 .. n - 1 : buckets[k] \in Bucket
      BY <1>1, <1>6
    <3> QED
      BY <3>1, SubSeqProperties
  <2> QED
    BY <1>1, <2>1
<1>8. behind = <<>>
  BY <1>1, SubSeqEmpty
<1> HIDE DEF before, behind
<1>9. /\ before \o pair \in Seq(Bucket) /\ Len(before \o pair) = n + 1
      /\ \A k \in 1 .. n + 1 : (before \o pair)[k] =
           IF k <= n - 1 THEN buckets[k] ELSE pair[k - (n - 1)]
  <2>1. /\ before \o pair \in Seq(Bucket)
        /\ Len(before \o pair) = Len(before) + Len(pair)
        /\ \A k \in 1 .. Len(before) + Len(pair) : (before \o pair)[k] =
             IF k <= Len(before) THEN before[k] ELSE pair[k - Len(before)]
    BY <1>5, <1>7, ConcatProperties
  <2> QED
    BY <1>1, <1>5, <1>7, <2>1
<1>10. buckets' = before \o pair
  BY <1>2, <1>8, <1>9, ConcatEmptySeq
<1>11. /\ \A k \in 1 .. n - 1 : buckets'[k] = buckets[k]
       /\ buckets'[n] = a /\ buckets'[n + 1] = b
  <2>1. \A k \in 1 .. n - 1 : k \in 1 .. n + 1 /\ k <= n - 1
    BY <1>1
  <2>2. /\ n \in 1 .. n + 1 /\ ~ (n <= n - 1) /\ n - (n - 1) = 1
        /\ n + 1 \in 1 .. n + 1 /\ ~ (n + 1 <= n - 1) /\ n + 1 - (n - 1) = 2
    BY <1>1
  <2>3. \A k \in 1 .. n - 1 : buckets'[k] = buckets[k]
    BY <1>9, <1>10, <2>1
  <2> DEFINE all == before \o pair
  <2>4. \A k \in 1 .. n + 1 : ~ (k <= n - 1) => all[k] = pair[k - (n - 1)]
    BY <1>9
  <2> HIDE DEF all, pair, n
  <2>5. all[n] = pair[1] /\ all[n + 1] = pair[2]
    BY <2>2, <2>4
  <2>6. buckets'[n] = pair[1] /\ buckets'[n + 1] = pair[2]
    BY <1>10, <2>5 DEF all
  <2> QED
    BY <1>5, <2>3, <2>6
<1>12. DOMAIN buckets' = 1 .. n + 1
  BY <1>9, <1>10, LenProperties
<1> QED
  BY <1>2, <1>3, <1>9, <1>10, <1>11, <1>12 DEF n

\* It keeps the invariant if either half gets entries that belong to it.
LEMMA SplitIntoKeeps ==
  ASSUME IInv, splitting # NoSplit, NEW lower, NEW upper, SplitInto(lower, upper),
         HoldsItsOwn(lower, Len(buckets), Len(buckets) + 1),
         HoldsItsOwn(upper, Len(buckets) + 1, Len(buckets) + 1)
  PROVE  IInv'
<1> USE IdBitsAssumption
<1> DEFINE n == Len(buckets)
<1>1. lower \in Vectors /\ upper \in Vectors
  BY DEF HoldsItsOwn, WellFormed
<1>2. n \in 1 .. IdBits - 1 /\ DOMAIN buckets = 1 .. n
  BY LoopFacts, BucketFacts DEF IInv
<1>3. /\ buckets' \in Seq(Bucket) /\ Len(buckets') = n + 1
      /\ DOMAIN buckets' = 1 .. n + 1
      /\ \A k \in 1 .. n - 1 : buckets'[k] = buckets[k]
      /\ buckets'[n] = [entries |-> lower, bounds |-> [start |-> n - 1, end |-> n]]
      /\ buckets'[n + 1] = [entries |-> upper,
                            bounds  |-> [start |-> n, end |-> IdBits]]
      /\ splitting' = NoSplit /\ panicked' = NoPanic
  BY <1>1, SplitIntoFacts
<1>4. n = Len(buckets)
  OBVIOUS
<1> HIDE DEF n
<1>5. Bounds'
  <2>1. ASSUME NEW k \in 1 .. n + 1
        PROVE  buckets'[k].bounds =
                 [start |-> k - 1, end |-> IF k = n + 1 THEN IdBits ELSE k]
    <3>1. CASE k \in 1 .. n - 1
      <4>1. buckets[k].bounds = [start |-> k - 1, end |-> IF k = n THEN IdBits ELSE k]
        <5>1. k \in DOMAIN buckets
          BY <1>2, <3>1
        <5> QED
          BY <1>4, <5>1, Zenon DEF IInv, Bounds
      <4>2. k # n /\ k # n + 1 /\ buckets'[k] = buckets[k]
        BY <1>2, <1>3, <3>1
      <4> QED
        BY <4>1, <4>2
    <3>2. CASE k = n
      <4>1. n # n + 1
        BY <1>2
      <4> QED
        BY <1>3, <3>2, <4>1
    <3>3. CASE k = n + 1
      <4>1. k - 1 = n
        BY <1>2, <3>3
      <4> QED
        BY <1>3, <3>3, <4>1
    <3> QED
      BY <1>2, <3>1, <3>2, <3>3
  <2>2. n + 1 \in 1 .. IdBits
    BY <1>2
  <2> QED
    BY <1>3, <2>1, <2>2 DEF Bounds
<1>6. BucketsHoldTheirOwn'
  <2>1. ASSUME NEW k \in 1 .. n - 1
        PROVE  HoldsItsOwn(buckets[k].entries, k, n + 1)
    <3> DEFINE v == buckets[k].entries
    <3>1. HoldsItsOwn(v, k, n)
      <4>1. k \in DOMAIN buckets
        BY <1>2, <2>1
      <4> QED
        BY <1>4, <4>1 DEF IInv, BucketsHoldTheirOwn
    <3>2. ASSUME NEW j \in Occupied(v) PROVE Place(IdAt(v, j), n + 1) = k
      <4>1. IdAt(v, j) \in NodeId /\ Place(IdAt(v, j), n) = k
        BY <3>1, VectorFacts DEF HoldsItsOwn
      <4>2. prefixLength(IdAt(v, j)) \in 0 .. IdBits
        BY <4>1, PrefixFacts
      <4>3. k # n
        BY <1>2, <2>1
      <4> DEFINE p == prefixLength(IdAt(v, j))
      <4>4. (IF p < n THEN p + 1 ELSE n) = k
        BY <4>1 DEF Place
      <4>5. (IF p < n + 1 THEN p + 1 ELSE n + 1) = k
        <5> HIDE DEF p, v
        <5> QED
          BY <1>2, <4>2, <4>3, <4>4 DEF p
      <4> QED
        BY <4>5 DEF Place
    <3> QED
      BY <3>1, <3>2 DEF HoldsItsOwn
  <2>2. ASSUME NEW k \in 1 .. n + 1
        PROVE  HoldsItsOwn(buckets'[k].entries, k, n + 1)
    <3>1. CASE k \in 1 .. n - 1
      BY <1>3, <2>1, <3>1
    <3>2. CASE k = n
      BY <1>3, <1>4, <3>2
    <3>3. CASE k = n + 1
      BY <1>3, <1>4, <3>3
    <3> QED
      BY <1>2, <3>1, <3>2, <3>3
  <2> QED
    BY <1>3, <2>2 DEF BucketsHoldTheirOwn
<1> QED
  BY <1>3, <1>5, <1>6 DEF IInv, TypeOK, SplitOfLast

\* The new entry goes to the lower half.
LEMMA SplitLowerKeeps ==
  ASSUME IInv, SplitLower
  PROVE  IInv'
<1> USE IdBitsAssumption, FixedVecAssumption
<1> DEFINE n       == Len(buckets)
           v       == buckets[n].entries
           drained == splitting.drained_upper_nodes
           e       == splitting.new_entry
           lower   == push(v, e)
<1>1. /\ splitting \in SplitInProgress /\ splitting # NoSplit
      /\ SplitIndex = n /\ n \in 1 .. IdBits - 1
      /\ e \in RoutingEntry /\ e.node.id \in NodeId
      /\ HoldsItsOwn(v, n, n) /\ IsSplitOf(splitting, v, n)
  BY LoopFacts DEF SplitLower, Drained
<1>2. /\ WellFormed(v) /\ Distinct(v) /\ WellFormed(drained) /\ Distinct(drained)
      /\ e.node.id # reference_id
  BY <1>1, SplitFacts
<1>3. append(new, drained) = drained
  BY <1>2, AppendFacts, NewFacts
<1>4. v.length < BUCKET_SIZE /\ SplitInto(lower, drained)
  BY <1>1, <1>3 DEF SplitLower, GoesToLower, is_not_full
<1>5. /\ prefixLength(e.node.id) < n
      /\ \A j \in Occupied(v) : prefixLength(IdAt(v, j)) < n
  BY <1>1, DrainedFacts DEF SplitLower, GoesToLower
<1>6. /\ \A j \in Occupied(v) : IdAt(v, j) # e.node.id
      /\ \A k \in Occupied(drained) :
           prefixLength(IdAt(drained, k)) >= n /\ IdAt(drained, k) # reference_id
  BY <1>1 DEF IsSplitOf, StaysInLower, GoesUp
<1> HIDE DEF n, v, drained, e
<1>7. \A id \in NodeId :
        /\ Place(id, n) = n /\ prefixLength(id) < n => Place(id, n + 1) = n
        /\ prefixLength(id) >= n => Place(id, n + 1) = n + 1
  <2> TAKE id \in NodeId
  <2>1. prefixLength(id) \in 0 .. IdBits
    BY PrefixFacts
  <2> QED
    BY <1>1, <2>1 DEF Place
<1>8. HoldsItsOwn(v, n, n + 1)
  <2>1. \A j \in Occupied(v) :
          /\ IdAt(v, j) \in NodeId /\ IdAt(v, j) # reference_id
          /\ Place(IdAt(v, j), n) = n
    BY <1>1, <1>2, VectorFacts DEF HoldsItsOwn
  <2> QED
    BY <1>2, <1>5, <1>7, <2>1 DEF HoldsItsOwn
<1>9. HoldsItsOwn(lower, n, n + 1)
  <2>1. Place(e.node.id, n + 1) = n
    <3>1. Place(e.node.id, n) = n
      BY <1>1 DEF IsSplitOf, e
    <3> QED
      BY <1>1, <1>5, <1>7, <3>1
  <2> QED
    BY <1>1, <1>2, <1>4, <1>6, <1>8, <2>1, PushKeepsOwn
<1>10. HoldsItsOwn(drained, n + 1, n + 1)
  <2>1. \A k \in Occupied(drained) : IdAt(drained, k) \in NodeId
    BY <1>2, VectorFacts
  <2> QED
    BY <1>2, <1>6, <1>7, <2>1 DEF HoldsItsOwn
<1> HIDE DEF lower
<1> QED
  BY <1>1, <1>4, <1>9, <1>10, SplitIntoKeeps DEF n

\* The new entry goes to the upper half.
LEMMA SplitUpperKeeps ==
  ASSUME IInv, SplitUpper
  PROVE  IInv'
<1> USE IdBitsAssumption, FixedVecAssumption
<1> DEFINE n       == Len(buckets)
           v       == buckets[n].entries
           drained == splitting.drained_upper_nodes
           e       == splitting.new_entry
           upper   == push(drained, e)
<1>1. /\ splitting \in SplitInProgress /\ splitting # NoSplit
      /\ SplitIndex = n /\ n \in 1 .. IdBits - 1
      /\ e \in RoutingEntry /\ e.node.id \in NodeId
      /\ HoldsItsOwn(v, n, n) /\ IsSplitOf(splitting, v, n)
  BY LoopFacts DEF SplitUpper, Drained
<1>2. /\ WellFormed(v) /\ Distinct(v) /\ WellFormed(drained) /\ Distinct(drained)
      /\ e.node.id # reference_id
  BY <1>1, SplitFacts
<1>3. append(new, drained) = drained
  BY <1>2, AppendFacts, NewFacts
<1>4. drained.length < BUCKET_SIZE /\ SplitInto(v, upper)
  BY <1>1, <1>3 DEF SplitUpper, GoesToUpper, is_not_full
<1>5. /\ prefixLength(e.node.id) >= n
      /\ \A j \in Occupied(v) : prefixLength(IdAt(v, j)) < n
  BY <1>1, DrainedFacts DEF SplitUpper, GoesToUpper
<1>6. \A k \in Occupied(drained) :
        /\ prefixLength(IdAt(drained, k)) >= n /\ IdAt(drained, k) # reference_id
        /\ IdAt(drained, k) # e.node.id
  BY <1>1 DEF IsSplitOf, GoesUp
<1> HIDE DEF n, v, drained, e
<1>7. \A id \in NodeId :
        /\ Place(id, n) = n /\ prefixLength(id) < n => Place(id, n + 1) = n
        /\ prefixLength(id) >= n => Place(id, n + 1) = n + 1
  <2> TAKE id \in NodeId
  <2>1. prefixLength(id) \in 0 .. IdBits
    BY PrefixFacts
  <2> QED
    BY <1>1, <2>1 DEF Place
<1>8. HoldsItsOwn(v, n, n + 1)
  <2>1. \A j \in Occupied(v) :
          /\ IdAt(v, j) \in NodeId /\ IdAt(v, j) # reference_id
          /\ Place(IdAt(v, j), n) = n
    BY <1>1, <1>2, VectorFacts DEF HoldsItsOwn
  <2> QED
    BY <1>2, <1>5, <1>7, <2>1 DEF HoldsItsOwn
<1>9. HoldsItsOwn(drained, n + 1, n + 1)
  <2>1. \A k \in Occupied(drained) : IdAt(drained, k) \in NodeId
    BY <1>2, VectorFacts
  <2> QED
    BY <1>2, <1>6, <1>7, <2>1 DEF HoldsItsOwn
<1>10. HoldsItsOwn(upper, n + 1, n + 1)
  BY <1>1, <1>2, <1>4, <1>5, <1>6, <1>7, <1>9, PushKeepsOwn
<1> HIDE DEF upper
<1> QED
  BY <1>1, <1>4, <1>8, <1>10, SplitIntoKeeps DEF n

-----------------------------------------------------------------------------
\* Time passes.

\* Entries grow older in their slots.
LEMMA OlderFacts ==
  ASSUME NEW v, WellFormed(v)
  PROVE  LET w == OlderEntries(v)
         IN  /\ WellFormed(w) /\ w.length = v.length /\ Occupied(w) = Occupied(v)
             /\ \A j \in Occupied(v) :
                  /\ w.data[j].node = v.data[j].node
                  /\ w.data[j].last_query = Older(v.data[j].last_query)
                  /\ w.data[j].last_response = Older(v.data[j].last_response)
<1> DEFINE w == OlderEntries(v)
           older(e) == [e EXCEPT !.last_query    = Older(@),
                                 !.last_response = Older(@)]
<1>1. /\ v.length \in 0 .. BUCKET_SIZE
      /\ v.data \in [Slot -> RoutingEntry \cup {Uninit}]
      /\ v = [data |-> v.data, length |-> v.length]
      /\ \A j \in Occupied(v) : v.data[j] \in RoutingEntry
  BY VectorFacts
<1>2. \A e \in RoutingEntry :
        /\ older(e) \in RoutingEntry /\ older(e).node = e.node
        /\ older(e).last_query = Older(e.last_query)
        /\ older(e).last_response = Older(e.last_response)
  <2>1. \A age \in Instant \cup {Never} : Older(age) \in Instant \cup {Never}
    <3>1. StaleAge \in Nat
      BY RustTableAssumption DEF StaleAge
    <3> QED
      BY <3>1 DEF Older, Instant
  <2> QED
    BY <2>1 DEF RoutingEntry
<1>3. /\ w.length = v.length
      /\ w.data = [j \in Slot |-> IF v.data[j] = Uninit THEN Uninit ELSE older(v.data[j])]
      /\ w = [data |-> w.data, length |-> w.length]
  <2> DEFINE data == [j \in Slot |-> IF v.data[j] = Uninit THEN Uninit
                                      ELSE older(v.data[j])]
  <2>1. w = [v EXCEPT !.data = data]
    BY DEF OlderEntries
  <2>2. [v EXCEPT !.data = data] = [data |-> data, length |-> v.length]
    <3> HIDE DEF data
    <3> QED
      BY <1>1
  <2> HIDE DEF w
  <2> QED
    BY <2>1, <2>2
<1> HIDE DEF w, older
<1>4. w.data \in [Slot -> RoutingEntry \cup {Uninit}]
  BY <1>1, <1>2, <1>3
<1>5. w \in Vectors
  BY <1>1, <1>3, <1>4 DEF Vectors
<1>6. \A j \in Slot : w.data[j] # Uninit <=> v.data[j] # Uninit
  BY <1>1, <1>2, <1>3, RustTableAssumption
<1>7. WellFormed(w)
  BY <1>1, <1>3, <1>5, <1>6 DEF WellFormed
<1>8. Occupied(w) = Occupied(v)
  BY <1>3 DEF Occupied
<1>9. \A j \in Occupied(v) : w.data[j] = older(v.data[j])
  <2>1. \A j \in Occupied(v) : j \in Slot /\ v.data[j] # Uninit
    BY DEF WellFormed, Occupied
  <2> QED
    BY <1>3, <2>1
<1> QED
  BY <1>1, <1>2, <1>3, <1>7, <1>8, <1>9 DEF w

\* No identifier changes.
LEMMA TickKeeps ==
  ASSUME IInv, Tick
  PROVE  IInv'
<1>1. /\ buckets' = [n \in DOMAIN buckets |->
                       [buckets[n] EXCEPT !.entries = OlderEntries(@)]]
      /\ UNCHANGED <<splitting, panicked>> /\ splitting = NoSplit
  BY DEF Tick, Idle
<1>2. /\ Len(buckets) \in Nat /\ DOMAIN buckets = 1 .. Len(buckets)
      /\ \A n \in DOMAIN buckets : buckets[n] \in Bucket
  BY BucketFacts DEF IInv
<1>3. \A n \in DOMAIN buckets :
        /\ buckets'[n].entries = OlderEntries(buckets[n].entries)
        /\ buckets'[n].bounds = buckets[n].bounds
        /\ OlderEntries(buckets[n].entries) \in Vectors => buckets'[n] \in Bucket
  BY <1>1, <1>2 DEF Bucket
<1>4. ASSUME NEW n \in DOMAIN buckets
      PROVE  HoldsItsOwn(OlderEntries(buckets[n].entries), n, Len(buckets))
  <2> DEFINE v == buckets[n].entries
             w == OlderEntries(v)
  <2>1. HoldsItsOwn(v, n, Len(buckets))
    BY DEF IInv, BucketsHoldTheirOwn
  <2>2. /\ WellFormed(w) /\ Occupied(w) = Occupied(v)
        /\ \A j \in Occupied(v) : w.data[j].node = v.data[j].node
    BY <2>1, OlderFacts DEF HoldsItsOwn
  <2> HIDE DEF w, v
  <2>3. \A j \in Occupied(v) : IdAt(w, j) = IdAt(v, j)
    BY <2>2 DEF IdAt
  <2>4. HoldsItsOwn(w, n, Len(buckets))
    BY <2>1, <2>2, <2>3 DEF HoldsItsOwn, Distinct
  <2> QED
    BY <2>4 DEF w, v
<1>5. /\ buckets' \in Seq(Bucket) /\ Len(buckets') = Len(buckets)
      /\ DOMAIN buckets' = DOMAIN buckets
  <2>1. \A n \in DOMAIN buckets : buckets'[n] \in Bucket
    BY <1>3, <1>4 DEF HoldsItsOwn, WellFormed
  <2>2. buckets' = [n \in 1 .. Len(buckets) |-> buckets'[n]]
    BY <1>1, <1>2
  <2>3. buckets' \in [1 .. Len(buckets) -> Bucket]
    BY <1>2, <2>1, <2>2
  <2>4. buckets' \in Seq(Bucket)
    BY <1>2, <2>3, SeqDef
  <2> QED
    BY <1>1, <1>2, <2>3, <2>4, LenProperties
<1>6. Bounds'
  BY <1>3, <1>5 DEF IInv, Bounds
<1>7. BucketsHoldTheirOwn'
  BY <1>3, <1>4, <1>5 DEF BucketsHoldTheirOwn
<1> QED
  BY <1>1, <1>5, <1>6, <1>7 DEF IInv, TypeOK, SplitOfLast

-----------------------------------------------------------------------------
\* The invariant, and what follows from it.

LEMMA IInvInit == Init => IInv
<1> USE IdBitsAssumption
<1> SUFFICES ASSUME Init PROVE IInv
  OBVIOUS
<1>1. /\ buckets = <<[entries |-> new, bounds |-> [start |-> 0, end |-> IdBits]]>>
      /\ splitting = NoSplit /\ panicked = NoPanic
  BY DEF Init, newBucket
<1>2. WellFormed(new) /\ Distinct(new) /\ Occupied(new) = {} /\ new \in Vectors
  BY NewFacts DEF WellFormed
<1>3. /\ [entries |-> new, bounds |-> [start |-> 0, end |-> IdBits]] \in Bucket
      /\ Len(buckets) = 1 /\ DOMAIN buckets = {1}
      /\ buckets[1].entries = new
      /\ buckets[1].bounds = [start |-> 0, end |-> IdBits]
  BY <1>1, <1>2 DEF Bucket
<1>4. TypeOK
  BY <1>1, <1>3 DEF TypeOK
<1>5. Bounds
  BY <1>3 DEF Bounds
<1>6. BucketsHoldTheirOwn
  BY <1>2, <1>3 DEF BucketsHoldTheirOwn, HoldsItsOwn
<1> QED
  BY <1>1, <1>4, <1>5, <1>6 DEF IInv, SplitOfLast

LEMMA IInvNext == IInv /\ [Next]_vars => IInv'
<1> SUFFICES ASSUME IInv, [Next]_vars PROVE IInv'
  OBVIOUS
<1>1. CASE \E node \in Contacts, seen_in \in SeenIn : update(node, seen_in)
  <2>1. PICK node \in Contacts, seen_in \in SeenIn : update(node, seen_in)
    BY <1>1
  <2> QED
    BY <2>1, UpdateKnownKeeps, InsertIntoSlotKeeps, ReplaceBadKeeps, StartSplitKeeps,
       UpdateWithoutEntryKeeps
       DEF update
<1>2. CASE splitLoop
  BY <1>2, KeepInLowerKeeps, DrainToUpperKeeps, SplitLowerKeeps, SplitUpperKeeps,
     RevertSplitKeeps
     DEF splitLoop
<1>3. CASE Tick
  BY <1>3, TickKeeps
<1>4. CASE UNCHANGED vars
  BY <1>4 DEF vars, IInv, TypeOK, Bounds, BucketsHoldTheirOwn, SplitOfLast
<1> QED
  BY <1>1, <1>2, <1>3, <1>4 DEF Next

\* The buckets' own facts hold in every reachable state, in the loop too.
THEOREM RustTableInvariant == Spec => []IInv
BY IInvInit, IInvNext, PTL DEF Spec

\* The bounds of the buckets cover all prefix lengths once, however many splits
\* of RoutingTable::update there were, and whatever ended them.
THEOREM BoundsAlwaysTile == Spec => []BoundsTile
<1>1. ASSUME IInv PROVE BoundsTile
  <2> USE IdBitsAssumption
  <2> DEFINE m == Len(buckets)
  <2>1. m \in 1 .. IdBits /\ DOMAIN buckets = 1 .. m
    BY <1>1, BucketFacts DEF IInv, Bounds
  <2>2. \A n \in 1 .. m : /\ buckets[n].bounds.start = n - 1
                          /\ buckets[n].bounds.end = IF n = m THEN IdBits ELSE n
    <3> TAKE n \in 1 .. m
    <3>1. buckets[n].bounds = [start |-> n - 1, end |-> IF n = m THEN IdBits ELSE n]
      BY <1>1, <2>1 DEF IInv, Bounds
    <3> QED
      BY <3>1
  <2>3. buckets # <<>>
    BY <2>1
  <2>4. m = Len(buckets)
    OBVIOUS
  <2> HIDE DEF m
  <2>5. buckets[1].bounds.start = 0 /\ buckets[m].bounds.end = IdBits
    BY <2>1, <2>2
  <2>6. ASSUME NEW n \in 1 .. m - 1
        PROVE  /\ buckets[n].bounds.end = buckets[n + 1].bounds.start
               /\ buckets[n].bounds.end = buckets[n].bounds.start + 1
    <3>1. n \in 1 .. m /\ n + 1 \in 1 .. m /\ n # m /\ n + 1 - 1 = n /\ n - 1 + 1 = n
      BY <2>1, <2>6
    <3> QED
      BY <2>2, <3>1
  <2> QED
    BY <2>3, <2>4, <2>5, <2>6 DEF BoundsTile
<1> QED
  BY <1>1, RustTableInvariant, PTL

\* No vector of the table, nor the one a split drains into, ever has an entry
\* above its length or a slot without one below it: append never writes over
\* an entry (FixedVec.append, fixed_vec.rs).
THEOREM NothingIsReadUninitialized == Spec => []SlotsBelowLengthHoldEntries
<1>1. ASSUME IInv PROVE SlotsBelowLengthHoldEntries
  <2>1. \A n \in DOMAIN buckets : WellFormed(buckets[n].entries)
    BY <1>1 DEF IInv, BucketsHoldTheirOwn, HoldsItsOwn
  <2>2. splitting # NoSplit => WellFormed(splitting.drained_upper_nodes)
    BY <1>1 DEF IInv, SplitOfLast, IsSplitOf, GoesUp
  <2> QED
    BY <2>1, <2>2 DEF SlotsBelowLengthHoldEntries, WellFormed
<1> QED
  BY <1>1, RustTableInvariant, PTL

\* None of the assertions of push, swap_remove and append fails where update
\* calls them.
THEOREM VectorsAreUsedWithinBounds == Spec => []VectorAssertionsHold
<1>1. ASSUME IInv PROVE VectorAssertionsHold
  <2> DEFINE n       == Len(buckets)
             v       == buckets[n].entries
             drained == splitting.drained_upper_nodes
  <2>1. ASSUME splitting # NoSplit
        PROVE  /\ SplitIndex = n
               /\ v.length \in 0 .. BUCKET_SIZE /\ drained.length \in 0 .. BUCKET_SIZE
               /\ v.length + drained.length = BUCKET_SIZE
               /\ splitting.i \in 0 .. v.length
    <3>1. /\ splitting \in SplitInProgress /\ SplitIndex = n
          /\ HoldsItsOwn(v, n, n) /\ IsSplitOf(splitting, v, n)
      BY <1>1, <2>1, LoopFacts
    <3> QED
      BY <3>1, SplitFacts
  <2> HIDE DEF n
  <2>2. ASSUME InLoop
        PROVE  IsItem(buckets[SplitIndex].entries, splitting.i) /\ PushFits(drained)
    BY <2>1, <2>2, FixedVecAssumption DEF InLoop, IsItem, PushFits, is_not_full
  <2>3. ASSUME Drained
        PROVE  AppendFits(buckets[SplitIndex].entries, drained)
    BY <2>1, <2>3, FixedVecAssumption DEF Drained, AppendFits, empty_slots
  <2> QED
    BY <2>2, <2>3 DEF VectorAssertionsHold
<1> QED
  BY <1>1, RustTableInvariant, PTL

\* The panic that "should never happen" (main.rs:281, main.rs:348) happens for
\* the node's own identifier and for no other, whatever was split.
THEOREM OnlyTheOwnIdentifierPanics == Spec => []OnlyOwnIdPanics
<1>1. ASSUME IInv PROVE OnlyOwnIdPanics
  <2>1. \A id \in NodeId : HasBucket(id) <=> id # reference_id
    BY <1>1, PlaceFacts DEF IInv
  <2>2. panicked \in {NoPanic, reference_id}
    BY <1>1 DEF IInv
  <2> QED
    BY <2>1, <2>2 DEF OnlyOwnIdPanics
<1> QED
  BY <1>1, RustTableInvariant, PTL

\* Between two calls of update, RoutingTable::find gives an exact answer for an
\* identifier exactly if some bucket has an entry for it, and gives that entry:
\* it looks into one bucket only, and no split leaves an entry elsewhere.
THEOREM EntriesAreAlwaysFound == Spec => []EntriesAreFound
<1>1. ASSUME IInv PROVE EntriesAreFound
  <2> DEFINE Known(id) == {n \in Nodes : n.id = id}
  <2> SUFFICES ASSUME Idle, NEW id \in Others
               PROVE  IF Known(id) = {} THEN ~ find(id).exact
                      ELSE /\ find(id).exact
                           /\ Len(find(id).nodes) = 1 /\ find(id).nodes[1] \in Known(id)
    BY DEF EntriesAreFound
  <2> DEFINE n     == bucketIndex(id)
             v     == buckets[n].entries
             at    == PositionsOf(v, id)
             found == find(id)
             known == Known(id)
  <2>1. /\ id \in NodeId /\ n \in DOMAIN buckets
        /\ n = Place(id, Len(buckets))
        /\ HoldsItsOwn(v, n, Len(buckets))
    BY <1>1, PlaceFacts DEF Others, IInv, BucketsHoldTheirOwn
  <2>2. Entries = UNION {EntriesIn(buckets[k].entries) : k \in DOMAIN buckets}
    BY DEF Idle, Entries
  <2>3. ASSUME NEW p \in at PROVE v.data[p].node \in known
    <3>1. p \in Slot /\ p < v.length /\ v.data[p].node.id = id
      BY DEF PositionsOf
    <3>2. v.data[p] \in EntriesIn(v)
      BY <3>1 DEF EntriesIn
    <3>3. v.data[p] \in Entries
      BY <2>1, <2>2, <3>2
    <3> QED
      BY <3>1, <3>3 DEF Nodes
  <2>4. ASSUME NEW node \in known PROVE at # {}
    <3>1. PICK e \in Entries : node = e.node /\ e.node.id = id
      BY DEF Nodes
    <3>2. PICK k \in DOMAIN buckets : e \in EntriesIn(buckets[k].entries)
      BY <2>2
    <3>3. PICK j \in Occupied(buckets[k].entries) : e = buckets[k].entries.data[j]
      BY <3>2 DEF EntriesIn, Occupied
    <3>4. Place(IdAt(buckets[k].entries, j), Len(buckets)) = k
      BY <1>1 DEF IInv, BucketsHoldTheirOwn, HoldsItsOwn
    <3>5. IdAt(buckets[k].entries, j) = id
      BY <3>1, <3>3 DEF IdAt
    <3>6. k = n
      BY <2>1, <3>4, <3>5
    <3> HIDE DEF n
    <3>7. j \in at
      BY <3>3, <3>5, <3>6 DEF PositionsOf, Occupied, IdAt
    <3> QED
      BY <3>7
  <2>5. ASSUME at = {} PROVE known = {} /\ ~ found.exact
    <3>1. ~ found.exact
      BY <2>5 DEF find
    <3>2. known = {}
      BY <2>4, <2>5
    <3> QED
      BY <3>1, <3>2
  <2>6. ASSUME at # {}
        PROVE  /\ known # {} /\ found.exact
               /\ Len(found.nodes) = 1 /\ found.nodes[1] \in known
    <3>1. First(at) \in at
      <4>1. at \in SUBSET Slot
        BY DEF PositionsOf
      <4> HIDE DEF at
      <4> QED
        BY <2>6, <4>1, FirstFacts
    <3>2. found = [exact |-> TRUE, nodes |-> <<v.data[First(at)].node>>]
      BY <2>6 DEF find
    <3>3. found.exact /\ found.nodes = <<v.data[First(at)].node>>
      BY <3>2
    <3>4. v.data[First(at)].node \in known
      BY <2>3, <3>1
    <3> HIDE DEF known, at, v, found
    <3> QED
      BY <3>3, <3>4
  <2> HIDE DEF at, known, found
  <2>7. IF known = {} THEN ~ found.exact
        ELSE found.exact /\ Len(found.nodes) = 1 /\ found.nodes[1] \in known
    BY <2>5, <2>6
  <2> QED
    BY <2>7 DEF known, found
<1> QED
  BY <1>1, RustTableInvariant, PTL

-----------------------------------------------------------------------------
\* find's list of closest nodes.

\* The lists it may return, and has after any number of iterations.
Answer == {r \in Seq(NodeContactInfo) : Len(r) <= BUCKET_SIZE}

NoIdTwice(nodes) ==
  \A j, k \in DOMAIN nodes : nodes[j].id = nodes[k].id => j = k

\* A list that was filled from the buckets of `looked`, each bucket once: it
\* repeats no identifier, and it has all they hold as long as it is not full.
Gathered(result, looked) ==
  /\ NoIdTwice(result)
  /\ \A j \in DOMAIN result : \E i \in looked : \E k \in DOMAIN NodesOf(buckets[i]) :
       result[j] = NodesOf(buckets[i])[k]
  /\ NotFull(result) =>
       \A i \in looked : \A k \in DOMAIN NodesOf(buckets[i]) :
         \E j \in DOMAIN result : result[j] = NodesOf(buckets[i])[k]

\* A bucket as find sees it: the nodes of its entries, by their slots.
LEMMA NodesFacts ==
  ASSUME IInv, NEW i \in DOMAIN buckets
  PROVE  LET nodes == NodesOf(buckets[i])
         IN  /\ nodes \in Answer
             /\ DOMAIN nodes = 1 .. Len(nodes)
             /\ Len(nodes) \in Nat
             /\ NoIdTwice(nodes)
             /\ \A k \in DOMAIN nodes :
                  /\ Place(nodes[k].id, Len(buckets)) = i
                  /\ \E e \in EntriesIn(buckets[i].entries) : nodes[k] = e.node
             /\ \A e \in EntriesIn(buckets[i].entries) :
                  \E k \in DOMAIN nodes : nodes[k] = e.node
<1> DEFINE v     == buckets[i].entries
           nodes == NodesOf(buckets[i])
<1>1. HoldsItsOwn(v, i, Len(buckets))
  BY DEF IInv, BucketsHoldTheirOwn
<1>2. WellFormed(v) /\ Distinct(v)
  BY <1>1 DEF HoldsItsOwn
<1>3. v.length \in 0 .. BUCKET_SIZE
  BY <1>2, FixedVecAssumption DEF WellFormed, Vectors
<1> HIDE DEF v
<1>4. ASSUME NEW k \in 1 .. v.length
      PROVE  /\ k - 1 \in Occupied(v) /\ k - 1 \in Slot /\ k - 1 < v.length
             /\ v.data[k - 1] \in RoutingEntry
             /\ v.data[k - 1].node \in NodeContactInfo
             /\ v.data[k - 1].node.id = IdAt(v, k - 1)
  <2>1. k - 1 \in Slot /\ k - 1 < v.length
    BY <1>3, FixedVecAssumption DEF Slot
  <2>2. v.data[k - 1] \in RoutingEntry
    BY <1>2, <2>1 DEF WellFormed, Vectors
  <2> QED
    BY <2>1, <2>2 DEF Occupied, RoutingEntry, IdAt
<1>5. nodes = [k \in 1 .. v.length |-> v.data[k - 1].node]
  BY DEF NodesOf, as_slice, v
<1> HIDE DEF nodes
<1>6. nodes \in Seq(NodeContactInfo) /\ Len(nodes) = v.length /\ DOMAIN nodes = 1 .. v.length
  BY <1>3, <1>4, <1>5
<1>7. \A k \in DOMAIN nodes : nodes[k] = v.data[k - 1].node
  BY <1>5, <1>6
<1>8. NoIdTwice(nodes)
  <2> SUFFICES ASSUME NEW j \in 1 .. v.length, NEW k \in 1 .. v.length,
                      nodes[j].id = nodes[k].id
               PROVE  j = k
    BY <1>6 DEF NoIdTwice
  <2>1. IdAt(v, j - 1) = IdAt(v, k - 1)
    BY <1>6, <1>7 DEF IdAt
  <2>2. j - 1 = k - 1
    BY <1>2, <1>4, <2>1 DEF Distinct
  <2> QED
    BY <1>3, <2>2
<1>9. ASSUME NEW k \in DOMAIN nodes
      PROVE  /\ Place(nodes[k].id, Len(buckets)) = i
             /\ \E e \in EntriesIn(v) : nodes[k] = e.node
  <2>1. nodes[k] = v.data[k - 1].node /\ k \in 1 .. v.length
    BY <1>6, <1>7
  <2>2. Place(IdAt(v, k - 1), Len(buckets)) = i
    BY <1>1, <1>4, <2>1 DEF HoldsItsOwn
  <2>3. v.data[k - 1] \in EntriesIn(v)
    BY <1>4, <2>1 DEF EntriesIn
  <2> QED
    BY <2>1, <2>2, <2>3 DEF IdAt
<1>10. ASSUME NEW e \in EntriesIn(v)
       PROVE  \E k \in DOMAIN nodes : nodes[k] = e.node
  <2>1. PICK j \in Slot : j < v.length /\ e = v.data[j]
    BY DEF EntriesIn
  <2>2. j + 1 \in 1 .. v.length /\ (j + 1) - 1 = j
    BY <1>3, <2>1 DEF Slot
  <2> QED
    BY <1>6, <1>7, <2>1, <2>2
<1>11. nodes \in Answer
  BY <1>3, <1>6 DEF Answer
<1> QED
  BY <1>3, <1>6, <1>8, <1>9, <1>10, <1>11 DEF v, nodes

\* Taking from one more bucket.
LEMMA TakeFromFacts ==
  ASSUME IInv, NEW result \in Answer, NEW i \in DOMAIN buckets
  PROVE  /\ TakeFrom(result, buckets[i]) \in Answer
         /\ \A looked \in SUBSET (DOMAIN buckets \ {i}) :
              Gathered(result, looked) =>
                Gathered(TakeFrom(result, buckets[i]), looked \cup {i})
<1> DEFINE b    == NodesOf(buckets[i])
           room == BUCKET_SIZE - Len(result)
           new_list == result \o SubSeq(b, 1, IF room < Len(b) THEN room ELSE Len(b))
<1>1. /\ result \in Seq(NodeContactInfo) /\ Len(result) <= BUCKET_SIZE
      /\ Len(result) \in Nat /\ DOMAIN result = 1 .. Len(result) /\ BUCKET_SIZE \in Nat
  BY LenProperties, FixedVecAssumption DEF Answer
<1>2. /\ b \in Seq(NodeContactInfo) /\ Len(b) \in Nat /\ DOMAIN b = 1 .. Len(b)
      /\ NoIdTwice(b) /\ \A k \in DOMAIN b : Place(b[k].id, Len(buckets)) = i
  BY NodesFacts DEF Answer
<1>3. TakeFrom(result, buckets[i]) = new_list
  BY DEF TakeFrom
<1>4. /\ new_list \in Seq(NodeContactInfo)
      /\ Len(new_list) \in Nat /\ Len(result) <= Len(new_list)
      /\ Len(new_list) <= BUCKET_SIZE
      /\ DOMAIN new_list = 1 .. Len(new_list)
      /\ \A j \in 1 .. Len(result) : new_list[j] = result[j]
      /\ \A j \in 1 .. Len(new_list) :
           j > Len(result) => /\ j - Len(result) \in 1 .. Len(b)
                              /\ new_list[j] = b[j - Len(result)]
      /\ Len(new_list) < BUCKET_SIZE => Len(new_list) = Len(result) + Len(b)
  <2> HIDE DEF b
  <2> QED
    BY <1>1, <1>2, FillFacts
<1> HIDE DEF b, new_list, room
<1>5. new_list \in Answer
  BY <1>4 DEF Answer
<1>6. Len(new_list) \in Nat /\ Len(result) <= Len(new_list)
  BY <1>4
<1>7. ASSUME NEW y \in DOMAIN new_list, ~ (y > Len(result))
      PROVE  y \in DOMAIN result /\ new_list[y] = result[y]
  <2>1. y \in 1 .. Len(new_list)
    BY <1>4
  <2>2. y \in 1 .. Len(result)
    BY <1>1, <1>6, <1>7, <2>1
  <2> QED
    BY <1>1, <1>4, <2>2
<1>8. ASSUME NEW y \in DOMAIN result
      PROVE  y \in DOMAIN new_list /\ new_list[y] = result[y]
  <2>1. y \in 1 .. Len(new_list)
    BY <1>1, <1>6
  <2> QED
    BY <1>1, <1>4, <2>1
<1>9. ASSUME NEW looked \in SUBSET (DOMAIN buckets \ {i}), Gathered(result, looked)
      PROVE  Gathered(new_list, looked \cup {i})
  <2>1. ASSUME NEW j \in DOMAIN result
        PROVE  Place(result[j].id, Len(buckets)) # i
    <3>1. PICK x \in looked : \E k \in DOMAIN NodesOf(buckets[x]) :
            result[j] = NodesOf(buckets[x])[k]
      BY <1>9 DEF Gathered
    <3>2. PICK k \in DOMAIN NodesOf(buckets[x]) : result[j] = NodesOf(buckets[x])[k]
      BY <3>1
    <3>3. x \in DOMAIN buckets /\ x # i
      BY <1>9
    <3>4. Place(NodesOf(buckets[x])[k].id, Len(buckets)) = x
      BY <3>3, NodesFacts
    <3> QED
      BY <3>2, <3>3, <3>4
  <2>2. NoIdTwice(new_list)
    <3> SUFFICES ASSUME NEW j \in DOMAIN new_list, NEW k \in DOMAIN new_list,
                        new_list[j].id = new_list[k].id
                 PROVE  j = k
      BY DEF NoIdTwice
    <3>1. ASSUME NEW y \in DOMAIN new_list, y > Len(result)
          PROVE  Place(new_list[y].id, Len(buckets)) = i
      BY <1>2, <1>4, <3>1
    <3>2. ASSUME NEW y \in DOMAIN new_list, ~ (y > Len(result))
          PROVE  Place(new_list[y].id, Len(buckets)) # i
      BY <1>7, <2>1, <3>2
    <3>3. CASE j > Len(result) /\ k > Len(result)
      <4>1. /\ j - Len(result) \in DOMAIN b /\ new_list[j] = b[j - Len(result)]
            /\ k - Len(result) \in DOMAIN b /\ new_list[k] = b[k - Len(result)]
        BY <1>2, <1>4, <3>3
      <4>2. j - Len(result) = k - Len(result)
        BY <1>2, <4>1 DEF NoIdTwice
      <4>3. j \in 1 .. Len(new_list) /\ k \in 1 .. Len(new_list)
        BY <1>4
      <4> QED
        BY <1>1, <1>6, <4>2, <4>3
    <3>4. CASE ~ (j > Len(result)) /\ ~ (k > Len(result))
      <4>1. /\ j \in DOMAIN result /\ new_list[j] = result[j]
            /\ k \in DOMAIN result /\ new_list[k] = result[k]
        BY <1>7, <3>4
      <4> QED
        BY <1>9, <4>1 DEF Gathered, NoIdTwice
    <3> QED
      BY <3>1, <3>2, <3>3, <3>4
  <2>3. ASSUME NEW j \in DOMAIN new_list
        PROVE  \E x \in looked \cup {i} : \E k \in DOMAIN NodesOf(buckets[x]) :
                 new_list[j] = NodesOf(buckets[x])[k]
    <3>1. CASE j > Len(result)
      <4>1. j - Len(result) \in DOMAIN b /\ new_list[j] = b[j - Len(result)]
        BY <1>2, <1>4, <3>1
      <4> QED
        BY <4>1 DEF b
    <3>2. CASE ~ (j > Len(result))
      <4>1. j \in DOMAIN result /\ new_list[j] = result[j]
        BY <1>7, <3>2
      <4> QED
        BY <1>9, <4>1 DEF Gathered
    <3> QED
      BY <3>1, <3>2
  <2>4. ASSUME NotFull(new_list), NEW x \in looked \cup {i},
               NEW k \in DOMAIN NodesOf(buckets[x])
        PROVE  \E j \in DOMAIN new_list : new_list[j] = NodesOf(buckets[x])[k]
    <3>1. Len(new_list) = Len(result) + Len(b)
      BY <1>4, <2>4 DEF NotFull
    <3>2. CASE x = i
      <4>1. k \in 1 .. Len(b) /\ NodesOf(buckets[x])[k] = b[k]
        BY <1>2, <2>4, <3>2 DEF b
      <4>2. /\ Len(result) + k \in 1 .. Len(new_list)
            /\ Len(result) + k > Len(result)
            /\ (Len(result) + k) - Len(result) = k
        BY <1>1, <1>2, <3>1, <4>1
      <4>3. new_list[Len(result) + k] = b[k]
        BY <1>4, <4>2
      <4> QED
        BY <1>4, <4>1, <4>2, <4>3
    <3>3. CASE x # i
      <4>1. x \in looked /\ NotFull(result)
        BY <1>1, <1>2, <2>4, <3>1, <3>3 DEF NotFull
      <4>2. PICK j \in DOMAIN result : result[j] = NodesOf(buckets[x])[k]
        BY <1>9, <2>4, <4>1 DEF Gathered
      <4>3. j \in DOMAIN new_list /\ new_list[j] = result[j]
        BY <1>8
      <4> QED
        BY <4>2, <4>3
    <3> QED
      BY <3>2, <3>3
  <2> QED
    BY <2>2, <2>3, <2>4 DEF Gathered
<1> QED
  BY <1>3, <1>5, <1>9

\* The buckets less than n places away from where the search starts.
Near(start, n) == {i \in DOMAIN buckets : start - n < i /\ i < start + n}

\* One more iteration takes from the buckets one place further away.
LEMMA IterationGathers ==
  ASSUME IInv, NEW start \in DOMAIN buckets, NEW offset \in Nat \ {0},
         NEW result \in Answer
  PROVE  /\ Iteration(result, start, offset) \in Answer
         /\ Gathered(result, Near(start, offset)) =>
              Gathered(Iteration(result, start, offset), Near(start, offset + 1))
<1> DEFINE below  == start - offset
           above  == start + offset
           lower  == IF start > offset THEN TakeFrom(result, buckets[below]) ELSE result
           both   == IF above <= Len(buckets) /\ NotFull(lower)
                     THEN TakeFrom(lower, buckets[above]) ELSE lower
           looked == Near(start, offset)
           seen   == looked \cup {i \in DOMAIN buckets : i = below}
           all    == seen \cup {i \in DOMAIN buckets : i = above}
<1>1. /\ Len(buckets) \in Nat /\ DOMAIN buckets = 1 .. Len(buckets)
      /\ start \in 1 .. Len(buckets) /\ Len(result) \in Nat
      /\ DOMAIN buckets \subseteq Int
  BY BucketFacts, LenProperties DEF IInv, Answer
<1>2. LowerThenHigher(result, start, offset) = both
  BY DEF LowerThenHigher
<1>3. /\ below \in DOMAIN buckets <=> start > offset
      /\ above \in DOMAIN buckets <=> above <= Len(buckets)
  BY <1>1
<1>4. lower \in Answer /\ (Gathered(result, looked) => Gathered(lower, seen))
  <2>1. CASE start > offset
    <3>1. looked \in SUBSET (DOMAIN buckets \ {below}) /\ below \in DOMAIN buckets
      BY <1>1, <1>3, <2>1 DEF Near
    <3>2. seen = looked \cup {below}
      BY <1>3, <2>1
    <3> HIDE DEF below, looked
    <3>3. /\ TakeFrom(result, buckets[below]) \in Answer
          /\ Gathered(result, looked) =>
               Gathered(TakeFrom(result, buckets[below]), looked \cup {below})
      BY <3>1, TakeFromFacts
    <3> QED
      BY <2>1, <3>2, <3>3
  <2>2. CASE ~ (start > offset)
    <3>1. seen = looked
      BY <1>3, <2>2
    <3> QED
      BY <2>2, <3>1
  <2> QED
    BY <2>1, <2>2
<1> HIDE DEF lower
<1>5. looked \subseteq DOMAIN buckets /\ seen \subseteq all /\ all \subseteq DOMAIN buckets
  BY DEF Near
<1>6. both \in Answer /\ (Gathered(lower, seen) => Gathered(both, all))
  <2>1. CASE above <= Len(buckets) /\ NotFull(lower)
    <3>1. seen \in SUBSET (DOMAIN buckets \ {above}) /\ above \in DOMAIN buckets
      BY <1>1, <1>3, <2>1 DEF Near
    <3>2. all = seen \cup {above}
      BY <1>3, <2>1
    <3> HIDE DEF above, seen
    <3>3. /\ TakeFrom(lower, buckets[above]) \in Answer
          /\ Gathered(lower, seen) =>
               Gathered(TakeFrom(lower, buckets[above]), seen \cup {above})
      BY <1>4, <3>1, TakeFromFacts
    <3> QED
      BY <2>1, <3>2, <3>3
  <2>2. CASE ~ (above <= Len(buckets))
    <3>1. all = seen
      BY <1>3, <2>2
    <3> QED
      BY <1>4, <2>2, <3>1
  <2>3. CASE ~ NotFull(lower)
    BY <1>4, <1>5, <2>3 DEF Gathered
  <2> QED
    BY <2>1, <2>2, <2>3
<1>7. all = Near(start, offset + 1)
  <2>1. ASSUME NEW i \in DOMAIN buckets
        PROVE  i \in all <=> i \in Near(start, offset + 1)
    BY <1>1 DEF Near
  <2>2. Near(start, offset + 1) \subseteq DOMAIN buckets
    BY DEF Near
  <2> QED
    BY <1>5, <2>1, <2>2
<1>8. CASE NotFull(result) /\ (start > offset \/ above <= Len(buckets))
  <2>1. Iteration(result, start, offset) = both
    BY <1>2, <1>8 DEF Iteration
  <2> HIDE DEF both, all, seen, looked
  <2>2. Near(start, offset) = looked
    BY DEF looked
  <2> QED
    BY <1>4, <1>6, <1>7, <2>1, <2>2
<1>9. CASE ~ (NotFull(result) /\ (start > offset \/ above <= Len(buckets)))
  <2>1. Iteration(result, start, offset) = result
    BY <1>9 DEF Iteration
  <2>2. CASE ~ NotFull(result)
    <3>1. looked \subseteq Near(start, offset + 1)
      BY <1>5, <1>7
    <3> QED
      BY <2>1, <2>2, <3>1 DEF Gathered
  <2>3. CASE ~ (start > offset) /\ ~ (above <= Len(buckets))
    <3>1. all = looked
      BY <1>3, <2>3
    <3> QED
      BY <1>7, <2>1, <3>1
  <2> QED
    BY <1>9, <2>2, <2>3
<1> QED
  BY <1>8, <1>9

\* An iteration keeps what the list has.
LEMMA IterationExtends ==
  ASSUME IInv, NEW start \in DOMAIN buckets, NEW offset \in Nat \ {0},
         NEW result \in Answer
  PROVE  ToSet(result) \subseteq ToSet(Iteration(result, start, offset))
<1>1. ASSUME NEW r \in Answer, NEW i \in DOMAIN buckets
      PROVE  ToSet(r) \subseteq ToSet(TakeFrom(r, buckets[i]))
  <2> DEFINE b    == NodesOf(buckets[i])
             room == BUCKET_SIZE - Len(r)
             more == r \o SubSeq(b, 1, IF room < Len(b) THEN room ELSE Len(b))
  <2>1. /\ r \in Seq(NodeContactInfo) /\ Len(r) <= BUCKET_SIZE
        /\ DOMAIN r = 1 .. Len(r) /\ Len(r) \in Nat /\ BUCKET_SIZE \in Nat
        /\ b \in Seq(NodeContactInfo)
    BY LenProperties, FixedVecAssumption, NodesFacts DEF Answer
  <2>2. TakeFrom(r, buckets[i]) = more
    BY DEF TakeFrom
  <2>3. /\ Len(more) \in Nat /\ Len(r) <= Len(more)
        /\ DOMAIN more = 1 .. Len(more)
        /\ \A j \in 1 .. Len(r) : more[j] = r[j]
    <3> HIDE DEF b
    <3> QED
      BY <2>1, FillFacts
  <2> HIDE DEF more
  <2>4. \A j \in 1 .. Len(r) : j \in DOMAIN more /\ more[j] = r[j]
    BY <2>1, <2>3
  <2> QED
    BY <2>1, <2>2, <2>4 DEF ToSet
<1> DEFINE lower == IF start > offset
                    THEN TakeFrom(result, buckets[start - offset]) ELSE result
           both  == IF start + offset <= Len(buckets) /\ NotFull(lower)
                    THEN TakeFrom(lower, buckets[start + offset]) ELSE lower
<1>2. /\ start > offset => start - offset \in DOMAIN buckets
      /\ start + offset <= Len(buckets) => start + offset \in DOMAIN buckets
  BY BucketFacts DEF IInv
<1>3. lower \in Answer /\ ToSet(result) \subseteq ToSet(lower)
  BY <1>1, <1>2, TakeFromFacts
<1> HIDE DEF lower
<1>4. ToSet(lower) \subseteq ToSet(both)
  BY <1>1, <1>2, <1>3
<1>5. Iteration(result, start, offset) \in {result, both}
  BY DEF Iteration, LowerThenHigher, lower
<1> QED
  BY <1>3, <1>4, <1>5

\* How many places a bucket is away from the first one looked at.
Away(i, start) == IF i < start THEN start - i ELSE i - start

\* Of the near buckets, none with a node in the list is further away than one
\* with a node that is not.
InOrder(result, start, n) ==
  \A x, y \in Near(start, n) :
    \A k \in DOMAIN NodesOf(buckets[x]), l \in DOMAIN NodesOf(buckets[y]) :
      /\ NodesOf(buckets[x])[k] \in ToSet(result)
      /\ NodesOf(buckets[y])[l] \notin ToSet(result)
      => Away(x, start) <= Away(y, start)

\* An iteration takes nothing from the next buckets before the list has all
\* there is in the ones before them.
LEMMA IterationInOrder ==
  ASSUME IInv, NEW start \in DOMAIN buckets, NEW offset \in Nat \ {0},
         NEW result \in Answer, Gathered(result, Near(start, offset)),
         InOrder(result, start, offset)
  PROVE  InOrder(Iteration(result, start, offset), start, offset + 1)
<1> DEFINE more == Iteration(result, start, offset)
<1> SUFFICES ASSUME NEW x \in Near(start, offset + 1),
                    NEW y \in Near(start, offset + 1),
                    NEW k \in DOMAIN NodesOf(buckets[x]),
                    NEW l \in DOMAIN NodesOf(buckets[y]),
                    NodesOf(buckets[x])[k] \in ToSet(more),
                    NodesOf(buckets[y])[l] \notin ToSet(more)
             PROVE  Away(x, start) <= Away(y, start)
  BY DEF InOrder
<1>1. /\ x \in DOMAIN buckets /\ y \in DOMAIN buckets
      /\ x \in Int /\ y \in Int /\ start \in Int
  BY BucketFacts DEF IInv, Near
<1>2. Away(x, start) <= offset
  BY <1>1 DEF Near, Away
<1>3. CASE y \notin Near(start, offset)
  <2>1. Away(y, start) >= offset
    BY <1>1, <1>3 DEF Near, Away
  <2> QED
    BY <1>1, <1>2, <2>1 DEF Away
<1>4. CASE y \in Near(start, offset)
  <2>1. NodesOf(buckets[y])[l] \notin ToSet(result)
    BY IterationExtends
  <2>2. ~ NotFull(result)
    BY <1>4, <2>1 DEF Gathered, ToSet
  <2>3. more = result
    BY <2>2 DEF Iteration
  <2>4. PICK j \in DOMAIN result : NodesOf(buckets[x])[k] = result[j]
    BY <2>3 DEF ToSet
  <2>5. PICK z \in Near(start, offset) : \E m \in DOMAIN NodesOf(buckets[z]) :
          result[j] = NodesOf(buckets[z])[m]
    BY DEF Gathered
  <2>6. z \in DOMAIN buckets
    BY DEF Near
  <2>7. x = z
    <3>1. PICK m \in DOMAIN NodesOf(buckets[z]) : result[j] = NodesOf(buckets[z])[m]
      BY <2>5
    <3>2. Place(NodesOf(buckets[z])[m].id, Len(buckets)) = z
      BY <2>6, NodesFacts
    <3>3. Place(NodesOf(buckets[x])[k].id, Len(buckets)) = x
      BY <1>1, NodesFacts
    <3> QED
      BY <2>4, <3>1, <3>2, <3>3
  <2>8. NodesOf(buckets[x])[k] \in ToSet(result)
    BY <2>4 DEF ToSet
  <2> QED
    BY <1>4, <2>1, <2>7, <2>8 DEF InOrder
<1> QED
  BY <1>3, <1>4

\* What find has gathered when its loop ends: all buckets, or a full list.
LEMMA ClosestAreGathered ==
  ASSUME IInv, NEW id \in Others, ~ find(id).exact
  PROVE  /\ find(id).nodes \in Answer
         /\ Gathered(find(id).nodes, DOMAIN buckets)
         /\ InOrder(find(id).nodes, bucketIndex(id), Len(buckets) + 1)
         /\ Near(bucketIndex(id), Len(buckets) + 1) = DOMAIN buckets
<1> DEFINE N       == Len(buckets)
           start   == bucketIndex(id)
           Body(f) == [n \in 0 .. N |-> IF n = 0 THEN NodesOf(buckets[start])
                                        ELSE Iteration(f[n - 1], start, n)]
           step    == [n \in 1 .. N |-> [a \in Answer |-> Iteration(a, start, n)]]
           after   == CHOOSE f : f = Body(f)
<1>1. /\ N \in Nat /\ DOMAIN buckets = 1 .. N /\ start \in DOMAIN buckets
      /\ start \in 1 .. N
  BY PlaceFacts, BucketFacts DEF Others, IInv
<1>2. find(id).nodes = after[N]
  BY DEF find
<1>3. NodesOf(buckets[start]) \in Answer
  BY <1>1, NodesFacts
<1>4. \A n \in 1 .. N : \A a \in Answer : Iteration(a, start, n) \in Answer
  <2> SUFFICES ASSUME NEW n \in 1 .. N, NEW a \in Answer
               PROVE  Iteration(a, start, n) \in Answer
    OBVIOUS
  <2>1. n \in Nat \ {0}
    BY <1>1
  <2> HIDE DEF start
  <2> QED
    BY <1>1, <2>1, IterationGathers
<1> HIDE DEF start
<1>5. after = Body(after)
  <2>1. step \in Steps(N, Answer)
    BY <1>4 DEF Steps
  <2>2. PICK f \in [0 .. N -> Answer] :
          f[0] = NodesOf(buckets[start]) /\ \A n \in 1 .. N : f[n] = step[n][f[n - 1]]
    <3> DEFINE first == NodesOf(buckets[start])
    <3>1. first \in Answer /\ N \in Nat
      BY <1>1, <1>3
    <3> HIDE DEF step, N, first
    <3>2. \E f \in [0 .. N -> Answer] :
            f[0] = first /\ \A n \in 1 .. N : f[n] = step[n][f[n - 1]]
      BY <2>1, <3>1, IterationExists
    <3> QED
      BY <3>2 DEF first
  <2>3. ASSUME NEW n \in 1 .. N
        PROVE  f[n] = Iteration(f[n - 1], start, n)
    <3>1. f[n - 1] \in Answer
      BY <1>1, <2>2
    <3> QED
      BY <2>2, <3>1
  <2>4. \A n \in 0 .. N : n = 0 \/ n \in 1 .. N
    BY <1>1
  <2>5. \A n \in 0 .. N : f[n] = Body(f)[n]
    BY <2>2, <2>3, <2>4
  <2>6. f = Body(f)
    BY <2>2, <2>5
  <2> HIDE DEF Body
  <2> QED
    BY <2>6
<1> HIDE DEF after, step
<1>6. /\ after[0] = NodesOf(buckets[start])
      /\ \A n \in 1 .. N : after[n] = Iteration(after[n - 1], start, n)
  BY <1>1, <1>5
<1> DEFINE Reached == {n \in 0 .. N : /\ after[n] \in Answer
                                      /\ Gathered(after[n], Near(start, n + 1))
                                      /\ InOrder(after[n], start, n + 1)}
<1>7. 0 \in Reached
  <2>1. Near(start, 0 + 1) = {start}
    BY <1>1 DEF Near
  <2>2. Gathered(NodesOf(buckets[start]), {start})
    BY <1>1, NodesFacts DEF Gathered
  <2>3. after[0] \in Answer /\ Gathered(after[0], Near(start, 0 + 1))
    BY <1>3, <1>6, <2>1, <2>2
  <2>4. InOrder(after[0], start, 0 + 1)
    BY <1>1, <2>1 DEF InOrder, Away
  <2> QED
    BY <1>1, <2>3, <2>4
<1>8. ASSUME NEW n \in 1 .. N, n - 1 \in Reached
      PROVE  n \in Reached
  <2>1. n \in Nat \ {0} /\ (n - 1) + 1 = n /\ n \in 0 .. N
    BY <1>1
  <2>2. /\ after[n - 1] \in Answer
        /\ Gathered(after[n - 1], Near(start, n))
        /\ InOrder(after[n - 1], start, n)
    BY <1>8, <2>1
  <2>3. /\ Iteration(after[n - 1], start, n) \in Answer
        /\ Gathered(Iteration(after[n - 1], start, n), Near(start, n + 1))
        /\ InOrder(Iteration(after[n - 1], start, n), start, n + 1)
    BY <1>1, <2>1, <2>2, IterationGathers, IterationInOrder
  <2> QED
    BY <1>6, <2>1, <2>3
<1>9. N \in Reached
  <2> HIDE DEF Reached, N
  <2>1. \A n \in 0 .. N : n \in Reached
    BY <1>1, <1>7, <1>8, CountingUp
  <2> QED
    BY <1>1, <2>1
<1>10. Near(start, N + 1) = DOMAIN buckets
  <2>1. \A i \in 1 .. N : start - (N + 1) < i /\ i < start + (N + 1)
    BY <1>1
  <2> QED
    BY <1>1, <2>1 DEF Near
<1> QED
  BY <1>2, <1>9, <1>10 DEF start

\* The nodes of the table, with the buckets their entries are in.
LEMMA NodesOfTheTable ==
  ASSUME IInv, Idle
  PROVE  /\ \A node \in Nodes : \E i \in DOMAIN buckets :
              \E k \in DOMAIN NodesOf(buckets[i]) : node = NodesOf(buckets[i])[k]
         /\ \A i \in DOMAIN buckets : \A k \in DOMAIN NodesOf(buckets[i]) :
              NodesOf(buckets[i])[k] \in Nodes
         /\ IsFiniteSet(Nodes) /\ Cardinality(Nodes) \in Nat
<1>1. Entries = UNION {EntriesIn(buckets[i].entries) : i \in DOMAIN buckets}
  BY DEF Entries, Idle
<1>2. ASSUME NEW node \in Nodes
      PROVE  \E i \in DOMAIN buckets : \E k \in DOMAIN NodesOf(buckets[i]) :
               node = NodesOf(buckets[i])[k]
  <2>1. PICK e \in Entries : node = e.node
    BY DEF Nodes
  <2>2. PICK i \in DOMAIN buckets : e \in EntriesIn(buckets[i].entries)
    BY <1>1
  <2>3. \E k \in DOMAIN NodesOf(buckets[i]) : NodesOf(buckets[i])[k] = e.node
    BY <2>2, NodesFacts
  <2> QED
    BY <2>1, <2>3
<1>3. ASSUME NEW i \in DOMAIN buckets, NEW k \in DOMAIN NodesOf(buckets[i])
      PROVE  NodesOf(buckets[i])[k] \in Nodes
  <2>1. PICK e \in EntriesIn(buckets[i].entries) : NodesOf(buckets[i])[k] = e.node
    BY NodesFacts
  <2>2. e \in Entries
    BY <1>1
  <2> QED
    BY <2>1, <2>2 DEF Nodes
<1>4. IsFiniteSet(Nodes)
  <2> DEFINE D == DOMAIN buckets
             L == 1 .. BUCKET_SIZE
             P == {p \in D \X L : p[2] \in DOMAIN NodesOf(buckets[p[1]])}
             f == [p \in P |-> NodesOf(buckets[p[1]])[p[2]]]
  <2>1. IsFiniteSet(D) /\ IsFiniteSet(L)
    <3>1. D = 1 .. Len(buckets) /\ Len(buckets) \in Nat
      BY BucketFacts DEF IInv
    <3> QED
      BY <3>1, FixedVecAssumption, FS_Interval
  <2>2. IsFiniteSet(P)
    <3> HIDE DEF D, L
    <3>1. IsFiniteSet(D \X L)
      BY <2>1, FS_Product
    <3> QED
      BY <3>1, FS_Subset
  <2>3. f \in [P -> Nodes]
    BY <1>3
  <2>4. ASSUME NEW node \in Nodes
        PROVE  \E p \in P : f[p] = node
    <3>1. PICK i \in D : \E k \in DOMAIN NodesOf(buckets[i]) : node = NodesOf(buckets[i])[k]
      BY <1>2
    <3>2. PICK k \in DOMAIN NodesOf(buckets[i]) : node = NodesOf(buckets[i])[k]
      BY <3>1
    <3>3. k \in L
      <4>1. /\ DOMAIN NodesOf(buckets[i]) = 1 .. Len(NodesOf(buckets[i]))
            /\ Len(NodesOf(buckets[i])) \in Nat
            /\ Len(NodesOf(buckets[i])) <= BUCKET_SIZE
        BY NodesFacts DEF Answer
      <4> QED
        BY <4>1, FixedVecAssumption
    <3>4. <<i, k>> \in P /\ f[<<i, k>>] = node
      BY <3>2, <3>3
    <3> QED
      BY <3>4
  <2> HIDE DEF P, f
  <2>5. f \in Surjection(P, Nodes)
    BY <2>3, <2>4 DEF Surjection
  <2> QED
    BY <2>2, <2>5, FS_Surjection
<1>5. Cardinality(Nodes) \in Nat
  BY <1>4, FS_CardinalityType
<1> QED
  BY <1>2, <1>3, <1>4, <1>5

\* An inexact answer names entries only, each once, and is as long as it can be.
THEOREM ClosestListIsFilled == Spec => []ClosestIsFilled
<1>1. IInv => ClosestIsFilled
  <2> SUFFICES ASSUME IInv, Idle, NEW id \in Others, ~ find(id).exact
               PROVE  LET found == find(id)
                          n     == Cardinality(Nodes)
                      IN  /\ ToSet(found.nodes) \subseteq Nodes
                          /\ Cardinality(ToSet(found.nodes)) = Len(found.nodes)
                          /\ Len(found.nodes) =
                               IF n < BUCKET_SIZE THEN n ELSE BUCKET_SIZE
    BY DEF ClosestIsFilled
  <2> DEFINE result == find(id).nodes
  <2>1. result \in Answer /\ Gathered(result, DOMAIN buckets)
    BY ClosestAreGathered
  <2> HIDE DEF result
  <2>2. /\ DOMAIN result = 1 .. Len(result) /\ Len(result) \in Nat
        /\ Len(result) <= BUCKET_SIZE /\ BUCKET_SIZE \in Nat
    BY <2>1, LenProperties, FixedVecAssumption DEF Answer
  <2>3. ToSet(result) \subseteq Nodes
    BY <2>1, NodesOfTheTable DEF Gathered, ToSet
  <2>4. Cardinality(ToSet(result)) = Len(result)
    <3>1. \A j, k \in 1 .. Len(result) : result[j] = result[k] => j = k
      BY <2>1, <2>2 DEF Gathered, NoIdTwice
    <3>2. /\ \A j \in 1 .. Len(result) : result[j] \in ToSet(result)
          /\ \A x \in ToSet(result) : \E j \in 1 .. Len(result) : x = result[j]
      BY <2>2 DEF ToSet
    <3> QED
      BY <2>2, <3>1, <3>2, ElementsCounted
  <2>5. IsFiniteSet(Nodes) /\ Cardinality(Nodes) \in Nat
    BY NodesOfTheTable
  <2>6. Len(result) <= Cardinality(Nodes)
    BY <2>3, <2>4, <2>5, FS_Subset
  <2>7. ASSUME NotFull(result) PROVE Len(result) = Cardinality(Nodes)
    <3>1. Nodes \subseteq ToSet(result)
      <4> SUFFICES ASSUME NEW node \in Nodes PROVE node \in ToSet(result)
        OBVIOUS
      <4>1. PICK i \in DOMAIN buckets :
              \E k \in DOMAIN NodesOf(buckets[i]) : node = NodesOf(buckets[i])[k]
        BY NodesOfTheTable
      <4>2. PICK k \in DOMAIN NodesOf(buckets[i]) : node = NodesOf(buckets[i])[k]
        BY <4>1
      <4>3. PICK j \in DOMAIN result : result[j] = node
        BY <2>1, <2>7, <4>2 DEF Gathered
      <4> QED
        BY <4>3 DEF ToSet
    <3>2. ToSet(result) = Nodes
      BY <2>3, <3>1
    <3> QED
      BY <2>4, <3>2
  <2>8. Len(result) = IF Cardinality(Nodes) < BUCKET_SIZE
                      THEN Cardinality(Nodes) ELSE BUCKET_SIZE
    <3> DEFINE n == Cardinality(Nodes)
               m == Len(result)
    <3>1. /\ n \in Nat /\ m \in Nat /\ BUCKET_SIZE \in Nat
          /\ m <= BUCKET_SIZE /\ m <= n
          /\ m < BUCKET_SIZE => m = n
      BY <2>2, <2>5, <2>6, <2>7 DEF NotFull
    <3> HIDE DEF n, m
    <3>2. m = IF n < BUCKET_SIZE THEN n ELSE BUCKET_SIZE
      BY <3>1
    <3> QED
      BY <3>2 DEF n, m
  <2> QED
    BY <2>3, <2>4, <2>8 DEF result
<1> QED
  BY <1>1, RustTableInvariant, PTL

\* How many buckets apart two identifiers are.
Apart(a, b) == Away(bucketIndex(a), bucketIndex(b))

\* What `Closest` (main.rs:254) comes down to in the end: the nodes of a
\* full list need not be the closest ones, but no node that was left out is in
\* a bucket nearer to the identifier's than the bucket of a node in the list.
NearestBucketsFirst ==
  Idle => \A id \in Others :
    LET found == find(id)
    IN  ~ found.exact =>
          \A n \in ToSet(found.nodes), other \in Nodes \ ToSet(found.nodes) :
            Apart(n.id, id) <= Apart(other.id, id)

\* find fills its list from the nearest buckets outwards.
THEOREM ClosestFromNearestBuckets == Spec => []NearestBucketsFirst
<1>1. IInv => NearestBucketsFirst
  <2> SUFFICES ASSUME IInv, Idle, NEW id \in Others, ~ find(id).exact,
                      NEW n \in ToSet(find(id).nodes),
                      NEW other \in Nodes \ ToSet(find(id).nodes)
               PROVE  Apart(n.id, id) <= Apart(other.id, id)
    BY DEF NearestBucketsFirst
  <2> DEFINE start == bucketIndex(id)
             N     == Len(buckets)
  <2>1. /\ Gathered(find(id).nodes, DOMAIN buckets)
        /\ InOrder(find(id).nodes, start, N + 1)
        /\ Near(start, N + 1) = DOMAIN buckets
    BY ClosestAreGathered
  <2>2. n \in Nodes
    BY <2>1, NodesOfTheTable DEF Gathered, ToSet
  <2>3. ASSUME NEW node \in Nodes
        PROVE  \E i \in DOMAIN buckets : \E k \in DOMAIN NodesOf(buckets[i]) :
                 node = NodesOf(buckets[i])[k] /\ bucketIndex(node.id) = i
    <3>1. PICK i \in DOMAIN buckets :
            \E k \in DOMAIN NodesOf(buckets[i]) : node = NodesOf(buckets[i])[k]
      BY NodesOfTheTable
    <3>2. PICK k \in DOMAIN NodesOf(buckets[i]) : node = NodesOf(buckets[i])[k]
      BY <3>1
    <3>3. PICK e \in EntriesIn(buckets[i].entries) : node = e.node
      BY <3>2, NodesFacts
    <3>4. PICK j \in Occupied(buckets[i].entries) : e = buckets[i].entries.data[j]
      BY DEF EntriesIn, Occupied
    <3>5. HoldsItsOwn(buckets[i].entries, i, N)
      BY DEF IInv, BucketsHoldTheirOwn
    <3>6. /\ node.id # reference_id /\ Place(node.id, N) = i
          /\ node.id \in NodeId
      <4>1. IdAt(buckets[i].entries, j) = node.id
        BY <3>3, <3>4 DEF IdAt
      <4>2. e \in RoutingEntry
        BY <3>4, <3>5 DEF HoldsItsOwn, WellFormed, Vectors, Occupied
      <4> QED
        BY <3>3, <3>5, <4>1, <4>2 DEF HoldsItsOwn, RoutingEntry, NodeContactInfo
    <3>7. bucketIndex(node.id) = i
      BY <3>6, PlaceFacts DEF IInv
    <3> QED
      BY <3>2, <3>7
  <2>4. PICK x \in DOMAIN buckets : \E k \in DOMAIN NodesOf(buckets[x]) :
          n = NodesOf(buckets[x])[k] /\ bucketIndex(n.id) = x
    BY <2>2, <2>3
  <2>5. PICK y \in DOMAIN buckets : \E l \in DOMAIN NodesOf(buckets[y]) :
          other = NodesOf(buckets[y])[l] /\ bucketIndex(other.id) = y
    BY <2>3
  <2> HIDE DEF start, N
  <2>6. Away(x, start) <= Away(y, start)
    BY <2>1, <2>4, <2>5 DEF InOrder
  <2> QED
    BY <2>4, <2>5, <2>6 DEF Apart, start
<1> QED
  BY <1>1, RustTableInvariant, PTL

-----------------------------------------------------------------------------
\* A split ends: every step that changes anything while one is in progress
\* either ends it or leaves the loop of RoutingTable::update fewer entries to
\* look at, since the vector it goes through gets shorter by each entry that is
\* drained.  With the fairness of splitLoop this is what SplitEnds rests on.
Remaining == buckets[SplitIndex].entries.length - splitting.i

SplitsGetShorter ==
  [][splitting # NoSplit => \/ splitting' = NoSplit
                            \/ Remaining' >= 0 /\ Remaining' < Remaining]_vars

\* What the loop has left is a number, and is counted in the last bucket.
LEMMA RemainingFacts ==
  IInv /\ splitting # NoSplit =>
    /\ Remaining = buckets[Len(buckets)].entries.length - splitting.i
    /\ Remaining \in Nat
<1> SUFFICES ASSUME IInv, splitting # NoSplit
             PROVE  /\ Remaining = buckets[Len(buckets)].entries.length - splitting.i
                    /\ Remaining \in Nat
  OBVIOUS
<1>1. /\ splitting \in SplitInProgress /\ SplitIndex = Len(buckets)
      /\ HoldsItsOwn(buckets[Len(buckets)].entries, Len(buckets), Len(buckets))
      /\ IsSplitOf(splitting, buckets[Len(buckets)].entries, Len(buckets))
  BY LoopFacts
<1>2. /\ buckets[Len(buckets)].entries.length \in 0 .. BUCKET_SIZE
      /\ splitting.i \in 0 .. buckets[Len(buckets)].entries.length
  BY <1>1, SplitFacts
<1> QED
  BY <1>1, <1>2, FixedVecAssumption DEF Remaining

\* Keeping an entry moves the index on, draining one shortens the vector.
LEMMA LoopShortens ==
  ASSUME IInv, KeepInLower \/ DrainToUpper
  PROVE  buckets'[Len(buckets')].entries.length - splitting'.i
           = buckets[Len(buckets)].entries.length - splitting.i - 1
<1> USE IdBitsAssumption, FixedVecAssumption
<1> DEFINE n == Len(buckets)
           v == buckets[n].entries
           w == swap_remove(v, splitting.i).rest
<1>1. /\ splitting \in SplitInProgress /\ SplitIndex = n
      /\ n \in 1 .. IdBits - 1 /\ n \in DOMAIN buckets
      /\ HoldsItsOwn(v, n, n) /\ IsSplitOf(splitting, v, n)
  BY LoopFacts DEF KeepInLower, DrainToUpper, InLoop
<1>2. /\ WellFormed(v) /\ v.length \in 0 .. BUCKET_SIZE
      /\ splitting.i \in 0 .. v.length /\ splitting.i \in Occupied(v)
  BY <1>1, SplitFacts, InLoopFacts DEF KeepInLower, DrainToUpper
<1>3. CASE KeepInLower
  <2>1. splitting'.i = splitting.i + 1 /\ buckets' = buckets
    BY <1>1, <1>3 DEF KeepInLower, SplitInProgress
  <2> QED
    BY <1>2, <2>1
<1>4. CASE DrainToUpper
  <2>1. /\ buckets' = [buckets EXCEPT ![n].entries = w]
        /\ splitting'.i = splitting.i
    BY <1>1, <1>4 DEF DrainToUpper, SplitInProgress
  <2>2. WellFormed(w) /\ w.length = v.length - 1
    BY <1>2, SwapRemoveFacts
  <2> HIDE DEF w
  <2>3. Len(buckets') = n /\ buckets'[n].entries = w
    <3>1. w \in Vectors /\ TypeOK /\ Bounds
      BY <2>2 DEF WellFormed, IInv
    <3>2. \A k \in DOMAIN buckets :
            buckets'[k].entries = IF k = n THEN w ELSE buckets[k].entries
      BY <1>1, <2>1, <3>1, OneBucketChanges
    <3>3. Len(buckets') = n
      BY <1>1, <2>1, <3>1, OneBucketChanges
    <3> QED
      BY <1>1, <3>2, <3>3
  <2>4. buckets'[Len(buckets')].entries.length = v.length - 1
    BY <2>2, <2>3
  <2> DEFINE l == v.length
             k == buckets'[Len(buckets')].entries.length
  <2>5. k = l - 1 /\ l \in Int /\ splitting.i \in Int
    BY <1>2, <2>4
  <2> HIDE DEF l, k
  <2>6. k - splitting.i = l - splitting.i - 1
    BY <2>5
  <2> QED
    BY <2>1, <2>6 DEF l, k
<1> QED
  BY <1>3, <1>4

\* Splits of RoutingTable::update get shorter with every iteration until they
\* are done or reverted: the loop cannot go on for ever.
THEOREM SplitLoopProgresses == Spec => SplitsGetShorter
<1>1. (IInv /\ splitting # NoSplit =>
         /\ Remaining = buckets[Len(buckets)].entries.length - splitting.i
         /\ Remaining \in Nat)'
  BY RemainingFacts, PTL
<1>2. ASSUME IInv, IInv', [Next]_vars
      PROVE  [splitting # NoSplit => \/ splitting' = NoSplit
                                     \/ Remaining' >= 0 /\ Remaining' < Remaining]_vars
  <2> SUFFICES ASSUME Next, splitting # NoSplit, splitting' # NoSplit
               PROVE  Remaining' >= 0 /\ Remaining' < Remaining
    BY <1>2
  <2>1. KeepInLower \/ DrainToUpper
    BY DEF Next, update, UpdatePanics, UpdateKnown, InsertIntoSlot, ReplaceBad,
           StartSplit, Discard, IsNew, IsFullOfOthers, Idle, Tick, splitLoop, SplitLower, SplitUpper,
           SplitInto, RevertSplit
  <2>2. Remaining' = Remaining - 1
    BY <1>1, <1>2, <2>1, RemainingFacts, LoopShortens
  <2> QED
    BY <1>1, <1>2, <2>2, RemainingFacts
<1> QED
  BY <1>2, RustTableInvariant, PTL DEF Spec, SplitsGetShorter

-----------------------------------------------------------------------------
(***************************************************************************)
(* The Rust routing table implements RatedContacts: the cases of update    *)
(* are Hear, Learn and Replace, a split that is done is Divide, a second   *)
(* that passes is Pass, and a split that starts, goes on or is put back    *)
(* changes nothing that can be seen.  The argument rests on the inductive  *)
(* invariant: the competitors of a contact are the entries of its bucket,  *)
(* and during a split those of the two vectors.                            *)
(***************************************************************************)

\* RatedContacts counts, and measures prefixes, as this module does.
LEMMA SameOperators ==
  /\ \A S : Promised!Cardinality(S) = Cardinality(S)
  /\ \A id : Promised!prefixLength(id) = prefixLength(id)
BY DEF Promised!Cardinality, Cardinality, Promised!prefixLength, prefixLength,
       Promised!common_prefix_length, common_prefix_length,
       Promised!distance, distance, Promised!BitIndex, BitIndex

-----------------------------------------------------------------------------
\* The entries of a vector.

LEMMA EntriesOfVector ==
  ASSUME NEW v
  PROVE  EntriesIn(v) = {v.data[j] : j \in Occupied(v)}
BY DEF EntriesIn, Occupied

LEMMA EntriesOfNew == EntriesIn(new) = {}
BY EntriesOfVector, NewFacts

LEMMA EntriesOfPush ==
  ASSUME NEW v, WellFormed(v), v.length < BUCKET_SIZE, NEW e \in RoutingEntry
  PROVE  EntriesIn(push(v, e)) = EntriesIn(v) \cup {e}
<1> DEFINE w == push(v, e)
<1>1. /\ Occupied(w) = Occupied(v) \cup {v.length}
      /\ w.data[v.length] = e
      /\ \A j \in Occupied(v) : w.data[j] = v.data[j]
  BY PushFacts
<1>2. /\ EntriesIn(w) = {w.data[j] : j \in Occupied(w)}
      /\ EntriesIn(v) = {v.data[j] : j \in Occupied(v)}
  BY EntriesOfVector
<1> HIDE DEF w
<1>3. EntriesIn(w) = EntriesIn(v) \cup {e}
  BY <1>1, <1>2
<1> QED
  BY <1>3 DEF w

LEMMA EntriesOfSwapRemove ==
  ASSUME NEW v, WellFormed(v), NEW index \in Occupied(v)
  PROVE  LET removed == swap_remove(v, index)
         IN  EntriesIn(v) = EntriesIn(removed.rest) \cup {removed.item}
<1> DEFINE w    == swap_remove(v, index).rest
           item == swap_remove(v, index).item
           last == v.length - 1
<1>1. /\ item = v.data[index]
      /\ last \in Occupied(v) /\ Occupied(w) = Occupied(v) \ {last}
      /\ \A j \in Occupied(w) :
           w.data[j] = IF j = index THEN v.data[last] ELSE v.data[j]
  BY SwapRemoveFacts
<1>2. /\ EntriesIn(w) = {w.data[j] : j \in Occupied(w)}
      /\ EntriesIn(v) = {v.data[j] : j \in Occupied(v)}
  BY EntriesOfVector
<1> HIDE DEF w, item, last
<1>3. ASSUME NEW x \in EntriesIn(v) PROVE x \in EntriesIn(w) \cup {item}
  <2>1. PICK j \in Occupied(v) : x = v.data[j]
    BY <1>2
  <2>2. CASE j = index
    BY <1>1, <2>1, <2>2
  <2>3. CASE j # index /\ j = last
    <3>1. index \in Occupied(w) /\ w.data[index] = x
      BY <1>1, <2>1, <2>3
    <3> QED
      BY <1>2, <3>1
  <2>4. CASE j # index /\ j # last
    <3>1. j \in Occupied(w) /\ w.data[j] = x
      BY <1>1, <2>1, <2>4
    <3> QED
      BY <1>2, <3>1
  <2> QED
    BY <2>2, <2>3, <2>4
<1>4. item \in EntriesIn(v) /\ EntriesIn(w) \subseteq EntriesIn(v)
  <2>1. \A j \in Occupied(w) : j \in Occupied(v)
    BY <1>1
  <2> QED
    BY <1>1, <1>2, <2>1
<1>5. EntriesIn(v) = EntriesIn(w) \cup {item}
  BY <1>3, <1>4
<1> QED
  BY <1>5 DEF w, item

\* The entry written over is gone, all others stay.
LEMMA EntriesOfOverwrite ==
  ASSUME NEW v, WellFormed(v), Distinct(v), NEW p \in Occupied(v), NEW e \in RoutingEntry
  PROVE  EntriesIn([v EXCEPT !.data[p] = e]) = (EntriesIn(v) \ {v.data[p]}) \cup {e}
<1> DEFINE w == [v EXCEPT !.data[p] = e]
<1>1. /\ Occupied(w) = Occupied(v)
      /\ \A j \in Occupied(v) : w.data[j] = IF j = p THEN e ELSE v.data[j]
  BY OverwriteFacts
<1>2. /\ EntriesIn(w) = {w.data[j] : j \in Occupied(w)}
      /\ EntriesIn(v) = {v.data[j] : j \in Occupied(v)}
  BY EntriesOfVector
<1>3. \A j \in Occupied(v) : v.data[j] = v.data[p] => j = p
  BY DEF Distinct, IdAt
<1> HIDE DEF w
<1>4. EntriesIn(w) = (EntriesIn(v) \ {v.data[p]}) \cup {e}
  BY <1>1, <1>2, <1>3
<1> QED
  BY <1>4 DEF w

\* A vector without repetitions has as many entries as it is long.
LEMMA EntriesCounted ==
  ASSUME NEW v, WellFormed(v), Distinct(v)
  PROVE  IsFiniteSet(EntriesIn(v)) /\ Cardinality(EntriesIn(v)) = v.length
<1> DEFINE f == [j \in Occupied(v) |-> v.data[j]]
<1>1. /\ v.length \in 0 .. BUCKET_SIZE /\ Occupied(v) = 0 .. v.length - 1
      /\ EntriesIn(v) = {v.data[j] : j \in Occupied(v)}
  BY VectorFacts, EntriesOfVector
<1>2. IsFiniteSet(Occupied(v)) /\ Cardinality(Occupied(v)) = v.length
  <2> DEFINE b == v.length - 1
  <2>1. 0 \in Int /\ b \in Int /\ (IF 0 > b THEN 0 ELSE b - 0 + 1) = v.length
    BY <1>1, FixedVecAssumption
  <2> HIDE DEF b
  <2>2. IsFiniteSet(0 .. b) /\ Cardinality(0 .. b) = IF 0 > b THEN 0 ELSE b - 0 + 1
    BY <2>1, FS_Interval
  <2>3. IsFiniteSet(0 .. b) /\ Cardinality(0 .. b) = v.length
    BY <2>1, <2>2
  <2> QED
    BY <1>1, <2>3 DEF b
<1>3. f \in Surjection(Occupied(v), EntriesIn(v))
  BY <1>1 DEF Surjection
<1>4. f \in Injection(Occupied(v), EntriesIn(v))
  BY <1>1 DEF Injection, IsInjective, Distinct, IdAt
<1> QED
  BY <1>2, <1>3, <1>4, FS_Surjection

-----------------------------------------------------------------------------
\* The entries of the table, and which of them compete.

\* Where an entry is, in a state and in the one after it.
LEMMA EntriesMeans ==
  ASSUME NEW e
  PROVE  /\ e \in Entries <=>
              \/ \E k \in DOMAIN buckets : e \in EntriesIn(buckets[k].entries)
              \/ splitting # NoSplit /\ e \in EntriesIn(splitting.drained_upper_nodes)
         /\ e \in Entries' <=>
              \/ \E k \in DOMAIN buckets' : e \in EntriesIn(buckets'[k].entries)
              \/ splitting' # NoSplit /\ e \in EntriesIn(splitting'.drained_upper_nodes)
BY DEF Entries

\* The entries of a bucket have its place.
LEMMA EntryInBucket ==
  ASSUME IInv, NEW k \in DOMAIN buckets, NEW e \in EntriesIn(buckets[k].entries)
  PROVE  /\ e \in RoutingEntry /\ e.node.id \in NodeId /\ e.node.id # reference_id
         /\ Place(e.node.id, Len(buckets)) = k
<1> DEFINE v == buckets[k].entries
<1>1. HoldsItsOwn(v, k, Len(buckets))
  BY DEF IInv, BucketsHoldTheirOwn
<1>2. PICK j \in Occupied(v) : e = v.data[j]
  BY EntriesOfVector
<1>3. v.data[j] \in RoutingEntry /\ IdAt(v, j) \in NodeId /\ e.node.id = IdAt(v, j)
  BY <1>1, <1>2, VectorFacts DEF HoldsItsOwn, IdAt
<1> QED
  BY <1>1, <1>2, <1>3 DEF HoldsItsOwn

\* Two entries of a bucket with the same identifier are the same.
LEMMA OneEntryPerIdentifier ==
  ASSUME NEW v, Distinct(v), NEW x \in EntriesIn(v), NEW y \in EntriesIn(v),
         x.node.id = y.node.id
  PROVE  x = y
<1>1. PICK j \in Occupied(v) : x = v.data[j]
  BY EntriesOfVector
<1>2. PICK k \in Occupied(v) : y = v.data[k]
  BY EntriesOfVector
<1> QED
  BY <1>1, <1>2 DEF Distinct, IdAt

\* The share of an identifier is the place of its bucket.
LEMMA ShareIsPlace ==
  ASSUME IInv, NEW id \in NodeId
  PROVE  /\ Promised!Share(id) = Place(id, Len(buckets)) - 1
         /\ buckets[Len(buckets)].bounds.start = Len(buckets) - 1
<1> USE IdBitsAssumption
<1> DEFINE n == Len(buckets)
           p == prefixLength(id)
<1>1. n \in 1 .. IdBits /\ p \in 0 .. IdBits
  BY PrefixFacts DEF IInv, Bounds
<1>2. buckets[n].bounds.start = n - 1
  <2>1. n \in DOMAIN buckets
    BY <1>1, BucketFacts DEF IInv
  <2>2. buckets[n].bounds = [start |-> n - 1, end |-> IdBits]
    BY <2>1 DEF IInv, Bounds
  <2> QED
    BY <2>2
<1>3. Promised!Share(id) = IF p < n - 1 THEN p ELSE n - 1
  BY <1>2, SameOperators DEF Promised!Share
<1>4. Place(id, n) = IF p < n THEN p + 1 ELSE n
  BY DEF Place
<1> HIDE DEF n, p
<1>5. Promised!Share(id) = Place(id, n) - 1
  BY <1>1, <1>3, <1>4
<1> QED
  BY <1>2, <1>5 DEF n

\* Without a split in progress, those competing with a contact are the entries
\* of its bucket.
LEMMA RivalsInBucket ==
  IInv /\ splitting = NoSplit =>
    \A id \in NodeId : id # reference_id =>
      LET k == Place(id, Len(buckets))
      IN  /\ k \in DOMAIN buckets /\ HoldsItsOwn(buckets[k].entries, k, Len(buckets))
          /\ Promised!Rivals(id) = EntriesIn(buckets[k].entries)
          /\ Promised!Cardinality(Promised!Rivals(id)) = buckets[k].entries.length
          /\ Promised!Cardinality(Promised!Rivals(id)) <= BUCKET_SIZE
<1> USE IdBitsAssumption
<1> SUFFICES ASSUME IInv, splitting = NoSplit, NEW id \in NodeId, id # reference_id
             PROVE  LET k == Place(id, Len(buckets))
                    IN  /\ k \in DOMAIN buckets
                        /\ HoldsItsOwn(buckets[k].entries, k, Len(buckets))
                        /\ Promised!Rivals(id) = EntriesIn(buckets[k].entries)
                        /\ Promised!Cardinality(Promised!Rivals(id)) = buckets[k].entries.length
                        /\ Promised!Cardinality(Promised!Rivals(id)) <= BUCKET_SIZE
  OBVIOUS
<1> DEFINE n == Len(buckets)
           k == Place(id, n)
           v == buckets[k].entries
<1>1. k \in DOMAIN buckets /\ HoldsItsOwn(v, k, n) /\ DOMAIN buckets = 1 .. n
  BY PlaceFacts, BucketFacts DEF IInv, BucketsHoldTheirOwn
<1>2. Promised!Share(id) = k - 1
  BY ShareIsPlace
<1>3. ASSUME NEW e \in Promised!Rivals(id) PROVE e \in EntriesIn(v)
  <2>1. e \in Entries /\ Promised!Share(e.node.id) = k - 1
    BY <1>2, <1>3 DEF Promised!Rivals
  <2>2. PICK q \in DOMAIN buckets : e \in EntriesIn(buckets[q].entries)
    BY <2>1, EntriesMeans
  <2>3. e.node.id \in NodeId /\ Place(e.node.id, n) = q
    BY <2>2, EntryInBucket
  <2>4. q - 1 = k - 1
    BY <2>1, <2>3, ShareIsPlace
  <2>5. q = k
    <3>1. q \in Int /\ k \in Int
      BY <1>1
    <3> HIDE DEF k
    <3> QED
      BY <2>4, <3>1
  <2> QED
    BY <2>2, <2>5
<1>4. ASSUME NEW e \in EntriesIn(v) PROVE e \in Promised!Rivals(id)
  <2>1. e.node.id \in NodeId /\ Place(e.node.id, n) = k
    BY <1>1, EntryInBucket
  <2>2. Promised!Share(e.node.id) = Promised!Share(id)
    BY <1>2, <2>1, ShareIsPlace
  <2>3. e \in Entries
    BY <1>1, EntriesMeans
  <2> QED
    BY <2>2, <2>3 DEF Promised!Rivals
<1>5. Promised!Rivals(id) = EntriesIn(v)
  BY <1>3, <1>4
<1>6. Promised!Cardinality(EntriesIn(v)) = v.length /\ v.length <= BUCKET_SIZE
  BY <1>1, EntriesCounted, SameOperators DEF HoldsItsOwn, WellFormed
<1> HIDE DEF k
<1> QED
  BY <1>1, <1>5, <1>6 DEF k

\* The same after a step that ends without a split in progress.
LEMMA RivalsInBucketAfter ==
  IInv' /\ splitting' = NoSplit =>
    \A id \in NodeId : id # reference_id =>
      Promised!Cardinality(Promised!Rivals(id)') <= BUCKET_SIZE
<1>1. IInv /\ splitting = NoSplit =>
        \A id \in NodeId : id # reference_id =>
          Promised!Cardinality(Promised!Rivals(id)) <= BUCKET_SIZE
  BY RivalsInBucket
<1>2. (IInv /\ splitting = NoSplit =>
         \A id \in NodeId : id # reference_id =>
           Promised!Cardinality(Promised!Rivals(id)) <= BUCKET_SIZE)'
  BY <1>1, PTL
<1> QED
  BY <1>2

\* A node whose identifier no entry of its bucket has is a stranger.
LEMMA StrangerFacts ==
  ASSUME IInv, splitting = NoSplit, NEW node, node.id \in NodeId, node.id # reference_id,
         \A e \in EntriesIn(buckets[Place(node.id, Len(buckets))].entries) :
           e.node.id # node.id
  PROVE  Promised!IsStranger(node)
<1>1. ASSUME NEW e \in Entries PROVE e.node.id # node.id
  <2>1. PICK k \in DOMAIN buckets : e \in EntriesIn(buckets[k].entries)
    BY EntriesMeans
  <2>2. Place(e.node.id, Len(buckets)) = k
    BY <2>1, EntryInBucket
  <2> QED
    BY <2>1, <2>2
<1> QED
  BY <1>1 DEF Promised!IsStranger

\* A step that replaces the vector of one bucket, between two calls of update
\* or at the end of one.
LEMMA EntriesOfOneBucket ==
  ASSUME TypeOK, Bounds, NEW n \in DOMAIN buckets, NEW w \in Vectors,
         buckets' = [buckets EXCEPT ![n].entries = w]
  PROVE  /\ DOMAIN buckets' = DOMAIN buckets
         /\ \A k \in DOMAIN buckets : EntriesIn(buckets'[k].entries) =
              IF k = n THEN EntriesIn(w) ELSE EntriesIn(buckets[k].entries)
         /\ buckets'[Len(buckets')].bounds.start = buckets[Len(buckets)].bounds.start
<1>1. /\ Len(buckets') = Len(buckets) /\ DOMAIN buckets' = DOMAIN buckets
      /\ Len(buckets) \in DOMAIN buckets
      /\ \A k \in DOMAIN buckets :
           /\ buckets'[k].entries = IF k = n THEN w ELSE buckets[k].entries
           /\ buckets'[k].bounds = buckets[k].bounds
  BY OneBucketChanges, BucketFacts, IdBitsAssumption DEF Bounds
<1> QED
  BY <1>1

-----------------------------------------------------------------------------
\* Ratings: bad is silent.

\* Comparing whole minutes is comparing seconds with the next minute.
LEMMA WholeMinutes ==
  ASSUME NEW a \in Nat, NEW M \in Nat \ {0}, NEW G \in Nat
  PROVE  a \div M <= G <=> a < (G + 1) * M
<1> DEFINE q == a \div M
<1>1. q \in Nat /\ M * q <= a /\ a < M * (q + 1)
  BY SMTT(20)
<1> HIDE DEF q
<1>2. ASSUME q <= G PROVE a < (G + 1) * M
  <2>1. M * (q + 1) <= M * (G + 1)
    BY <1>1, <1>2
  <2> QED
    BY <1>1, <2>1
<1>3. ASSUME ~ (q <= G) PROVE ~ (a < (G + 1) * M)
  <2>1. M * q >= M * (G + 1)
    BY <1>1, <1>3
  <2> QED
    BY <1>1, <2>1
<1>4. q <= G <=> a < (G + 1) * M
  BY <1>2, <1>3
<1> QED
  BY <1>4 DEF q

LEMMA BadIsSilent ==
  ASSUME NEW e \in RoutingEntry
  PROVE  rating(e) = "Bad" <=> Promised!Silent(e)
<1>1. ASSUME NEW age \in Instant \cup {Never}
      PROVE  WithinMinutes(age) <=> Promised!Recent(age)
  <2>1. CASE age = Never
    BY <2>1 DEF WithinMinutes, Promised!Recent
  <2>2. CASE age # Never
    <3>1. age \in Nat
      <4>1. age \in 0 .. StaleAge
        BY <2>2 DEF Instant
      <4> QED
        BY <4>1
    <3>2. age \div MinuteSecs <= GoodMinutes <=> age < (GoodMinutes + 1) * MinuteSecs
      BY <3>1, WholeMinutes, RustTableAssumption
    <3> QED
      BY <2>2, <3>2 DEF WithinMinutes, Promised!Recent, StaleAge
  <2> QED
    BY <2>1, <2>2
<1>2. /\ e.last_query \in Instant \cup {Never} /\ e.last_response \in Instant \cup {Never}
  BY DEF RoutingEntry
<1>3. /\ WithinMinutes(e.last_query) <=> Promised!Recent(e.last_query)
      /\ WithinMinutes(e.last_response) <=> Promised!Recent(e.last_response)
  BY <1>1, <1>2
<1>4. WithinMinutes(e.last_response) => e.last_response # Never
  BY DEF WithinMinutes
<1> QED
  BY <1>3, <1>4 DEF rating, Promised!Silent

\* Both write an entry the same way.
LEMMA SameEntries ==
  /\ \A e \in RoutingEntry : \A seen_in : Promised!Heard(e, seen_in) = updated(e, seen_in)
  /\ \A node \in NodeContactInfo : \A seen_in :
       Promised!New(node, seen_in) = updated(newEntry(node), seen_in)
<1>1. \A e, seen_in : Promised!Heard(e, seen_in) = updated(e, seen_in)
  BY DEF Promised!Heard, updated
<1>2. \A node : [node |-> node, last_query |-> Never, last_response |-> Never] = newEntry(node)
  BY DEF newEntry
<1> QED
  BY <1>1, <1>2 DEF Promised!New

-----------------------------------------------------------------------------
\* The steps.

\* Overwriting an entry of the table takes it out and puts the new one in.
LEMMA OverwriteEntries ==
  ASSUME IInv, splitting = NoSplit, splitting' = NoSplit,
         NEW n \in DOMAIN buckets, NEW p \in Occupied(buckets[n].entries),
         NEW e \in RoutingEntry, buckets' = WithEntry(n, p, e)
  PROVE  /\ buckets[n].entries.data[p] \in Entries
         /\ Entries' = (Entries \ {buckets[n].entries.data[p]}) \cup {e}
         /\ buckets'[Len(buckets')].bounds.start = buckets[Len(buckets)].bounds.start
<1> DEFINE v   == buckets[n].entries
           old == v.data[p]
           w   == [v EXCEPT !.data[p] = e]
<1>1. HoldsItsOwn(v, n, Len(buckets))
  BY DEF IInv, BucketsHoldTheirOwn
<1>2. WellFormed(w) /\ EntriesIn(w) = (EntriesIn(v) \ {old}) \cup {e}
  BY <1>1, OverwriteFacts, EntriesOfOverwrite DEF HoldsItsOwn
<1>3. old \in EntriesIn(v)
  BY EntriesOfVector
<1>4. buckets' = [buckets EXCEPT ![n].entries = w]
  BY DEF WithEntry
<1> HIDE DEF w, old
<1>5. /\ DOMAIN buckets' = DOMAIN buckets
      /\ \A k \in DOMAIN buckets : EntriesIn(buckets'[k].entries) =
           IF k = n THEN EntriesIn(w) ELSE EntriesIn(buckets[k].entries)
      /\ buckets'[Len(buckets')].bounds.start = buckets[Len(buckets)].bounds.start
  BY <1>2, <1>4, EntriesOfOneBucket DEF WellFormed, IInv
<1>6. ASSUME NEW k \in DOMAIN buckets, old \in EntriesIn(buckets[k].entries)
      PROVE  k = n
  BY <1>3, <1>6, EntryInBucket
<1>7. ASSUME NEW x PROVE x \in Entries' <=> x \in (Entries \ {old}) \cup {e}
  <2>1. /\ x \in Entries <=> \E k \in DOMAIN buckets : x \in EntriesIn(buckets[k].entries)
        /\ x \in Entries' <=> \E k \in DOMAIN buckets' : x \in EntriesIn(buckets'[k].entries)
    BY EntriesMeans
  <2>2. ASSUME x \in Entries' PROVE x \in (Entries \ {old}) \cup {e}
    <3>1. PICK k \in DOMAIN buckets : x \in EntriesIn(buckets'[k].entries)
      BY <1>5, <2>1, <2>2
    <3>2. CASE k = n
      BY <1>2, <1>5, <2>1, <3>1, <3>2
    <3>3. CASE k # n
      BY <1>5, <1>6, <2>1, <3>1, <3>3
    <3> QED
      BY <3>2, <3>3
  <2>3. ASSUME x \in (Entries \ {old}) \cup {e} PROVE x \in Entries'
    <3>1. CASE x = e
      BY <1>2, <1>5, <2>1, <3>1
    <3>2. CASE x # e
      <4>1. PICK k \in DOMAIN buckets : x \in EntriesIn(buckets[k].entries) /\ x # old
        BY <2>1, <2>3, <3>2
      <4> QED
        BY <1>2, <1>5, <2>1, <4>1
    <3> QED
      BY <3>1, <3>2
  <2> QED
    BY <2>2, <2>3
<1>8. old \in Entries
  BY <1>3, EntriesMeans
<1>9. Entries' = (Entries \ {old}) \cup {e}
  BY <1>7
<1> QED
  BY <1>5, <1>8, <1>9 DEF old

LEMMA UpdateKnownHears ==
  ASSUME IInv, NEW node \in Contacts, NEW seen_in \in SeenIn, UpdateKnown(node, seen_in)
  PROVE  Promised!Next
<1> DEFINE n == bucketIndex(node.id)
           v == buckets[n].entries
           p == First(PositionsOf(v, node.id))
           e == v.data[p]
<1>1. /\ n \in DOMAIN buckets /\ HoldsItsOwn(v, n, Len(buckets))
      /\ splitting = NoSplit
  BY UpdateFacts DEF UpdateKnown
<1>2. p \in PositionsOf(v, node.id)
  <2>1. PositionsOf(v, node.id) \in SUBSET Slot
    BY DEF PositionsOf
  <2> QED
    BY <2>1, FirstFacts DEF UpdateKnown
<1>3. p \in Occupied(v)
  BY <1>2 DEF PositionsOf, Occupied
<1>4. e \in RoutingEntry
  BY <1>1, <1>3, VectorFacts DEF HoldsItsOwn
<1>5. buckets' = WithEntry(n, p, updated(e, seen_in)) /\ UNCHANGED <<splitting, panicked>>
  BY DEF UpdateKnown
<1> HIDE DEF n, p
<1>6. updated(e, seen_in) \in RoutingEntry /\ updated(e, seen_in) = Promised!Heard(e, seen_in)
  BY <1>4, EntryFacts, SameEntries
<1>7. /\ e \in Entries
      /\ Entries' = (Entries \ {e}) \cup {updated(e, seen_in)}
      /\ buckets'[Len(buckets')].bounds.start = buckets[Len(buckets)].bounds.start
  BY <1>1, <1>3, <1>5, <1>6, OverwriteEntries
<1>8. Promised!Hear(e, seen_in)
  BY <1>6, <1>7 DEF Promised!Hear
<1> QED
  BY <1>7, <1>8 DEF Promised!Next

\* A node without an entry: what RatedContacts sees of its bucket.
LEMMA NewNodeFacts ==
  ASSUME IInv, NEW node \in Contacts, IsNew(node)
  PROVE  LET n == bucketIndex(node.id)
             v == buckets[n].entries
         IN  /\ n \in DOMAIN buckets /\ WellFormed(v) /\ splitting = NoSplit
             /\ Promised!IsStranger(node)
             /\ Promised!Rivals(node.id) = EntriesIn(v)
             /\ Promised!IsCrowded(node) <=> is_full(v)
<1> DEFINE n == bucketIndex(node.id)
           v == buckets[n].entries
<1>1. /\ n \in DOMAIN buckets /\ n = Place(node.id, Len(buckets))
      /\ node.id \in NodeId /\ node.id # reference_id
      /\ HoldsItsOwn(v, n, Len(buckets)) /\ splitting = NoSplit
  BY UpdateFacts DEF IsNew
<1>2. \A e \in EntriesIn(v) : e.node.id # node.id
  <2>1. \A j \in Occupied(v) : v.data[j].node.id # node.id
    BY IsNewFacts DEF bucketOf, IdAt
  <2> QED
    BY <2>1, EntriesOfVector
<1>3. Promised!IsStranger(node)
  BY <1>1, <1>2, StrangerFacts
<1>4. /\ Promised!Rivals(node.id) = EntriesIn(v)
      /\ Promised!Cardinality(Promised!Rivals(node.id)) = v.length
  BY <1>1, RivalsInBucket
<1> QED
  BY <1>1, <1>3, <1>4 DEF HoldsItsOwn, Promised!IsCrowded, is_full

LEMMA ReplaceBadReplaces ==
  ASSUME IInv, NEW node \in Contacts, NEW seen_in \in SeenIn, ReplaceBad(node, seen_in)
  PROVE  Promised!Next
<1> DEFINE n   == bucketIndex(node.id)
           v   == buckets[n].entries
           bad == BadPositions(v)
           p   == First(bad)
           e   == updated(newEntry(node), seen_in)
           old == v.data[p]
<1>1. /\ n \in DOMAIN buckets /\ WellFormed(v) /\ splitting = NoSplit
      /\ Promised!IsStranger(node) /\ Promised!IsCrowded(node)
      /\ Promised!Rivals(node.id) = EntriesIn(v)
  BY NewNodeFacts DEF ReplaceBad
<1>2. p \in bad
  <2>1. bad \in SUBSET Slot
    BY DEF BadPositions
  <2> QED
    BY <2>1, FirstFacts DEF ReplaceBad
<1>3. p \in Occupied(v) /\ rating(old) = "Bad"
  BY <1>2 DEF BadPositions, Occupied
<1>4. old \in RoutingEntry /\ old \in EntriesIn(v)
  BY <1>1, <1>3, VectorFacts, EntriesOfVector
<1>5. Promised!Silent(old)
  BY <1>3, <1>4, BadIsSilent
<1>6. buckets' = WithEntry(n, p, e) /\ UNCHANGED <<splitting, panicked>>
  BY DEF ReplaceBad
<1>7. e \in RoutingEntry /\ e = Promised!New(node, seen_in)
  BY NewEntryFacts, SameEntries
<1> HIDE DEF n, p, e
<1>8. /\ old \in Entries
      /\ Entries' = (Entries \ {old}) \cup {e}
      /\ buckets'[Len(buckets')].bounds.start = buckets[Len(buckets)].bounds.start
  BY <1>1, <1>3, <1>6, <1>7, OverwriteEntries
<1>9. Promised!Replace(old, node, seen_in)
  BY <1>1, <1>4, <1>5, <1>7, <1>8 DEF Promised!Replace
<1> QED
  BY <1>8, <1>9 DEF Promised!Next

LEMMA InsertIntoSlotLearns ==
  ASSUME IInv, NEW node \in Contacts, NEW seen_in \in SeenIn,
         InsertIntoSlot(node, seen_in)
  PROVE  Promised!Next
<1> DEFINE n == bucketIndex(node.id)
           v == buckets[n].entries
           e == updated(newEntry(node), seen_in)
           w == push(v, e)
<1>1. /\ n \in DOMAIN buckets /\ WellFormed(v) /\ splitting = NoSplit
      /\ Promised!IsStranger(node)
      /\ Promised!IsCrowded(node) <=> is_full(v)
  BY NewNodeFacts DEF InsertIntoSlot
<1>2. /\ v.length < BUCKET_SIZE /\ buckets' = [buckets EXCEPT ![n].entries = w]
      /\ UNCHANGED <<splitting, panicked>>
  BY DEF InsertIntoSlot, is_not_full
<1>3. e \in RoutingEntry /\ e = Promised!New(node, seen_in)
  BY NewEntryFacts, SameEntries
<1>4. ~ Promised!IsCrowded(node)
  BY <1>1, <1>2, FixedVecAssumption DEF is_full
<1> HIDE DEF n, e
<1>5. w \in Vectors /\ EntriesIn(w) = EntriesIn(v) \cup {e}
  BY <1>1, <1>2, <1>3, PushFacts, EntriesOfPush DEF WellFormed
<1> HIDE DEF w
<1>6. /\ DOMAIN buckets' = DOMAIN buckets
      /\ \A k \in DOMAIN buckets : EntriesIn(buckets'[k].entries) =
           IF k = n THEN EntriesIn(w) ELSE EntriesIn(buckets[k].entries)
      /\ buckets'[Len(buckets')].bounds.start = buckets[Len(buckets)].bounds.start
  BY <1>1, <1>2, <1>5, EntriesOfOneBucket DEF IInv
<1>7. ASSUME NEW x PROVE x \in Entries' <=> x \in Entries \cup {e}
  <2>1. /\ x \in Entries <=> \E k \in DOMAIN buckets : x \in EntriesIn(buckets[k].entries)
        /\ x \in Entries' <=> \E k \in DOMAIN buckets' : x \in EntriesIn(buckets'[k].entries)
    BY <1>1, <1>2, EntriesMeans
  <2> QED
    BY <1>1, <1>5, <1>6, <2>1
<1>8. Entries' = Entries \cup {e}
  BY <1>7
<1>9. Promised!Learn(node, seen_in)
  BY <1>1, <1>3, <1>4, <1>6, <1>8 DEF Promised!Learn
<1> QED
  BY <1>9 DEF Promised!Next

\* A split that starts has moved nothing.
LEMMA StartSplitIsUnseen ==
  ASSUME NEW node, NEW seen_in, StartSplit(node, seen_in)
  PROVE  UNCHANGED Promised!vars
<1>1. /\ splitting = NoSplit /\ UNCHANGED buckets
      /\ splitting'.drained_upper_nodes = new
  BY DEF StartSplit, IsFullOfOthers, IsNew, Idle
<1>2. ASSUME NEW x PROVE x \in Entries' <=> x \in Entries
  BY <1>1, EntriesMeans, EntriesOfNew
<1>3. Entries' = Entries
  BY <1>2
<1> QED
  BY <1>1, <1>3 DEF Promised!vars

LEMMA KeepInLowerIsUnseen ==
  ASSUME IInv, KeepInLower
  PROVE  UNCHANGED Promised!vars
<1>1. /\ splitting \in SplitInProgress /\ splitting # NoSplit
      /\ splitting' = [splitting EXCEPT !.i = @ + 1] /\ UNCHANGED buckets
  BY LoopFacts DEF KeepInLower, InLoop
<1>2. splitting' \in SplitInProgress
  BY <1>1 DEF SplitInProgress
<1>3. /\ splitting'.drained_upper_nodes = splitting.drained_upper_nodes
      /\ splitting' # NoSplit
  BY <1>1, <1>2, RustTableAssumption DEF SplitInProgress
<1>4. ASSUME NEW x PROVE x \in Entries' <=> x \in Entries
  BY <1>1, <1>3, EntriesMeans
<1>5. Entries' = Entries
  BY <1>4
<1> QED
  BY <1>1, <1>5 DEF Promised!vars

LEMMA DrainToUpperIsUnseen ==
  ASSUME IInv, DrainToUpper
  PROVE  UNCHANGED Promised!vars
<1> DEFINE n       == Len(buckets)
           v       == buckets[n].entries
           drained == splitting.drained_upper_nodes
           removed == swap_remove(v, splitting.i)
           w       == removed.rest
           item    == removed.item
           more    == push(drained, item)
<1>1. /\ splitting \in SplitInProgress /\ splitting # NoSplit /\ SplitIndex = n
      /\ n \in DOMAIN buckets
      /\ HoldsItsOwn(v, n, n) /\ IsSplitOf(splitting, v, n)
  BY LoopFacts DEF DrainToUpper, InLoop
<1>2. splitting.i \in Occupied(v)
  BY InLoopFacts DEF DrainToUpper
<1>3. /\ buckets' = [buckets EXCEPT ![n].entries = w]
      /\ splitting' = [splitting EXCEPT !.drained_upper_nodes = more]
  BY <1>1 DEF DrainToUpper
<1>4. /\ WellFormed(v) /\ WellFormed(drained)
      /\ v.length \in 0 .. BUCKET_SIZE /\ drained.length \in 0 .. BUCKET_SIZE
      /\ v.length + drained.length = BUCKET_SIZE
  BY <1>1, SplitFacts
<1>5. /\ item = v.data[splitting.i] /\ WellFormed(w)
      /\ item \in RoutingEntry /\ v.length # 0
      /\ EntriesIn(v) = EntriesIn(w) \cup {item}
  BY <1>2, <1>4, SwapRemoveFacts, EntriesOfSwapRemove, VectorFacts
<1>6. /\ more \in Vectors /\ EntriesIn(more) = EntriesIn(drained) \cup {item}
  <2>1. drained.length < BUCKET_SIZE
    BY <1>4, <1>5, FixedVecAssumption
  <2> HIDE DEF item, drained
  <2> QED
    BY <1>4, <1>5, <2>1, PushFacts, EntriesOfPush DEF WellFormed
<1> HIDE DEF item, more, w
<1>7. splitting'.drained_upper_nodes = more /\ splitting' # NoSplit
  <2>1. splitting' \in SplitInProgress
    BY <1>1, <1>3, <1>6 DEF SplitInProgress
  <2> QED
    BY <1>1, <1>3, <2>1, RustTableAssumption DEF SplitInProgress
<1>8. n = Len(buckets)
  OBVIOUS
<1> HIDE DEF n
<1>9. /\ DOMAIN buckets' = DOMAIN buckets
      /\ \A k \in DOMAIN buckets : EntriesIn(buckets'[k].entries) =
           IF k = n THEN EntriesIn(w) ELSE EntriesIn(buckets[k].entries)
      /\ buckets'[Len(buckets')].bounds.start = buckets[Len(buckets)].bounds.start
  BY <1>1, <1>3, <1>5, EntriesOfOneBucket DEF WellFormed, IInv
<1>10. ASSUME NEW x PROVE x \in Entries' <=> x \in Entries
  <2>1. x \in Entries <=> \/ \E k \in DOMAIN buckets : x \in EntriesIn(buckets[k].entries)
                          \/ x \in EntriesIn(drained)
    BY <1>1, EntriesMeans
  <2>2. x \in Entries' <=> \/ \E k \in DOMAIN buckets : x \in EntriesIn(buckets'[k].entries)
                           \/ x \in EntriesIn(more)
    BY <1>7, <1>9, EntriesMeans
  <2>3. (\E k \in DOMAIN buckets : x \in EntriesIn(buckets'[k].entries)) <=>
          \/ x \in EntriesIn(w)
          \/ \E k \in DOMAIN buckets : k # n /\ x \in EntriesIn(buckets[k].entries)
    BY <1>1, <1>9
  <2>4. (\E k \in DOMAIN buckets : x \in EntriesIn(buckets[k].entries)) <=>
          \/ x \in EntriesIn(v)
          \/ \E k \in DOMAIN buckets : k # n /\ x \in EntriesIn(buckets[k].entries)
    BY <1>1
  <2> QED
    BY <1>5, <1>6, <2>1, <2>2, <2>3, <2>4
<1>11. Entries' = Entries
  BY <1>10
<1> QED
  BY <1>9, <1>11 DEF Promised!vars

\* The entries put back are those of both vectors.
LEMMA RevertSplitIsUnseen ==
  ASSUME IInv, RevertSplit
  PROVE  UNCHANGED Promised!vars
<1> DEFINE n       == Len(buckets)
           v       == buckets[n].entries
           drained == splitting.drained_upper_nodes
           w       == append(v, drained)
<1>1. /\ splitting \in SplitInProgress /\ splitting # NoSplit /\ SplitIndex = n
      /\ n \in DOMAIN buckets
      /\ HoldsItsOwn(v, n, n) /\ IsSplitOf(splitting, v, n)
  BY LoopFacts DEF RevertSplit, Drained
<1>2. /\ buckets' = [buckets EXCEPT ![n].entries = w] /\ splitting' = NoSplit
  BY <1>1 DEF RevertSplit
<1>3. /\ WellFormed(v) /\ WellFormed(drained)
  BY <1>1, SplitFacts
<1>4. v.length = 0 \/ drained.length = 0
  BY RevertSplitHasAnEmptyHalf
<1>5. w \in Vectors /\ EntriesIn(w) = EntriesIn(v) \cup EntriesIn(drained)
  <2>1. \A u : u.length = 0 => EntriesIn(u) = {}
    BY FixedVecAssumption DEF EntriesIn, Slot
  <2> QED
    BY <1>3, <1>4, <2>1, AppendFacts DEF WellFormed
<1>6. n = Len(buckets)
  OBVIOUS
<1> HIDE DEF n, w
<1>7. /\ DOMAIN buckets' = DOMAIN buckets
      /\ \A k \in DOMAIN buckets : EntriesIn(buckets'[k].entries) =
           IF k = n THEN EntriesIn(w) ELSE EntriesIn(buckets[k].entries)
      /\ buckets'[Len(buckets')].bounds.start = buckets[Len(buckets)].bounds.start
  BY <1>1, <1>2, <1>5, EntriesOfOneBucket DEF IInv
<1>8. ASSUME NEW x PROVE x \in Entries' <=> x \in Entries
  <2>1. x \in Entries <=> \/ \E k \in DOMAIN buckets : x \in EntriesIn(buckets[k].entries)
                          \/ x \in EntriesIn(drained)
    BY <1>1, EntriesMeans
  <2>2. x \in Entries' <=> \E k \in DOMAIN buckets : x \in EntriesIn(buckets'[k].entries)
    BY <1>2, <1>7, EntriesMeans
  <2> QED
    BY <1>1, <1>5, <1>7, <2>1, <2>2
<1>9. Entries' = Entries
  BY <1>8
<1> QED
  BY <1>7, <1>9 DEF Promised!vars

\* While a bucket is split, those competing with the new entry are the entries
\* of both vectors, which no split so far has made fewer.
LEMMA RivalsWhileSplitting ==
  ASSUME IInv, splitting # NoSplit
  PROVE  LET id      == splitting.new_entry.node.id
             v       == buckets[Len(buckets)].entries
             drained == splitting.drained_upper_nodes
         IN  /\ Promised!Rivals(id) = EntriesIn(v) \cup EntriesIn(drained)
             /\ Promised!Cardinality(Promised!Rivals(id)) = BUCKET_SIZE
             /\ \A e \in Promised!Rivals(id) : ~ Promised!Silent(e)
             /\ Promised!IsStranger(splitting.new_entry.node)
<1> USE IdBitsAssumption, FixedVecAssumption
<1> DEFINE n       == Len(buckets)
           v       == buckets[n].entries
           drained == splitting.drained_upper_nodes
           id      == splitting.new_entry.node.id
<1>1. /\ splitting \in SplitInProgress /\ n \in DOMAIN buckets
      /\ n \in 1 .. IdBits - 1 /\ id \in NodeId
      /\ HoldsItsOwn(v, n, n) /\ IsSplitOf(splitting, v, n)
  BY LoopFacts
<1>2. /\ WellFormed(v) /\ Distinct(v) /\ WellFormed(drained) /\ Distinct(drained)
      /\ v.length \in 0 .. BUCKET_SIZE /\ drained.length \in 0 .. BUCKET_SIZE
      /\ v.length + drained.length = BUCKET_SIZE /\ id # reference_id
  BY <1>1, SplitFacts
<1>3. StaysInLower(splitting, v, n) /\ GoesUp(splitting, drained, n) /\ Place(id, n) = n
  BY <1>1 DEF IsSplitOf
<1>4. ASSUME NEW e \in EntriesIn(v)
      PROVE  /\ e \in RoutingEntry /\ e.node.id \in NodeId /\ Place(e.node.id, n) = n
             /\ e.node.id # id /\ rating(e) # "Bad"
             /\ \A x \in EntriesIn(drained) : e.node.id # x.node.id
  <2>1. PICK j \in Occupied(v) : e = v.data[j]
    BY EntriesOfVector
  <2>2. /\ IdAt(v, j) # id /\ rating(v.data[j]) # "Bad"
        /\ \A k \in Occupied(drained) : IdAt(v, j) # IdAt(drained, k)
    BY <1>3 DEF StaysInLower
  <2>3. \A x \in EntriesIn(drained) : e.node.id # x.node.id
    <3> TAKE x \in EntriesIn(drained)
    <3>1. PICK k \in Occupied(drained) : x = drained.data[k]
      BY EntriesOfVector
    <3> QED
      BY <2>1, <2>2, <3>1 DEF IdAt
  <2> QED
    BY <1>1, <2>1, <2>2, <2>3, EntryInBucket DEF IdAt
<1>5. ASSUME NEW e \in EntriesIn(drained)
      PROVE  /\ e \in RoutingEntry /\ e.node.id \in NodeId /\ Place(e.node.id, n) = n
             /\ e.node.id # id /\ rating(e) # "Bad"
  <2>1. PICK k \in Occupied(drained) : e = drained.data[k]
    BY EntriesOfVector
  <2>2. e \in RoutingEntry /\ IdAt(drained, k) \in NodeId /\ e.node.id = IdAt(drained, k)
    BY <1>2, <2>1, VectorFacts DEF IdAt
  <2>3. /\ prefixLength(IdAt(drained, k)) >= n
        /\ IdAt(drained, k) # id /\ rating(drained.data[k]) # "Bad"
    BY <1>3 DEF GoesUp
  <2>4. Place(IdAt(drained, k), n) = n
    BY <1>1, <2>2, <2>3, PrefixFacts DEF Place
  <2> QED
    BY <2>1, <2>2, <2>3, <2>4
<1> DEFINE both == EntriesIn(v) \cup EntriesIn(drained)
<1>6. ASSUME NEW e
      PROVE  e \in Entries <=>
               e \in both \/ \E k \in DOMAIN buckets : k # n /\ e \in EntriesIn(buckets[k].entries)
  BY <1>1, EntriesMeans
<1>7. ASSUME NEW k \in DOMAIN buckets, k # n, NEW e \in EntriesIn(buckets[k].entries)
      PROVE  e.node.id \in NodeId /\ Place(e.node.id, n) = k
  BY EntryInBucket
<1>8. ASSUME NEW e \in Entries
      PROVE  /\ e.node.id \in NodeId /\ e.node.id # id
             /\ Place(e.node.id, n) = n <=> e \in both
  <2>1. CASE e \in both
    BY <1>4, <1>5, <2>1
  <2>2. CASE e \notin both
    <3>1. PICK k \in DOMAIN buckets : k # n /\ e \in EntriesIn(buckets[k].entries)
      BY <1>6, <2>2
    <3>2. e.node.id \in NodeId /\ Place(e.node.id, n) = k
      BY <1>7, <3>1
    <3> QED
      BY <1>3, <2>2, <3>1, <3>2
  <2> QED
    BY <2>1, <2>2
<1>9. ASSUME NEW e \in Entries
      PROVE  Promised!Share(e.node.id) = Promised!Share(id) <=> e \in both
  <2>1. /\ Promised!Share(e.node.id) = Place(e.node.id, n) - 1
        /\ Promised!Share(id) = n - 1
    BY <1>1, <1>3, <1>8, ShareIsPlace
  <2>2. Place(e.node.id, n) \in Int /\ n \in Int
    BY <1>1, <1>8, PrefixFacts DEF Place
  <2> HIDE DEF both, n
  <2> QED
    BY <1>8, <2>1, <2>2
<1>10. Promised!Rivals(id) = both
  BY <1>6, <1>9 DEF Promised!Rivals
<1>11. Cardinality(both) = BUCKET_SIZE
  <2>1. /\ IsFiniteSet(EntriesIn(v)) /\ Cardinality(EntriesIn(v)) = v.length
        /\ IsFiniteSet(EntriesIn(drained)) /\ Cardinality(EntriesIn(drained)) = drained.length
    BY <1>2, EntriesCounted
  <2>2. EntriesIn(v) \cap EntriesIn(drained) = {}
    BY <1>4
  <2>3. Cardinality(EntriesIn(v) \cap EntriesIn(drained)) = 0
    BY <2>2, FS_EmptySet
  <2>4. Cardinality(both) = v.length + drained.length - 0
    BY <2>1, <2>3, FS_Union
  <2> QED
    BY <1>2, <2>4
<1>12. \A e \in both : ~ Promised!Silent(e)
  BY <1>4, <1>5, BadIsSilent
<1>13. Promised!IsStranger(splitting.new_entry.node)
  BY <1>2, <1>8 DEF Promised!IsStranger
<1> HIDE DEF both
<1>14. Promised!Cardinality(both) = BUCKET_SIZE
  BY <1>11, SameOperators
<1> QED
  BY <1>10, <1>12, <1>13, <1>14 DEF both

\* A split that is done keeps every entry, adds the new one and leaves room.
LEMMA SplitDivides ==
  ASSUME IInv, IInv', splitting # NoSplit, NEW lower, NEW upper,
         WellFormed(lower), WellFormed(upper), SplitInto(lower, upper),
         EntriesIn(lower) \cup EntriesIn(upper) =
           (EntriesIn(buckets[Len(buckets)].entries) \cup
            EntriesIn(splitting.drained_upper_nodes)) \cup {splitting.new_entry}
  PROVE  Promised!Next
<1> USE IdBitsAssumption
<1> DEFINE n       == Len(buckets)
           v       == buckets[n].entries
           drained == splitting.drained_upper_nodes
           e       == splitting.new_entry
<1>1. /\ splitting \in SplitInProgress /\ n \in DOMAIN buckets
      /\ n \in 1 .. IdBits - 1 /\ e.node.id \in NodeId
      /\ HoldsItsOwn(v, n, n) /\ IsSplitOf(splitting, v, n)
  BY LoopFacts
<1>2. PICK node \in Contacts, seen_in \in SeenIn : e = updated(newEntry(node), seen_in)
  BY <1>1 DEF IsSplitOf
<1>3. e.node = node /\ e = Promised!New(node, seen_in)
  BY <1>2, NewEntryFacts, SameEntries
<1>4. /\ e.node.id # reference_id /\ Place(e.node.id, n) = n
  BY <1>1 DEF IsSplitOf
<1>5. /\ lower \in Vectors /\ upper \in Vectors
  BY DEF WellFormed
<1>6. /\ Len(buckets') = n + 1 /\ DOMAIN buckets' = 1 .. n + 1
      /\ \A k \in 1 .. n - 1 : buckets'[k] = buckets[k]
      /\ buckets'[n] = [entries |-> lower, bounds |-> [start |-> n - 1, end |-> n]]
      /\ buckets'[n + 1] = [entries |-> upper,
                            bounds  |-> [start |-> n, end |-> IdBits]]
      /\ splitting' = NoSplit
  BY <1>5, SplitIntoFacts
<1>7. /\ Promised!IsStranger(node) /\ Promised!IsCrowded(node)
      /\ \A x \in Promised!Rivals(node.id) : ~ Promised!Silent(x)
  BY <1>3, RivalsWhileSplitting DEF Promised!IsCrowded
<1>8. /\ Promised!Share(node.id) = n - 1
      /\ buckets[n].bounds.start = n - 1
  BY <1>1, <1>3, <1>4, ShareIsPlace
<1>9. n - 1 < IdBits - 1 /\ DOMAIN buckets = 1 .. n
  BY <1>1, BucketFacts DEF IInv
<1>10. buckets'[Len(buckets')].bounds.start = n - 1 + 1
  <2>1. buckets'[n + 1].bounds.start = n
    BY <1>6
  <2> QED
    BY <1>1, <1>6, <2>1
<1>11. Entries' = Entries \cup {e}
  <2>1. ASSUME NEW x PROVE x \in Entries' <=> x \in Entries \cup {e}
    <3> DEFINE elsewhere == \E k \in 1 .. n - 1 : x \in EntriesIn(buckets[k].entries)
    <3>1. x \in Entries <=> \/ elsewhere
                            \/ x \in EntriesIn(v) \/ x \in EntriesIn(drained)
      <4>1. x \in Entries <=> \/ \E k \in DOMAIN buckets : x \in EntriesIn(buckets[k].entries)
                              \/ x \in EntriesIn(drained)
        BY EntriesMeans
      <4>2. \A k \in DOMAIN buckets : k \in 1 .. n - 1 \/ k = n
        BY <1>1, <1>9
      <4>3. \A k \in 1 .. n - 1 : k \in DOMAIN buckets
        BY <1>1, <1>9
      <4> QED
        BY <1>1, <4>1, <4>2, <4>3
    <3>2. x \in Entries' <=> \/ elsewhere
                             \/ x \in EntriesIn(lower) \/ x \in EntriesIn(upper)
      <4>1. x \in Entries' <=>
              \E k \in DOMAIN buckets' : x \in EntriesIn(buckets'[k].entries)
        BY <1>6, EntriesMeans
      <4>2. \A k \in 1 .. n + 1 : k \in 1 .. n - 1 \/ k = n \/ k = n + 1
        BY <1>1
      <4>3. /\ \A k \in 1 .. n - 1 : k \in 1 .. n + 1
            /\ n \in 1 .. n + 1 /\ n + 1 \in 1 .. n + 1
        BY <1>1
      <4>4. buckets'[n].entries = lower /\ buckets'[n + 1].entries = upper
        BY <1>6
      <4> HIDE DEF n
      <4> QED
        BY <1>6, <4>1, <4>2, <4>3, <4>4
    <3> HIDE DEF elsewhere
    <3> QED
      BY <3>1, <3>2
  <2> QED
    BY <2>1
<1>12. Promised!Cardinality(Promised!Rivals(node.id)') <= BUCKET_SIZE
  <2>1. IInv' /\ splitting' = NoSplit =>
          \A id \in NodeId : id # reference_id =>
            Promised!Cardinality(Promised!Rivals(id)') <= BUCKET_SIZE
    BY RivalsInBucketAfter
  <2> QED
    BY <1>1, <1>3, <1>4, <1>6, <2>1
<1>13. Promised!Divide(node, seen_in)
  <2>1. /\ Promised!Share(node.id) = buckets[Len(buckets)].bounds.start
        /\ buckets[Len(buckets)].bounds.start < IdBits - 1
        /\ buckets'[Len(buckets')].bounds.start = buckets[Len(buckets)].bounds.start + 1
    BY <1>8, <1>9, <1>10
  <2>2. Entries' = Entries \cup {Promised!New(node, seen_in)}
    BY <1>3, <1>11
  <2> QED
    BY <1>7, <1>12, <2>1, <2>2 DEF Promised!Divide
<1> QED
  BY <1>13 DEF Promised!Next

LEMMA SplitLowerDivides ==
  ASSUME IInv, SplitLower
  PROVE  Promised!Next
<1> DEFINE v       == buckets[Len(buckets)].entries
           drained == splitting.drained_upper_nodes
           e       == splitting.new_entry
           lower   == push(v, e)
<1>1. /\ splitting \in SplitInProgress /\ splitting # NoSplit
      /\ SplitIndex = Len(buckets) /\ e \in RoutingEntry
      /\ HoldsItsOwn(v, Len(buckets), Len(buckets))
      /\ IsSplitOf(splitting, v, Len(buckets))
  BY LoopFacts DEF SplitLower, Drained
<1>2. WellFormed(v) /\ WellFormed(drained)
  BY <1>1, SplitFacts
<1>3. append(new, drained) = drained
  BY <1>2, AppendFacts, NewFacts
<1>4. v.length < BUCKET_SIZE /\ SplitInto(lower, drained)
  BY <1>1, <1>3 DEF SplitLower, GoesToLower, is_not_full
<1>5. WellFormed(lower) /\ EntriesIn(lower) = EntriesIn(v) \cup {e}
  BY <1>1, <1>2, <1>4, PushFacts, EntriesOfPush
<1>6. IInv'
  BY SplitLowerKeeps
<1> HIDE DEF lower
<1>7. EntriesIn(lower) \cup EntriesIn(drained) =
        (EntriesIn(v) \cup EntriesIn(drained)) \cup {e}
  BY <1>5
<1> QED
  BY <1>1, <1>2, <1>4, <1>5, <1>6, <1>7, SplitDivides

LEMMA SplitUpperDivides ==
  ASSUME IInv, SplitUpper
  PROVE  Promised!Next
<1> DEFINE v       == buckets[Len(buckets)].entries
           drained == splitting.drained_upper_nodes
           e       == splitting.new_entry
           upper   == push(drained, e)
<1>1. /\ splitting \in SplitInProgress /\ splitting # NoSplit
      /\ SplitIndex = Len(buckets) /\ e \in RoutingEntry
      /\ HoldsItsOwn(v, Len(buckets), Len(buckets))
      /\ IsSplitOf(splitting, v, Len(buckets))
  BY LoopFacts DEF SplitUpper, Drained
<1>2. WellFormed(v) /\ WellFormed(drained)
  BY <1>1, SplitFacts
<1>3. append(new, drained) = drained
  BY <1>2, AppendFacts, NewFacts
<1>4. drained.length < BUCKET_SIZE /\ SplitInto(v, upper)
  BY <1>1, <1>3 DEF SplitUpper, GoesToUpper, is_not_full
<1>5. WellFormed(upper) /\ EntriesIn(upper) = EntriesIn(drained) \cup {e}
  BY <1>1, <1>2, <1>4, PushFacts, EntriesOfPush
<1>6. IInv'
  BY SplitUpperKeeps
<1> HIDE DEF upper
<1>7. EntriesIn(v) \cup EntriesIn(upper) =
        (EntriesIn(v) \cup EntriesIn(drained)) \cup {e}
  BY <1>5
<1> QED
  BY <1>1, <1>2, <1>4, <1>5, <1>6, <1>7, SplitDivides

\* Every entry grows older where it is.
LEMMA TickPasses ==
  ASSUME IInv, Tick
  PROVE  Promised!Next
<1> DEFINE older(e) == [e EXCEPT !.last_query    = Promised!Older(@),
                                 !.last_response = Promised!Older(@)]
<1>1. /\ buckets' = [n \in DOMAIN buckets |->
                       [buckets[n] EXCEPT !.entries = OlderEntries(@)]]
      /\ splitting' = NoSplit /\ splitting = NoSplit
  BY DEF Tick, Idle
<1>2. /\ Len(buckets) \in DOMAIN buckets /\ DOMAIN buckets = 1 .. Len(buckets)
      /\ \A n \in DOMAIN buckets : buckets[n] \in Bucket
  BY BucketFacts, IdBitsAssumption DEF IInv, Bounds
<1>3. /\ DOMAIN buckets' = DOMAIN buckets
      /\ \A n \in DOMAIN buckets :
           /\ buckets'[n].entries = OlderEntries(buckets[n].entries)
           /\ buckets'[n].bounds = buckets[n].bounds
  BY <1>1, <1>2 DEF Bucket
<1>4. Len(buckets') = Len(buckets)
  <2>1. IInv'
    BY TickKeeps
  <2>2. Len(buckets') \in Nat /\ DOMAIN buckets' = 1 .. Len(buckets')
    BY <2>1, LenProperties DEF IInv, TypeOK
  <2> QED
    BY <1>2, <1>3, <2>2
<1>5. \A age \in Instant \cup {Never} : Older(age) = Promised!Older(age)
  <2>1. StaleAge \in Nat
    BY RustTableAssumption DEF StaleAge
  <2> QED
    BY <2>1, RustTableAssumption DEF Older, Promised!Older, Instant
<1>6. ASSUME NEW n \in DOMAIN buckets
      PROVE  EntriesIn(buckets'[n].entries) = {older(e) : e \in EntriesIn(buckets[n].entries)}
  <2> DEFINE v == buckets[n].entries
             w == OlderEntries(v)
  <2>1. WellFormed(v)
    BY DEF IInv, BucketsHoldTheirOwn, HoldsItsOwn
  <2>2. /\ WellFormed(w) /\ Occupied(w) = Occupied(v)
        /\ \A j \in Occupied(v) :
             /\ w.data[j].node = v.data[j].node
             /\ w.data[j].last_query = Older(v.data[j].last_query)
             /\ w.data[j].last_response = Older(v.data[j].last_response)
    BY <2>1, OlderFacts
  <2> HIDE DEF w
  <2>3. ASSUME NEW j \in Occupied(v) PROVE w.data[j] = older(v.data[j])
    <3>1. v.data[j] \in RoutingEntry /\ w.data[j] \in RoutingEntry
      BY <2>1, <2>2, VectorFacts
    <3>2. /\ w.data[j].last_query = Promised!Older(v.data[j].last_query)
          /\ w.data[j].last_response = Promised!Older(v.data[j].last_response)
      BY <1>5, <2>2, <3>1 DEF RoutingEntry
    <3> QED
      BY <2>2, <3>1, <3>2 DEF RoutingEntry
  <2>4. /\ EntriesIn(w) = {w.data[j] : j \in Occupied(w)}
        /\ EntriesIn(v) = {v.data[j] : j \in Occupied(v)}
    BY EntriesOfVector
  <2> HIDE DEF older
  <2>5. EntriesIn(w) = {older(e) : e \in EntriesIn(v)}
    BY <2>2, <2>3, <2>4
  <2> QED
    BY <1>3, <2>5 DEF w
<1> HIDE DEF older
<1>7. ASSUME NEW x PROVE x \in Entries' <=> x \in {older(e) : e \in Entries}
  <2>1. x \in Entries' <=> \E k \in DOMAIN buckets : x \in EntriesIn(buckets'[k].entries)
    BY <1>1, <1>3, EntriesMeans
  <2>2. \A e : e \in Entries <=> \E k \in DOMAIN buckets : e \in EntriesIn(buckets[k].entries)
    BY <1>1, EntriesMeans
  <2>3. x \in {older(e) : e \in Entries} <=>
          \E k \in DOMAIN buckets : \E e \in EntriesIn(buckets[k].entries) : x = older(e)
    BY <2>2
  <2>4. \A k \in DOMAIN buckets : x \in EntriesIn(buckets'[k].entries) <=>
          \E e \in EntriesIn(buckets[k].entries) : x = older(e)
    BY <1>6
  <2> QED
    BY <2>1, <2>3, <2>4
<1>8. Entries' = {older(e) : e \in Entries}
  BY <1>7
<1>9. buckets'[Len(buckets')].bounds.start = buckets[Len(buckets)].bounds.start
  BY <1>2, <1>3, <1>4
<1>10. Promised!Pass
  BY <1>8, <1>9 DEF Promised!Pass, older
<1> QED
  BY <1>10 DEF Promised!Next

-----------------------------------------------------------------------------

\* A new table has one bucket without entries.
LEMMA InitKeepsPromise == Init => Promised!Init
<1> SUFFICES ASSUME Init PROVE Promised!Init
  OBVIOUS
<1>1. /\ splitting = NoSplit /\ Len(buckets) = 1 /\ DOMAIN buckets = {1}
      /\ buckets[1].entries = new /\ buckets[1].bounds.start = 0
  BY DEF Init, newBucket
<1>2. ASSUME NEW e PROVE e \notin Entries
  BY <1>1, EntriesMeans, EntriesOfNew
<1>3. Entries = {}
  BY <1>2
<1> QED
  BY <1>1, <1>3 DEF Promised!Init

LEMMA StepKeepsPromise ==
  IInv /\ [Next]_vars => [Promised!Next]_(Promised!vars)
<1> SUFFICES ASSUME IInv, [Next]_vars
             PROVE  Promised!Next \/ UNCHANGED Promised!vars
  OBVIOUS
<1>1. ASSUME UNCHANGED <<buckets, splitting>> PROVE UNCHANGED Promised!vars
  BY <1>1 DEF Promised!vars, Entries
<1>2. CASE \E node \in Contacts, seen_in \in SeenIn : update(node, seen_in)
  <2>1. PICK node \in Contacts, seen_in \in SeenIn : update(node, seen_in)
    BY <1>2
  <2>2. UpdatePanics(node) \/ Discard(node) => UNCHANGED <<buckets, splitting>>
    BY DEF UpdatePanics, Discard, vars
  <2> QED
    BY <1>1, <2>1, <2>2, UpdateKnownHears, InsertIntoSlotLearns, ReplaceBadReplaces,
       StartSplitIsUnseen
       DEF update
<1>3. CASE splitLoop
  BY <1>3, KeepInLowerIsUnseen, DrainToUpperIsUnseen, RevertSplitIsUnseen,
     SplitLowerDivides, SplitUpperDivides
     DEF splitLoop
<1>4. CASE Tick
  BY <1>4, TickPasses
<1>5. CASE UNCHANGED vars
  BY <1>1, <1>5 DEF vars
<1> QED
  BY <1>2, <1>3, <1>4, <1>5 DEF Next

\* RoutingTable::update keeps what RatedContacts promises, for every bucket
\* size, window of good nodes and sequence of contacts: a contact gives its
\* place up only to another one of its share, and only when it has fallen
\* silent; no split loses an entry.
THEOREM TableKeepsRatedContacts == Spec => KeepsRatedContacts
<1>1. Init => Promised!Init
  BY InitKeepsPromise
<1>2. IInv /\ [Next]_vars => [Promised!Next]_(Promised!vars)
  BY StepKeepsPromise
<1> QED
  BY <1>1, <1>2, RustTableInvariant, PTL DEF Spec, KeepsRatedContacts, Promised!Spec

=============================================================================
