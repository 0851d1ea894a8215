--------------------------- MODULE GoRoutingTable ---------------------------
(***************************************************************************)
(* The routing table of the Go node (go/routing_table.go and               *)
(* go/routing_bucket.go): contacts are sorted into buckets by the length   *)
(* of the prefix their identifier shares with the node's own, and only the *)
(* last bucket, the one the node itself would be in, is ever split.        *)
(*                                                                         *)
(* addEntry takes the write lock and calls addEntryRec, which calls itself *)
(* after every split until the entry is stored or dropped.  One call of    *)
(* addEntryRec is one action, and `adding` is the entry whose addEntry     *)
(* holds the lock.  The model counts buckets from 0 as the code does:      *)
(* bucket n is table[n + 1].                                               *)
(***************************************************************************)
EXTENDS NodeIds, Subsequences

CONSTANTS
  bucketSize,            \* routingTable.bucketSize, ENTRIES = 8 in main.go
  thisNodeId,            \* thisNodeInfo.nodeId
  Addresses,             \* the UDP addresses nodes are reached at
  Offered,               \* the contacts that addEntry may be called with
  NoEntry                \* adding = NoEntry: nobody holds the write lock

nodeInfo == [nodeId : NodeId, address : Addresses]

ASSUME GoTableAssumption ==
  /\ bucketSize \in Nat \ {0}
  /\ thisNodeId \in NodeId
  /\ Offered \subseteq nodeInfo
  /\ NoEntry \notin nodeInfo

VARIABLES
  table,                 \* the sequence of buckets, each a sequence of nodeInfo
  adding                 \* the argument of the addEntry under way, or NoEntry

vars == <<table, adding>>

-----------------------------------------------------------------------------
\* A bucket (routing_bucket.go).

newBucket == <<>>

containsNodeId(bucket, id) ==
  \E i \in DOMAIN bucket : isEqual(bucket[i].nodeId, id)

\* Mutant: room for one entry too few.
addSucceedsOneLess(bucket, entry) ==
  containsNodeId(bucket, entry.nodeId) \/ Len(bucket) + 1 < bucketSize

\* bucket.addEntry succeeds when the identifier is already there, and then
\* leaves the bucket as it is, or when there is room.
addSucceeds(bucket, entry) ==
  \/ containsNodeId(bucket, entry.nodeId)
  \/ Len(bucket) < bucketSize

\* Mutant: the containment check is missing.
bucketAddEntryBlindly(bucket, entry) == Append(bucket, entry)

bucketAddEntry(bucket, entry) ==
  IF containsNodeId(bucket, entry.nodeId) THEN bucket ELSE Append(bucket, entry)

\* Mutant: the loop misses the first entry.
splitAtFromSecond(bucket, bitPosition) ==
  LET ones == {i \in DOMAIN bucket : isBitSet(bucket[i].nodeId, bitPosition)}
  IN  [zeroBucket |-> Subsequence(bucket, DOMAIN bucket \ (ones \cup {1})),
       oneBucket  |-> Subsequence(bucket, ones \ {1})]

\* Both halves keep the order of the bucket.  The code refills them through
\* bucket.addEntry and ignores its `success`; SplitAsWritten in GoFindNode
\* states that nothing is refused there.
splitAt(bucket, bitPosition) ==
  LET ones == {i \in DOMAIN bucket : isBitSet(bucket[i].nodeId, bitPosition)}
  IN  [zeroBucket |-> Subsequence(bucket, DOMAIN bucket \ ones),
       oneBucket  |-> Subsequence(bucket, ones)]

-----------------------------------------------------------------------------
\* The table (routing_table.go).

currentMaxPrefixLength == Len(table) - 1

prefixLength(id) == commonPrefixLength(thisNodeId, id)

bucketIndex(id) ==
  IF prefixLength(id) < currentMaxPrefixLength
  THEN prefixLength(id) ELSE currentMaxPrefixLength

bucketOf(id) == table[bucketIndex(id) + 1]

\* Mutant: the table starts without a bucket.
InitNoBucket == table = <<>> /\ adding = NoEntry

\* newRoutingTable
Init ==
  /\ table = <<newBucket>>
  /\ adding = NoEntry

\* addEntry: take the write lock.
addEntry(entry) ==
  /\ adding = NoEntry
  /\ adding' = entry
  /\ UNCHANGED table

\* addEntryRec, the bucket accepts the entry (or knew it): store, unlock.
StoreEntry ==
  /\ adding # NoEntry
  /\ addSucceeds(bucketOf(adding.nodeId), adding)
  /\ table' = [table EXCEPT ![bucketIndex(adding.nodeId) + 1] =
                                bucketAddEntry(@, adding)]
  /\ adding' = NoEntry

\* The bucket the entry belongs into is full of other identifiers.
Refused == adding # NoEntry /\ ~ addSucceeds(bucketOf(adding.nodeId), adding)

\* Mutant: the last bucket drops entries instead of being split.
DropEntryInLastBucket ==
  /\ Refused
  /\ prefixLength(adding.nodeId) <= currentMaxPrefixLength
  /\ adding' = NoEntry
  /\ UNCHANGED table

\* addEntryRec, option 1: the full bucket is not the last one: drop, unlock.
DropEntry ==
  /\ Refused
  /\ prefixLength(adding.nodeId) < currentMaxPrefixLength
  /\ adding' = NoEntry
  /\ UNCHANGED table

MustSplit == Refused /\ prefixLength(adding.nodeId) >= currentMaxPrefixLength

\* Mutant: the wrong half is appended.
SplitBucketSwapped ==
  /\ MustSplit
  /\ LET index  == bucketIndex(adding.nodeId)
         halves == splitAt(table[index + 1], index)
     IN  table' = IF isBitSet(thisNodeId, index)
                  THEN Append([table EXCEPT ![index + 1] = halves.oneBucket],
                              halves.zeroBucket)
                  ELSE Append([table EXCEPT ![index + 1] = halves.zeroBucket],
                              halves.oneBucket)
  /\ UNCHANGED adding

\* addEntryRec, option 2: split the last bucket at its bit; the half on the
\* other side of that bit stays, the half the node itself falls into is
\* appended.  The lock is kept and addEntryRec is called again.
SplitBucket ==
  /\ MustSplit
  /\ LET index  == bucketIndex(adding.nodeId)
         halves == splitAt(table[index + 1], index)
     IN  table' = IF isBitSet(thisNodeId, index)
                  THEN Append([table EXCEPT ![index + 1] = halves.zeroBucket],
                              halves.oneBucket)
                  ELSE Append([table EXCEPT ![index + 1] = halves.oneBucket],
                              halves.zeroBucket)
  /\ UNCHANGED adding

addEntryRec == StoreEntry \/ DropEntry \/ SplitBucket

Next == (\E entry \in Offered : addEntry(entry)) \/ addEntryRec

\* The goroutine that holds the lock runs on: nothing in addEntryRec blocks.
Fairness == WF_vars(addEntryRec)

Spec == Init /\ [][Next]_vars /\ Fairness

-----------------------------------------------------------------------------
\* Properties.

\* The contacts the table holds.
Known == UNION {{b[j] : j \in DOMAIN b} : b \in {table[i] : i \in DOMAIN table}}

TypeOK ==
  /\ table \in Seq(Seq(nodeInfo))
  /\ Len(table) >= 1
  /\ adding \in Offered \cup {NoEntry}

\* Every contact is in the bucket addEntryRec and findNode look for it in,
\* also after the splits that happened since it was stored.
EveryContactInItsBucket ==
  \A i \in DOMAIN table : \A j \in DOMAIN table[i] :
    bucketIndex(table[i][j].nodeId) = i - 1

\* No identifier is stored twice: with the property above it follows for the
\* whole table, since equal identifiers look for the same bucket.
NoIdentifierTwice ==
  \A i \in DOMAIN table : \A j, k \in DOMAIN table[i] :
    table[i][j].nodeId = table[i][k].nodeId => j = k

\* A split never leaves a bucket with more than bucketSize entries.
NoBucketOverfull ==
  \A i \in DOMAIN table : Len(table[i]) <= bucketSize

\* Every bucket is a set of at most bucketSize nodes, whatever splits filled it.
BucketsAreSmallSets == NoIdentifierTwice /\ NoBucketOverfull

\* The splitAt that addEntryRec is about to do has a bit to split at, so its
\* panic "Invalid bit position" (routing_bucket.go:55) is not reached, the
\* node's own identifier offered as an entry included.
SplitAtInRange ==
  MustSplit => bucketIndex(adding.nodeId) \in BitIndex

\* newRoutingTable's comment (routing_table.go:16): a bucket whose prefix
\* leaves no more identifiers than bucketSize is never split.
SmallestBucketNeverSplit ==
  \A p \in 0 .. IdBits : 2 ^ (IdBits - p) <= bucketSize => Len(table) <= p + 1

\* A contact once stored stays stored, with the address it came with: no
\* split loses it and no later addEntry replaces it.
KnownContactsAreKept == [][Known \subseteq Known']_vars

\* The table behaves as PrefixClasses says: which contacts it ends up with
\* depends on their prefix lengths only, never on when buckets were split; and
\* every addEntry returns: the recursion of addEntryRec ends and the lock is
\* released, whatever the entries that crowd around the node's own id.
Abstract == INSTANCE PrefixClasses WITH known <- Known

AdmitsByPrefixClass == Abstract!Spec

=============================================================================
