-------------------------- MODULE RustRoutingTable --------------------------
(***************************************************************************)
(* The routing table of the Rust program (rust/src/main.rs): buckets cover *)
(* ranges of prefix lengths, entries are rated by when their node was last *)
(* heard from, and a full bucket replaces a bad entry before it is split.  *)
(*                                                                         *)
(* update is one action per outcome; the loop that drains the entries of   *)
(* the upper half out of a bucket is one action per iteration, and         *)
(* `splitting` keeps its local variables.  The table is borrowed mutably   *)
(* for the whole of update: only its own steps happen meanwhile.  The      *)
(* deque counts from 0, the sequence `buckets` from 1.                     *)
(***************************************************************************)
EXTENDS NodeIds, FixedVec

CONSTANTS
  reference_id,          \* RoutingTable.reference_id
  Addresses,             \* the socket addresses nodes are reached at
  Contacts,              \* the contacts that update may be called with
  SeenIn,                \* the ways they are seen, a subset of AllSeenIn
  MinuteSecs,            \* seconds in a minute, 60 in the code
  GoodMinutes,           \* 15 in the code
  Never,                 \* None, in last_query and last_response
  NoSplit,               \* splitting = NoSplit: update is not in the loop
  NoPanic                \* panicked = NoPanic: no lookup has panicked

AllSeenIn == {"Query", "Response", "Referral"}

NodeContactInfo == [id : NodeId, address : Addresses]

\* Seconds since an instant.  Beyond the window of good nodes all ages are
\* alike: they are counted up to StaleAge only.
StaleAge == (GoodMinutes + 1) * MinuteSecs

Instant == 0 .. StaleAge

RoutingEntry == [node          : NodeContactInfo,
                 last_response : Instant \cup {Never},
                 last_query    : Instant \cup {Never}]

Vectors == [data : [Slot -> RoutingEntry \cup {Uninit}], length : Nat]

ASSUME RustTableAssumption ==
  /\ reference_id \in NodeId
  /\ Contacts \subseteq NodeContactInfo
  /\ SeenIn \subseteq AllSeenIn
  /\ MinuteSecs \in Nat \ {0}
  /\ GoodMinutes \in Nat
  /\ Never \notin Instant
  /\ Uninit \notin RoutingEntry
  /\ NoPanic \notin NodeId
  /\ NoSplit \notin [new_entry : RoutingEntry, i : Nat,
                     drained_upper_nodes : Vectors]

VARIABLES
  buckets,               \* RoutingTable.buckets
  splitting,             \* new_entry, i and drained_upper_nodes of the loop
  panicked               \* the identifier whose lookup ended in a panic

vars == <<buckets, splitting, panicked>>

-----------------------------------------------------------------------------
\* Entries and their rating.

newEntry(node) ==
  [node |-> node, last_response |-> Never, last_query |-> Never]

\* RoutingEntry.update; a referral is no sign of life.
updated(entry, seen_in) ==
  [entry EXCEPT !.last_query    = IF seen_in = "Query" THEN 0 ELSE @,
                !.last_response = IF seen_in = "Response" THEN 0 ELSE @]

\* The whole minutes that passed are compared.
WithinMinutes(age) == age # Never /\ age \div MinuteSecs <= GoodMinutes

\* Mutant: referrals are bad until they have been heard from.
ratingOfReferrals(entry) ==
  IF WithinMinutes(entry.last_response) THEN "Good" ELSE "Bad"

\* The arms of the match, first to last.
rating(entry) ==
  IF \/ WithinMinutes(entry.last_response)
     \/ WithinMinutes(entry.last_query) /\ entry.last_response # Never
  THEN "Good"
  ELSE IF entry.last_query = Never /\ entry.last_response = Never
  THEN "Questionable"
  ELSE "Bad"

-----------------------------------------------------------------------------
\* Buckets.

newBucket(bounds) == [entries |-> new, bounds |-> bounds]

contains(bounds, prefix_len) == bounds.start <= prefix_len /\ prefix_len < bounds.end

prefixLength(id) == common_prefix_length(reference_id, id)

HasBucket(id) ==
  \E i \in DOMAIN buckets : contains(buckets[i].bounds, prefixLength(id))

\* The first bucket whose bounds contain the prefix length; the code panics
\* when there is none.
bucketIndex(id) ==
  CHOOSE i \in DOMAIN buckets :
    /\ contains(buckets[i].bounds, prefixLength(id))
    /\ \A j \in 1 .. i - 1 : ~ contains(buckets[j].bounds, prefixLength(id))

bucketOf(id) == buckets[bucketIndex(id)]

\* The positions of the entries for which a condition holds are sets of
\* indices of a FixedVec; position() returns the first of them.
First(positions) == CHOOSE i \in positions : \A j \in positions : i <= j

PositionsOf(entries, id) ==
  {i \in Slot : i < entries.length /\ entries.data[i].node.id = id}

BadPositions(entries) ==
  {i \in Slot : i < entries.length /\ rating(entries.data[i]) = "Bad"}

WithEntry(i, position, entry) ==
  [buckets EXCEPT ![i].entries.data[position] = entry]

-----------------------------------------------------------------------------
\* RoutingTable::new and RoutingTable::update.

Init ==
  /\ buckets = <<newBucket([start |-> 0, end |-> IdBits])>>
  /\ splitting = NoSplit
  /\ panicked = NoPanic

Idle == splitting = NoSplit /\ panicked = NoPanic

UpdatePanics(node) ==
  /\ Idle
  /\ ~ HasBucket(node.id)
  /\ panicked' = node.id
  /\ UNCHANGED <<buckets, splitting>>

\* The bucket has an entry for the node: only its last contact changes.
UpdateKnown(node, seen_in) ==
  LET i     == bucketIndex(node.id)
      known == PositionsOf(buckets[i].entries, node.id)
      p     == First(known)
  IN  /\ Idle /\ HasBucket(node.id)
      /\ known # {}
      /\ buckets' = WithEntry(i, p, updated(buckets[i].entries.data[p], seen_in))
      /\ UNCHANGED <<splitting, panicked>>

\* What the cases for a node without an entry have in common.
IsNew(node) ==
  /\ Idle /\ HasBucket(node.id)
  /\ PositionsOf(bucketOf(node.id).entries, node.id) = {}

\* Case 1: the bucket still has open slots.
InsertIntoSlot(node, seen_in) ==
  LET i == bucketIndex(node.id)
  IN  /\ IsNew(node)
      /\ is_not_full(buckets[i].entries)
      /\ buckets' = [buckets EXCEPT ![i].entries =
                       push(@, updated(newEntry(node), seen_in))]
      /\ UNCHANGED <<splitting, panicked>>

\* Case 2: the bucket has a bad node that can be replaced.
ReplaceBad(node, seen_in) ==
  LET i   == bucketIndex(node.id)
      bad == BadPositions(buckets[i].entries)
  IN  /\ IsNew(node)
      /\ is_full(buckets[i].entries)
      /\ bad # {}
      /\ buckets' = WithEntry(i, First(bad), updated(newEntry(node), seen_in))
      /\ UNCHANGED <<splitting, panicked>>

\* Neither case applies: the bucket is full of nodes that are not bad.
IsFullOfOthers(node) ==
  LET entries == bucketOf(node.id).entries
  IN  IsNew(node) /\ is_full(entries) /\ BadPositions(entries) = {}

CanSplit(bounds) == bounds.end - bounds.start > 1

\* Case 3: the bucket can be split; the loop over its entries starts.
StartSplit(node, seen_in) ==
  /\ IsFullOfOthers(node)
  /\ CanSplit(bucketOf(node.id).bounds)
  /\ splitting' = [new_entry           |-> updated(newEntry(node), seen_in),
                   i                   |-> 0,
                   drained_upper_nodes |-> new]
  /\ UNCHANGED <<buckets, panicked>>

\* Otherwise the node is forgotten.
Discard(node) ==
  /\ IsFullOfOthers(node)
  /\ ~ CanSplit(bucketOf(node.id).bounds)
  /\ UNCHANGED vars

update(node, seen_in) ==
  \/ UpdatePanics(node)
  \/ UpdateKnown(node, seen_in)
  \/ InsertIntoSlot(node, seen_in)
  \/ ReplaceBad(node, seen_in)
  \/ StartSplit(node, seen_in)
  \/ Discard(node)

-----------------------------------------------------------------------------
\* The loop of case 3, and what update does after it.

\* The lower bucket covers a single prefix length.
lower_bounds(bounds) == [start |-> bounds.start, end |-> bounds.start + 1]

\* Mutant: the upper bucket ends one prefix length early.
upper_bounds_short(bounds) == [start |-> bounds.start + 1, end |-> bounds.end - 1]

\* Mutant: the upper bucket starts where the lower one does.
upper_bounds_overlapping(bounds) == [start |-> bounds.start, end |-> bounds.end]

upper_bounds(bounds) == [start |-> bounds.start + 1, end |-> bounds.end]

SplitIndex == bucketIndex(splitting.new_entry.node.id)

InLoop ==
  splitting # NoSplit /\ splitting.i # buckets[SplitIndex].entries.length

FallsInUpper(entry) ==
  contains(upper_bounds(buckets[SplitIndex].bounds), prefixLength(entry.node.id))

\* Mutant: the index is not moved on.
KeepInLowerForever ==
  /\ InLoop
  /\ ~ FallsInUpper(buckets[SplitIndex].entries.data[splitting.i])
  /\ UNCHANGED vars

KeepInLower ==
  /\ InLoop
  /\ ~ FallsInUpper(buckets[SplitIndex].entries.data[splitting.i])
  /\ splitting' = [splitting EXCEPT !.i = @ + 1]
  /\ UNCHANGED <<buckets, panicked>>

\* Mutant: the index moves on although another entry took the slot.
DrainToUpperAndSkip ==
  LET i       == SplitIndex
      removed == swap_remove(buckets[i].entries, splitting.i)
  IN  /\ InLoop
      /\ FallsInUpper(buckets[i].entries.data[splitting.i])
      /\ buckets' = [buckets EXCEPT ![i].entries = removed.rest]
      /\ splitting' = [splitting EXCEPT
                         !.i = IF @ < removed.rest.length THEN @ + 1 ELSE @,
                         !.drained_upper_nodes = push(@, removed.item)]
      /\ UNCHANGED panicked

\* Mutant: the entry is copied, not moved.
DrainToUpperCopying ==
  LET i       == SplitIndex
      removed == swap_remove(buckets[i].entries, splitting.i)
  IN  /\ InLoop
      /\ FallsInUpper(buckets[i].entries.data[splitting.i])
      /\ splitting' = [splitting EXCEPT
                         !.i = @ + 1,
                         !.drained_upper_nodes = push(@, removed.item)]
      /\ UNCHANGED <<buckets, panicked>>

\* The last entry takes the slot of the one drained, so i stays.
DrainToUpper ==
  LET i       == SplitIndex
      removed == swap_remove(buckets[i].entries, splitting.i)
  IN  /\ InLoop
      /\ FallsInUpper(buckets[i].entries.data[splitting.i])
      /\ buckets' = [buckets EXCEPT ![i].entries = removed.rest]
      /\ splitting' = [splitting EXCEPT
                         !.drained_upper_nodes = push(@, removed.item)]
      /\ UNCHANGED panicked

Drained == splitting # NoSplit /\ ~ InLoop

\* Which half the new entry belongs to, given that the half has a slot.
GoesToLower ==
  /\ is_not_full(buckets[SplitIndex].entries)
  /\ contains(lower_bounds(buckets[SplitIndex].bounds),
              prefixLength(splitting.new_entry.node.id))

GoesToUpper ==
  /\ ~ GoesToLower
  /\ is_not_full(splitting.drained_upper_nodes)
  /\ contains(upper_bounds(buckets[SplitIndex].bounds),
              prefixLength(splitting.new_entry.node.id))

\* The bucket keeps the lower entries, a bucket of the upper ones follows it.
SplitInto(lower, upper) ==
  LET i      == SplitIndex
      bounds == buckets[i].bounds
  IN  /\ buckets' = SubSeq(buckets, 1, i - 1)
                      \o <<[entries |-> lower, bounds |-> lower_bounds(bounds)],
                           [entries |-> upper, bounds |-> upper_bounds(bounds)]>>
                      \o SubSeq(buckets, i + 1, Len(buckets))
      /\ splitting' = NoSplit
      /\ UNCHANGED panicked

SplitLower ==
  /\ Drained /\ GoesToLower
  /\ SplitInto(push(buckets[SplitIndex].entries, splitting.new_entry),
               append(new, splitting.drained_upper_nodes))

SplitUpper ==
  /\ Drained /\ GoesToUpper
  /\ SplitInto(buckets[SplitIndex].entries,
               push(append(new, splitting.drained_upper_nodes),
                    splitting.new_entry))

\* No split: the drained entries are put back, the new one is forgotten.
RevertSplit ==
  /\ Drained /\ ~ GoesToLower /\ ~ GoesToUpper
  /\ buckets' = [buckets EXCEPT ![SplitIndex].entries =
                   append(@, splitting.drained_upper_nodes)]
  /\ splitting' = NoSplit
  /\ UNCHANGED panicked

splitLoop == KeepInLower \/ DrainToUpper \/ SplitLower \/ SplitUpper \/ RevertSplit

\* A second passes: every instant kept is a second older.  The order of a
\* second passing and the steps of one update does not matter, as nothing is
\* rated after the first of them.
Older(age) == IF age \in 0 .. StaleAge - 1 THEN age + 1 ELSE age

OlderEntries(entries) ==
  [entries EXCEPT !.data =
     [i \in Slot |-> IF entries.data[i] = Uninit THEN Uninit
                     ELSE [entries.data[i] EXCEPT !.last_query    = Older(@),
                                                  !.last_response = Older(@)]]]

Tick ==
  /\ Idle
  /\ buckets' = [i \in DOMAIN buckets |->
                   [buckets[i] EXCEPT !.entries = OlderEntries(@)]]
  /\ UNCHANGED <<splitting, panicked>>

Next ==
  \/ \E node \in Contacts, seen_in \in SeenIn : update(node, seen_in)
  \/ splitLoop
  \/ Tick

\* update is a sequential function: it goes on with its loop.
Fairness == WF_vars(splitLoop)

Spec == Init /\ [][Next]_vars /\ Fairness

-----------------------------------------------------------------------------
\* Properties.

\* The entries the vectors hold, and all of the table during a split.
EntriesIn(v) == {v.data[i] : i \in {j \in Slot : j < v.length}}

Entries ==
  (UNION {EntriesIn(buckets[i].entries) : i \in DOMAIN buckets}) \cup
  (IF splitting = NoSplit THEN {} ELSE EntriesIn(splitting.drained_upper_nodes))

\* The buckets cover all prefix lengths below IdBits, each of them once, in
\* their order; every bucket but the last is as narrow as a bucket can be.
BoundsTile ==
  /\ buckets # <<>>
  /\ buckets[1].bounds.start = 0
  /\ buckets[Len(buckets)].bounds.end = IdBits
  /\ \A i \in 1 .. Len(buckets) - 1 :
       /\ buckets[i].bounds.end = buckets[i + 1].bounds.start
       /\ buckets[i].bounds.end = buckets[i].bounds.start + 1

\* Exactly the slots below `length` hold entries, at every iteration of the
\* loop: nothing reads an entry that was moved out, append never writes over
\* an entry and never makes a slot without one visible (fixed_vec.rs:73).
SlotsBelowLengthHoldEntries ==
  \A v \in {buckets[i].entries : i \in DOMAIN buckets} \cup
           (IF splitting = NoSplit THEN {} ELSE {splitting.drained_upper_nodes}) :
    \A i \in Slot : v.data[i] # Uninit <=> i < v.length

\* The vectors' assertions hold where update calls push, swap_remove and
\* append, in the loop and after it.
VectorAssertionsHold ==
  /\ InLoop => /\ IsItem(buckets[SplitIndex].entries, splitting.i)
               /\ PushFits(splitting.drained_upper_nodes)
  /\ Drained => AppendFits(buckets[SplitIndex].entries,
                           splitting.drained_upper_nodes)

\* Only the node's own identifier has no bucket: whatever the splits, every
\* other lookup succeeds, at every iteration of the split loop too.
OnlyOwnIdPanics ==
  /\ \A id \in NodeId : HasBucket(id) <=> id # reference_id
  /\ panicked \in {NoPanic, reference_id}

\* No lookup panics, says the message of the two expects (main.rs:281 and
\* main.rs:348): "no bucket for prefix length {} - this should never happen".
\* To update come contacts with any identifier.
NeverPanics == panicked = NoPanic

\* The table is what RatedContacts promises: an entry leaves only to make room
\* for another one, only if its node was heard from and has fallen silent, and
\* only while its places are all taken; a split keeps every entry and admits
\* one that has room in its half, a split that is not done changes nothing.
Promised == INSTANCE RatedContacts WITH
  known <- Entries,
  depth <- buckets[Len(buckets)].bounds.start

KeepsRatedContacts == Promised!Spec

\* A split that starts ends: the loop reaches the end of a vector it shortens
\* while it goes.
SplitEnds == splitting # NoSplit ~> splitting = NoSplit

=============================================================================
