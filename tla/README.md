# A verification project for the mainline DHT nodes

The repository holds two programs that do not share code: a Go node (`src/go`),
which can be told to ping other nodes, keeps a routing table of those that
answer, and answers pings itself; and a Rust program (`src/rust`), which has a
routing table of its own as library code and, apart from that, a small
interactive program that sends one bootstrap query and shows what it receives.
This directory holds TLA+ models of both, their TLC configurations, and proofs
checked by TLAPS. `PROJECT.json` maps every definition to the lines it models.

## Inventory

### Go

| part | state | operations | talks to | what makes it correct |
|---|---|---|---|---|
| node ids (`node_info.go`) | none | `isBitSet`, `isEqual`, `commonPrefixLength` | | the prefix length is the position of the first different bit |
| bucket (`routing_bucket.go`) | a list of at most `bucketSize` contacts | `addEntry`, `containsNodeId`, `getEntryByIdOrReturnAll`, `splitAt` | used by value by the table | no id twice, never overfull, a split keeps everything |
| routing table (`routing_table.go`) | the list of buckets, a read-write lock | `addEntry` (recursive, under the write lock), `findNode` (under the read lock) | ping adds to it | every contact is where it is looked for; splitting ends and never leaves the 160 bits; which contacts are kept does not depend on when buckets were split |
| runtime (`krpc_runtime.go`) | map from transaction ids to channels, its mutex | `rpcCall` (any goroutine), `receiveMessages` (one goroutine), a goroutine per query | network; the client's `handleQuery` | every call returns, the receiver is never blocked, duplicates are dropped, a response reaches the call it belongs to as far as ids tell |
| client (`dht_client.go`) | none of its own | `ping`, `handleQuery`, `handlePing` | runtime, table | only nodes that answered are stored, with the address they were asked at as far as ids tell |
| codecs (`bencode.go`, `krpc_message.go`, compact and hexadecimal ids) | a scanner position | recursive encode and decode | runtime | decode inverts encode, integers at the limits; an answer can be told to be one |
| command loop (`main.go`) | none | `ping`, `rt`, `quit` | client | I/O; one ping at a time |

### Rust

| part | state | operations | talks to | what makes it correct |
|---|---|---|---|---|
| `FixedVec` | eight slots, a length | `push`, `swap_remove`, `append`, `append_vec` (unsafe code) | table | the slots below the length hold items, others do not |
| routing table (`RoutingTable`) | a deque of buckets with bounds, entries with the times of the last query and response | `update` (insert, replace a bad entry, split), `find` | nothing: not used by `main` | the bounds tile the prefix lengths, entries are within bounds, an entry is only given up for good reason |
| rating (`RoutingEntry`) | two instants | `rating`, `update` | clock | |
| bencode, `krpc_request`, `FindNodeResponse`, `krpc_handle` | a cursor | encode and decode | application | as in Go |
| application (`main`) | two channels, a socket | network thread, user interface thread | each other, nodes | commands are announced in order and none is forgotten, the lines tell what was sent, and each is shown although the thread that wrote it may be gone |

### What is hard

- *Interleavings*: goroutines in `rpcCall` against the receiver: an id is
  registered, found, removed and cancelled in separate sections of one mutex, and
  a channel is used after the section that found it.
- *Network*: responses are lost, late, duplicated, reordered, or nobody asked for
  them; a timeout races the response; a transaction id may be reused.
- *Long sequences*: table states that only many insertions and splits reach,
  around the node's own identifier in particular.
- *Boundaries*: the last bucket, bucket 0, the prefix length of the node's own
  identifier, full vectors, ages just beyond the window.
- *Unsafe code*: reading a slot that holds no item.
- *Threads that end*: a panic in the network thread leaves the user interface
  running with two channels that have lost their other end; a panic in a goroutine
  of the Go node ends all of them.

`PROJECT.json` lists them one by one under `hazards`, each at its line with the
properties that are about it.

## Modules

| module | models | kind |
|---|---|---|
| `NodeIds` | identifiers as bit strings of `IdBits` bits, both prefix length functions, XOR distance order | operators |
| `Subsequences` | the elements of a sequence at a set of positions, in order | operators |
| `GoRoutingTable` | `routing_table.go`, `routing_bucket.go`: writing | state machine |
| `GoFindNode` | the same: reading | operators over the state |
| `PrefixClasses` | what the Go table promises, without buckets | abstract specification |
| `KrpcRuntime` | `krpc_runtime.go` and the network | state machine |
| `DhtClient` | `dht_client.go` composing the table and the runtime | state machine, `INSTANCE`s of both |
| `FixedVec` | `fixed_vec.rs`, slot by slot | operators |
| `RustRoutingTable` | `RoutingTable::new`, `update`, ratings, time | state machine |
| `RatedContacts` | what the Rust table promises, without buckets, slots or a loop | abstract specification |
| `RustFind` | `RoutingTable::find` | operators over the state |
| `BencodeData` | the values that messages are made of | operators |
| `KrpcMessages` | `krpc_message.go`, and the answers of `dht_client.go` as dictionaries | operators |
| `RustKrpc` | `krpc_request`, `from_bencode`, `krpc_handle`, `node_id::from_slice` and its like | operators |
| `KrpcDictionaries` | what both programs make of the same dictionary | state machine, `INSTANCE`s of both |
| `RustApp` | the Rust program's two threads, a Go node and the network | state machine, `INSTANCE`s of `KrpcMessages` and `RustKrpc` |
| `BencodeValues` | bytes, numbers as text, what a decoder returns | operators |
| `GoBencode`, `RustBencode` | the decoders of `bencode.go` and `bencode.rs` | operators |
| `Bencode` | both decoders given the same datagrams | state machine |
| `BencodeEncoding`, `GoEncoder`, `RustEncoder` | the encoders | recursive operators |
| `BencodeSending` | both decoders and both encoders | `Bencode`, with `INSTANCE`s of both encoders |
| `MC*` | constants for TLC | |
| `*Proofs` | | theorems, see below |

### How state and actions correspond

**GoRoutingTable.** `table` is `routingTable.table`, a sequence of sequences of
contacts; bucket `n` of the code is `table[n + 1]`. `adding` is the argument of
the `addEntry` that holds the write lock. `addEntry` takes the lock; each call
of `addEntryRec` is one action: `StoreEntry`, `DropEntry` (both return and
unlock) or `SplitBucket` (which keeps the lock: the recursion is the next
action). Keeping the recursion's steps apart lets a property look at the table
between a split and the next attempt. The capacity of Go slices and the arrays
behind them are left out.

**GoFindNode.** A reader has the read lock, so that it sees a state with
`adding = NoEntry`; the answer is an operator of such a state. The loop over
`offset` is a recursive function of how many iterations have been done, of which
there are as many as buckets; once a match, a full result or the loop's condition
has ended the search, an iteration changes nothing. `RustFind` is written alike.

**PrefixClasses.** Contacts fall into classes by the length of the prefix they
share with the node's own identifier. The specification knows only the set of
contacts: a new identifier is stored if fewer than `bucketSize` contacts of its
class are known, and ignored otherwise. The refinement mapping is the set of
contacts of the table; splits stutter.

**KrpcRuntime.** An invocation of `rpcCall` is a number in `Calls`, and so is its
channel. Each section under `pendingRequestsLock` is one action (`Enqueue`,
`Cancel`, `ReceiveKnown`/`ReceiveUnknown`), what follows the unlock is another:
`delivering` is a response the receiver has dequeued and not yet sent to the
channel, `state[k] = "timer"` a call whose timer fired and that has not yet
cancelled. `Deliver` is the send to a channel of capacity 1 and is not enabled
while the channel is full. The timer may win the `select` when both cases are
ready. `responses` only grows, which is how responses are lost, delayed,
duplicated and reordered. A response remembers the call it answers; no action
of the code looks at that. `receiveMessages` does not compare the sender of a
response with the destination of the request, so that `Receive` also takes
`Unsolicited` responses: of anyone, answering no call, with any transaction id and
one of the contents in `Strays`. They need no action to be sent and are always there.
`ReceivePanics` is a datagram whose string length overflows (`bencode.go:55`):
nothing recovers, the program has `ended`, and no action of it is enabled any more.
All other datagrams that cannot be read or decoded are logged and change nothing.

**DhtClient.** Conjoins actions of the two instances with the client's own
variables: `dest` is the argument of a ping, `ping` says where it is,
`handling` and `replies` are the goroutines that handle queries and what they
wrote. `Learn` is the call of `addEntry`, `GiveUp` the returns without it.
`PeerAnswers` is a pinged node that runs this program: it answers what `handleQuery`
returns there. Whatever else may come with the id of a ping, from the node that was
asked or from another, is among the runtime's `Unsolicited` responses: an identifier
in `Strays`, or something ping has no use for. `replies` has no property of its own:
a reply is a function of its query, and which one says `QueriesGetTheirAnswer`.

**FixedVec.** A slot that was not written or whose item was moved out holds
`Uninit`. The methods' assertions are operators of their own, so that a caller's
obligation is a property (`VectorAssertionsHold`). `append` writes from slot 0 on,
as the code does; that `update` only calls it where that is right is part of
`SlotsBelowLengthHoldEntries`, and that nothing is lost on the way is part of
`KeepsRatedContacts`.

**RustRoutingTable.** `update` has one action per outcome. Its loop is one action
per iteration; `splitting` holds `new_entry`, `i` and `drained_upper_nodes`.
Instants are ages in seconds that grow with `Tick`; they stop growing when no
comparison can tell them apart any more. `panicked` records a failed `expect`.

**RatedContacts.** The specification knows the set of entries and one number,
`depth`: contacts with shorter prefixes compete with those of the same prefix
length only, all others with each other. An entry gives its place up only for
another one, when its places are all taken and its node has been heard from and
fallen silent; otherwise a newcomer is admitted if there is room, possibly
after `depth` has grown by one, or forgotten. The refinement mapping is the set of
entries, those drained and not yet put back included, and the start of the last
bucket's bounds; draining and reverting stutter. That a newcomer may be
forgotten although its share has room is left open, since the code does that: see
Findings.

**KrpcMessages, RustKrpc, KrpcDictionaries.** A dictionary is a function from
keys to values, a byte string a sequence of symbols. `decodeKrpcMessage` has one
predicate per message type for what it must have; the error it returns instead is
`NoMessage`. The Rust functions return `Ok` or `Err`. `handleQuery` here includes
the transaction id that `receiveMessages` fills in. `KrpcDictionaries` puts
entries into a dictionary one by one, which is a way of enumerating dictionaries.

**RustApp.** A channel is the sequence of all messages sent to it and the number
of those received: `submitted` and `taken` for commands, `lines` and `shown` for
what is displayed. `net` says where the network thread is in its loop; each call
that another thread or the network can come between is one action (`TakeCommand`
with the line it writes, then `SendTo` or `SendFails`, then `ReceiveNothing`,
`Receive` or `ReceivePanics`). `main = "ended"` ends everything. `arrived` only
grows, which is how datagrams are lost, delayed, repeated and reordered; a
datagram remembers who sent it, which no action of the code looks at. The Go node
answers what it receives with `handleQuery` of `KrpcMessages`.

**GoBencode, RustBencode.** The scanner (the cursor) is the input and the number
of bytes read; a decoder returns a value and the next position, an error and the
position it occurred at, or, in Go, the panic of a slice expression. A decoder calls
itself and loops over a list's values and a dictionary's entries. All this is one
recursive function, `decodeAt` (`decode_at`), of what is decoded and where; the
operators `decodeScannerBencodeValue`, `decodeList`, `decodeDict` (`decode_value`
and so on) say what one call makes of the calls it makes, which they are given as
`at`. Integers have `IntBits` bits and wrap where the code adds without a check;
numerals are to the base `Len(Digits)`, so that the limits of `int` and `i64` are
within a few bytes. `Bencode` spells a datagram out of pieces until both decoders are
through with it; it is a way of enumerating datagrams, not a component. Bytes without
a meaning for the decoders are left out in the run; as the content of a string any
byte serves. The encoders recurse over values, and are kept apart.

## Runs

Bounds and what makes them enough:

| run | instance | shows |
|---|---|---|
| `go_table` | 3-bit ids, all offered, one at a second address, bucket size 2: all 8 ids compete, every bucket can be full, split and be crowded; `findNode` for every target | `TypeOK`, the structure invariants, no panic, no loss; what `findNode` answers; the table implements `PrefixClasses`, which includes that `addEntry` returns |
| `go_find_unfilled` | the same | violation: an answer stays unfilled, bucket 0 is not reached |
| `krpc_runtime` | 3 calls, 2 concurrent callers, 2 ids: one call can follow, overlap and share an id with another; unsolicited responses with either id | receiver and callers never stuck, duplicates dropped, what is leaked, who gets what |
| `krpc_late_response` | the same, 1 caller | violation: a late response is returned to a later call |
| `dht_client` | 2 pings, one after the other or concurrent, of two nodes that crowd one bucket of size 1; 2 transaction ids, 2-bit ids; unsolicited responses that name one of the nodes or nothing usable; a ping without a usable id and a query of an unknown method meanwhile, one of them in all | `OnlyRespondersAreStored`, `WrongAddressNeedsAForeignResponse`: what the table learns; `AnsweredIsKnownOrCrowdedOut`; `ComponentsAreUsedAsSpecified`: every step is one of the table's and the runtime's own specification; every ping returns |
| `rust_splits` | 3-bit ids, all offered, bucket size 2, no time; `find` for every target | bounds, splits one iteration at a time, vector assertions; what `find` returns |
| `rust_aging` | 4 contacts of which 3 crowd one bucket, all three ways of being seen, a minute of one second and a window of zero minutes, so that ages 0 and 1 are on the two sides of the limit | `KeepsRatedContacts`: who is replaced and when |
| `rust_closest` | as `rust_splits` | violation: a closer entry is left out, see Findings |
| `rust_own_id` | as `rust_splits` | violation: the table's own id has no bucket, see Findings |
| `bencode` | datagrams of up to 6 pieces and 15 bytes, integers of 5 bits to the base 2: enough for two entries with equal or unsorted keys, lists within dictionaries, both limits of the integers | `DecodersAgree`: what one decoder reads the other reads too, with two exceptions; `OnlyWrappedLengthsPanic`: what makes Go panic, and what Rust makes of it; `DecodedValuesCanBeSentOn` |
| `krpc_dictionaries` | any choice of 7 keys, under each of which right values, values of another kind and values of a wrong length may stand; ids of 2 bytes | `AnswersMeanTheSame`, `QueriesGetTheirAnswer` |
| `rust_app` | 2 commands, 2 addresses, at one of which there is a Go node, 2 transaction ids, 2 datagrams received; a response of another program and something that is no bencode from others | `CommandsAreAnnouncedInOrder`, `LinesTellWhatWasSent`, `AnswersFollowTheirQuery`, `EveryLineIsShown`, `EveryCommandIsAnnounced` |

Three bits are the smallest width at which a bucket can be split, leave a full
bucket behind, and be split again; what matters of an id is its prefix
length and one bit, both of which are exercised at the first, a middle and the
last position. Bucket size 2 lets a split distribute 0, 1 or 2 contacts to each
half. `CHECK_DEADLOCK FALSE` is set where the number of calls is bounded,
where a panic ends the program, and where the program may end.
One unsolicited content is enough where contents are not told apart (`krpc_runtime`);
in `dht_client` one identifier is enough to be stored under its own address or under
that of the other node. Lengths that wrap need as many digits as `MaxInt` has, which
at 5 bits and base 2 is 4.
Two commands are enough for one to be submitted while the other is announced, sent,
failed or answered; two datagrams received, for a duplicate and for the answers to
come in the other order.

Named bounds: `MaxCalls`, `Callers`, `MaxReplies`, the sets `TransactionIds`,
`Queries`, `Strays`, `Contacts`, `Offered`, `MaxPieces`, `MaxLength`, `Entries`,
`MaxCommands`, `MaxReceived`, and `StaleAge`, beyond which ages do not grow.

### Fairness

In the Go node all of it is while the program runs: a panic ends it, which
`EveryCallReturns` and `EveryPingReturns` except.

- `WF(addEntryRec)`: the goroutine that holds the lock runs; nothing in it blocks.
- `WF(rpcCall(k))`: a write returns, `time.After` fires, a ready `select` is taken,
  the mutex is granted. Nothing is assumed of peers, of the network, or of when a
  response is read: calls return because of the timer.
- `WF(Deliver)`: a send to a channel with room happens. That there is room is
  the property `ReceiverNeverBlocks`, not an assumption.
- in `DhtClient`, `WF(Learn \/ GiveUp)`: a goroutine that has its answer goes on.
  It may wait for the table's lock; weak fairness is enough since pings are finitely
  many, and Go's lock is granted in turn.
- `WF(splitLoop)`: `update` is sequential code.
- `WF(Show)` and `WF(networkThread)` in `RustApp`: both loops poll with `try_recv`
  and a socket that does not block, so that neither thread waits for the other or
  for the network. Nothing is assumed of the user, of other nodes, or of datagrams
  that have been sent.

## Findings

Four runs end in a violation. Each shows the code doing something else than a
comment, a message or a test says:

1. `go_find_unfilled`: `findNode` stops before bucket 0 when the start bucket is
   in the upper half of the table (`routing_table.go:89`), and answers with less
   than it could.
2. `krpc_late_response`: a response to a timed-out request whose id was chosen
   again is returned to the later call. The comment at `krpc_runtime.go:128` lists a
   timed-out request among the causes of an unknown id; it does not say that this is
   all that such a response can lead to, but nothing else is provided for: ids are not
   checked for having been used (`krpc_runtime.go:45`). With one caller this needs a
   response later than 10 seconds and one of 2704 ids chosen twice. `ping` then stores
   one node's id with another's address, and `KnownContactsAreKept` says that it stays.
3. `rust_closest`: `find` does not return the closest nodes (`main.rs:254`,
   `main.rs:678`). It stops within a further bucket in the order of the slots: with 000
   and 001 stored, and 100, which splits the bucket, `find(101)` returns 100 and
   000, and leaves the closer 001 out (`main.rs:321`). What is true is that no node
   of a nearer bucket is left out, nearness being that of places in the table
   (`ClosestFromNearestBuckets`).
4. `rust_own_id`: `update` panics when a contact with the table's own id is offered,
   where the message says "this should never happen" (`main.rs:348`); so does `find`
   (`main.rs:281`). The bounds end before the prefix length of an id with itself.
   `OnlyOwnIdPanics` says that no other id does that.

Observed while modelling, and in the models, but no run of their own:

- A string length near the largest integer wraps in `scanner.acceptRun`
  (`bencode.go:55`), and the slice expression after it panics; no datagram that Rust
  accepts gets there. The comment in `receiveMessages` (`krpc_runtime.go:97`) says of
  invalid bencode "For now just log and continue"; this one ends the program
  (`ReceivePanics`). `OnlyWrappedLengthsPanic` says that no other one does.
- `receiveMessages` takes a response from whoever sends it (`krpc_runtime.go:123`).
  With an id that a ping happens to wait for, its identifier is stored under the address
  that was pinged: `WrongAddressNeedsAForeignResponse` says that this and a shared id
  are the only ways for an address to be wrong.
- A split of the Rust table that would leave all entries and the new one in the same
  half is reverted and the new entry forgotten (`main.rs:441`, with a TODO), although
  its prefix class may have room.
- The dialog for a bootstrap node asks for "ip:port" and offers
  "router.bittorrent.com:6881" (`main.rs:29`, `main.rs:107`), which does not parse as a
  `SocketAddrV4`: submitting what is offered panics at `main.rs:114` and ends the
  program. In `RustApp` this is one of the ways of `End`.
- A datagram that is not bencode, an empty one included, ends the network thread
  (`main.rs:72`), and further commands go nowhere without a sign of it
  (`ReceivePanics`, `Submit`). The lines it wrote before are shown
  (`EveryLineIsShown`).
- The Rust program sends `find_node` only and the Go node knows `ping` only, so that all
  that a Go node ever answers to it is error 204 (`AnswersFollowTheirQuery`).
- `FixedVec::append` writes from slot 0 (`fixed_vec.rs:73`). `update` only calls it
  on empty vectors, so that the table is right (`SlotsBelowLengthHoldEntries`).
- A Rust node that has only sent queries is `Bad` at once (`main.rs:210`).
- Go refuses the smallest integer, which both programs can write and Rust reads
  (`bencode.go:170`); it accepts a sign before the length of a string value, which
  Rust accepts before a dictionary's key only. `DecodersAgree` says that these are
  the only differences between the two decoders.

## Proofs

Eight modules hold proofs. All are for every value of the constants that their
named assumptions allow, and nothing else is assumed:

- `IdBitsAssumption`: identifiers have at least one bit;
- `GoTableAssumption`, `FixedVecAssumption`: buckets and vectors hold at least one
  entry; the Go node's own id is an identifier, as `RustTableAssumption` says of
  the Rust one's; the times of the Rust table are whole seconds, and a minute has
  at least one;
- `KrpcAssumption`: what is said without being asked is something that may be said;
- `DictionariesAssumption`: an identifier has the length of identifiers;
- `ClientAssumption`, `ComponentsAssumption`: at every address there is a node with an
  identifier, and the constants of the client's two components satisfy the
  assumptions of these, which `INSTANCE` does not bring along;
- `BytesAssumption`, `DigitsAssumption`, `WidthAssumption`, `PiecesAssumption`,
  `LengthAssumption`: bytes and digits are listed once each, the bytes that mean
  something are bytes and no digits, there are two digits at least, and the end
  of the input is no byte; an integer has at least one bit, and the positions in a
  datagram are integers;
- in all of them and in `RustAppAssumption`, values such as `NoEntry` or `Uninit` are
  not what they stand for the absence of.

| module | theorems |
|---|---|
| `NodeIdsProofs` | a common prefix length exists and is the position of the first difference; `PrefixLengthsAgree`: the Go and the Rust definition are the same function; how many identifiers share a prefix; two lemmas that do the work of an induction over a loop's iterations |
| `GoRoutingTableProofs` | `SubsequenceFacts`: what a split of a sequence returns; `TypeCorrect`, `ContactsInTheirBuckets`, `BucketsStaySmall`, `SplitNeverPanics`, `SmallestBucketStays`, `ContactsAreNeverLost`, `RecursionIsBounded`: the table; `BucketsImplementClasses`: every step of it is a step of `PrefixClasses` or cannot be seen there; `KnownAreFound`, `UnfilledMissesBucketZero`, `AnswersFromNearestBuckets`: `findNode`; `SplitRefusesNothing`: `splitAt` as it is written |
| `KrpcRuntimeProofs` | `TypeCorrect`, `ReceiverIsNeverBlocked`, `DuplicatesGoNowhere`, `PendingRequestsAreCleanedUp`, `OnlySharedIdsMixUpAnswers` |
| `DhtClientProofs` | `ComponentsBehaveAsSpecified`: the node's steps are steps of its two components; `OnlyRespondersGetIn`, `OnlyForeignResponsesMislead`, `AnswersAreNotWasted` |
| `RustRoutingTableProofs` | `BoundsAlwaysTile`, `NothingIsReadUninitialized`, `VectorsAreUsedWithinBounds`, `OnlyTheOwnIdentifierPanics`, `SplitLoopProgresses`: the table and its vectors; `EntriesAreAlwaysFound`, `ClosestListIsFilled`, `ClosestFromNearestBuckets`: `find`; `TableKeepsRatedContacts`: the table implements `RatedContacts` |
| `BencodeProofs` | `DecodersReadOn`: the decoders' recursion ends; `AgreedOnAllCalls`, `DecodersAlwaysAgree`: what they read; `PanicsOnAllCalls`, `NothingElsePanics`: where Go panics |
| `KrpcDictionariesProofs` | `MessagesAreReadBack`, `ProgramsAgreeOnAnswers`, `EveryQueryIsAnswered` |
| `RustAppProofs` | `TypeCorrect`, `CommandsStayInOrder`, `LinesAreTrue`, `AnswersComeLater` |

**The Go table.** The inductive invariant `IInv` is `TypeOK`,
`EveryContactInItsBucket`, `NoIdentifierTwice` and `NoBucketOverfull` together.
None but the first is inductive alone. That a split puts every contact into the
right half needs that the contacts of the last bucket share at least as many
bits as there are buckets before it, which is what `EveryContactInItsBucket` says of
them (`LastBucketPrefix`). That a split has a bit to split at (`SplitBitExists`)
needs that the bucket is full of different identifiers: were the last bucket at
bit 160, all of them would equal the node's own, so that there is one at most,
and the new entry would be it. That nothing is lost, `ContactsAreNeverLost`,
follows from `SubsequenceFacts`: both halves together have all positions.
`SmallestBucketStays` counts: a bucket that is split is full of different
identifiers, and with the new one they are more than `bucketSize`, all with the
prefix of that bucket, of which there are `2 ^ (IdBits - p)` (`SharingIdsCounted`
makes a subset of the remaining bits of each). `RecursionIsBounded` is `SplitBitExists`
once more: a split adds a bucket, and there is a bit for each.

**Loops.** What `findNode`, `splitAt` and `find` compute is a recursive function of
the number of iterations. That it has the values its definition says follows from
`IterationExists`, and what holds of all of them from `CountingUp`; both rest on a
smallest counterexample in place of an induction.

**`findNode`.** A known contact is in the bucket of its identifier
(`EveryContactInItsBucket`), which the first iteration looks at, so that a match is
found at once (`KnownIsFoundAtOnce`). For an unknown one the loop's invariant is
`Searched`: the list was filled from a set of near buckets that lacks at most bucket
0 (`Skipped`), repeats no contact, and has everything in them as long as it is not
full. That two buckets never bring the same identifier is again
`EveryContactInItsBucket`. `AnswersFromNearestBuckets` says that the list is filled
from the buckets nearest to the identifier's. Its invariant `InOrder` survives the
bucket that is left out since that one is as far away as any: it is only left out after
the last bucket, which is nearer.

**`splitAt`.** The code refills two empty buckets through `addEntry` and ignores
whether it succeeds. It always does: each half repeats no identifier and has room,
since the bucket does not repeat one and has no more than `bucketSize`
(`RefillTakesEntry`); so the halves grow by one position at a time
(`SubsequenceGrows`).

**The refinement of the Go table.** With `IInv`, the contacts whose prefix is as long
as that of a new entry are all in the bucket `addEntryRec` looks at
(`BucketAndClass`); if the bucket is not the last one, nothing else is in it. Since
the bucket repeats no identifier, its length is the number of its contacts, so that a
full bucket that is not the last means a full class, and room in a bucket means room
in the class. A split changes no contact. Only the fairness part of
`AdmitsByPrefixClass` is left to TLC.

**The runtime.** `IInv` follows a response: a registered channel is empty and
under the id of its call (`Registered`); what the receiver holds is for an empty
channel that is no longer registered (`InTransit`); what is in a channel
carries the id of its call (`InChannel`); what was returned came from
there (`Returned`, `Genuine`). `ReceiverNeverBlocks` is the second of these, but
is inductive only with the first, since it is the registration that keeps a second
response from being dequeued for the same channel.

**The client.** `TP` and `RP` are the proof modules of table and runtime with the
client's constants. Every step of the node is a step of either or leaves it alone
(`ComponentSteps`); with that their inductive invariants are conjuncts of the
client's. What it adds relates the two. `PingFollowsCall` ties a ping to its
`rpcCall`; `LockHolder` says whose entry holds the table's lock, so that what gets
stored is what that ping got, at the address it asked. `AnswersAreGenuine` says that
an identifier in the answer to a call is the one of the node that call asked. With the
runtime's `Genuine` it gives `WrongAddressNeedsAForeignResponse`: a response has the
id of the ping it is returned to; if it names another node than the one pinged, it is
not the answer to that ping, but to another call with the same id, or to none.
`AnswersAreSettled` keeps, from the table's own `Settled`, that what a ping learned is
in the table or was crowded out. `AnsweredIsKnownOrCrowdedOut` is this for a ping that
has returned.

**The Rust table.** `IInv` says what the code never checks. `Bounds`: the buckets
are those of a table of which only the last was ever split. `BucketsHoldTheirOwn`:
each vector is well formed (items in exactly the slots below its length), repeats no
identifier and has only entries that belong there. `SplitOfLast` follows the loop: the
bucket being split is the last, the entries below `i` belong to its lower half and all
those drained to the upper one, none was bad when the split started, and the two
vectors together have `BUCKET_SIZE` entries. From the last follows that `push`
fits; from the others, that a split is only reverted when one of the two halves is
empty (`RevertSplitHasAnEmptyHalf`), which is what makes `append` right although it
writes from slot 0 (`AppendFacts`). `SplitLoopProgresses` adds that the loop gets
shorter: `swap_remove` shortens the vector when `i` stays.

**The refinement of the Rust table.** The entries that compete with a contact are
those of its bucket, and while that is split those of both vectors
(`RivalsInBucket`, `RivalsWhileSplitting`). Since a split starts with a full
bucket without a bad entry and loses nothing, the half that gets the new entry
has room exactly if fewer than `BUCKET_SIZE` entries compete after `depth` has
grown by one (`SplitDivides`). `BadIsSilent` relates the rating to the ages that
`RatedContacts` speaks of. There is no fairness in `RatedContacts`, so that the theorem is
the whole of `KeepsRatedContacts`.

**`find`.** As for `findNode`, but no bucket is left out (`IterationGathers`,
`IterationExtends`). `ClosestAreClosest` is false, see Findings;
`ClosestFromNearestBuckets` says what is true instead: no node left out is in
a bucket nearer to the identifier's than a node on the list. `InOrder` is its
invariant here, too: nothing is taken from the next buckets before the list has all of
those before.

**The messages.** No invariant is needed: the properties hold of every dictionary.
One lemma per outcome of `decodeKrpcMessage` (`QueryIsRead` and its like) turns its
cases into equations, `TypeIsRead` says that a message's type is the one under
`"y"`, which is all that `krpc_handle` looks at (`HandledByType`), and one lemma per
type of message says that `encode` is inverted.

**The Rust program.** `IInv` adds two facts to the properties. `AboutToSend`: while
the network thread is about to send, the last line announces that very query;
without it nothing would relate what is sent to what was announced.
`AnswersAreToQueries`: whatever came from the Go node answers a query in `sent`;
with `LinesTellWhatWasSent` there is a line of that query already.
`WrittenLine` is the heart of it: a new line leaves which lines tell of something
sent as it was, if it reports an error exactly when something was about to be sent.
`SendTo` adds the last line. That the answer is an error follows from
`QueryIsFindNode` and `AnswerIsError`.

**The decoders.** A recursive function has a value only if there is a function that
its equation is true of, and about what a `CHOOSE` picks otherwise nothing can be
said. `Height` is what falls from a call to the calls it makes: a list's next value is
decoded at the same byte but is a value rather than a list, everything else is at a
later byte. That it is later is part of what has to be shown, since it follows from
what the call before returned: `EndsAfter`. So `DecoderExists` makes the function
height by height together with `EndsAfter` (`CallReturned`: what is returned depends
on lower calls only, and ends after it starts if they do), and `DecodersReadOn` says
that of `decodeAt` and `decode_at`. `AgreedOnAllCalls` goes up the same heights: two
programs agree on a call if they do on the lower ones (`CallsAgree`, one lemma per
kind of call). What is at the bottom are strings and integers: `ParsersAgree` says
that `parseInteger`, which reads a magnitude and negates it, and `parse_int`, which
reads the number with its sign, differ for the smallest integer only; `StringsAgree`
that Go's wrapped sum of position and length (`WrappedFacts`) never lets a string
through that Rust, which subtracts, does not. `PanicsOnAllCalls` goes up once more,
with what is agreed on in hand: a panic of Go's at a string is a sum that wraps
(`StringPanics`), and what Rust makes of that string ends its lists and dictionaries,
too (`RestPanics`). Induction over heights is induction over numbers, which
`CountingUp` and `IterationExists` provide; no induction over values is needed.

Model-checked only:

- liveness, which no prover here can do: `SplitEnds`, `EveryPingReturns`,
  `EveryCallReturns`, `EveryCommandIsAnnounced`, `EveryLineIsShown`, and the fairness
  in `AdmitsByPrefixClass`. Proved of them are the
  steps: `SplitLoopProgresses` and `RecursionIsBounded` are the measures that
  `SplitEnds` and the return of `addEntry` need;
- `DecodedValuesCanBeSentOn`: the encoders are recursive operators over nested
  values, so that this needs an induction over data.

## Not modelled

- Hexadecimal and compact forms of ids, printing, the views of the user interface,
  start-up, the fetch of the public address: conversions and I/O without state.
- `FixedVec::append_vec`, which only a test calls, and the indexing traits.
- Slices that share an array in Go, and drops in Rust: neither shows in what the code
  does.
- The replacement of invalid UTF-8 in a client version (`main.rs:511`).

## Plan

Done: the Go table, its refinement, `findNode`; the runtime; the client that composes
both; the Rust vector, table and `find`, the table's refinement; the two bencode
codecs; the messages of both programs as dictionaries; the threads of the Rust
program. All safety properties that runs check are proved, but for the one of the
bencode encoders.

What is left:

1. The runtime's measure: that each step of a call brings it closer to its return,
   and that the client's pings inherit it.
2. That what an encoder writes is read back, for values of bounded depth: the sort
   of keys and the numerals are what a proof would have to start with.
