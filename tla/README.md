# lagrange-js: verification project

TLA+ models of `lagrange-js`, a distributed database node in JavaScript, with
the TLC runs that check them and the proofs that TLAPS checks. Paths are
relative to the repository; the program itself is its `src/` directory.

## 1. The system

| Part | State | Operations | Talks to |
|---|---|---|---|
| Partitioned index (`partition/UnifiedPartitionIndex.js`) | the list `partitions`, each with its bounds and a tree | `insert`, `search`, `rangeSearch`; `_splitPartition` inside `insert` | calls the B+ tree and the key encoder |
| B+ tree (`partition/BPTreeIndex.js`, `BPTreeNode.js`) | `root`, `keyCount` | `insertEncoded`, `removeEncoded`, `searchEncoded`, `rangeSearchEncoded` | calls the key encoder's `compareBytes` |
| Key encoders (`partition/KeyEncoder.js`, `CompoundEncoder.js`) | none | `encode`, `decode`, `compareBytes` | - |
| Messaging layer (`MessagingLayer.js`) | `rpcCallbacks`, `handlers` | `sendMessageToNode`, `sendRpc`, `receiveAck`, `messageReceivedFromTransport`, `close` | message group (statements, asynchronous), transport (messages), node (handlers) |
| Message group (`MessageGroup.js`, `RaftGroup.js`) | the `messages` table, a housekeeping timer | `saveMessage`, `removeMessageByMessageId`, `houseKeeping`, `close` | a Raft implementation that executes SQL |
| Node (`Node.js`) | its caches, latency zone, message layer | start-up in six steps, `getPeerDataHandler`, `shutdown` | messaging layer, caches |
| System caches (`cache/*.js`) | one in-memory table each | `addItem`, `getAll`, `serialize`, `insertInitialData` | - |
| Partition layer (`PartitionLayer.js`) | the table of live queries | query, register, deregister | messaging layer, partition group |
| Transport (`communication/*.js`) | one receive callback | `transportMessage`, `registerCallback` | other nodes |

What is hard about them:

* **Index.** Sequential code, but long sequences of calls: where a key is
  depends on all the splits and removals before. A split moves entries one by
  one between two trees, insertion and search break ties at separators in
  opposite directions, removal never merges, and a counter kept beside the tree
  decides when to split. Correct means: the partitions are a gapless ordered
  cover of the key space, each entry is in exactly one place and search looks
  there, range search is complete and sorted, sizes are balanced, and a caller
  sees a flat map.
* **Messaging.** Each step (INSERT, transmission, handler, acknowledgement,
  DELETE) is asynchronous and may fail; messages get lost, arrive early or
  arrive at a closed node. Correct means: a request is executed at most once and
  its caller hears of it only afterwards; a command is saved until its
  acknowledgement is back; an answer finds the callback that waits for it; an
  RPC of which nothing was lost is answered and its row removed.
* **Start-up.** A node awaits its peer's caches without a timeout; the peer serves
  them while it may be joining itself, reads them one by one, and the node fills
  its own row by row. Correct means: the node knows what its peer knew, with the
  message group of every node it knows; its own rows never come back to it; a
  row that is handed on has its final zone; joins end, in circles too.
* **Encoders.** Pure functions, but the index lives on them: a split decodes the
  keys it moves and encodes them again, so a key that does not survive this is
  moved under another value, and one that cannot be decoded stops the split
  halfway through an insert. Integers have 32 bits, length prefixes 16. Correct
  means: any encoded keys are totally ordered, decoding inverts encoding, and
  the order of keys is that of values.
* **Live queries.** The table is created by a statement that nobody awaits, the
  handlers' statements end in any order or fail, a notification throws where
  nobody handles it, and the process may end of it. Correct means: what was
  answered as registered stays so until a deregistration, what was answered as
  deregistered stays away, and an answer tells what was executed.

`PROJECT.json` lists each hazard at its line, with the properties that cover it.

## 2. The modules

```
KeyIndex               what an index promises: a finite map
  ^ implements (proved)              ^ implements (proved)
PartitionedIndex                     BPTreeIndex      one tree and its callers
  ^ implement                          | uses
  |-- UnifiedPartitionIndex -- uses -> BPTree         the tree as a value
  |     (proved for unique keys)
  |-- EncodedIndex --------- uses ---> KeyEncoders    values, bytes, keys
        (proved)

RpcService             what a request goes through
  ^ implements (proved)
MessagingLayer         messaging layers, message groups, transport, handlers

NodeStartup            start-up and shutdown of nodes over RpcService

LiveQueries            the partition layer over an external partition group

PartitionedIndexProofs, MessagingLayerProofs,
NodeStartupProofs, LiveQueriesProofs               theorems
SequenceLemmas <- EncodedIndexProofs,
SequenceLemmas <- BPTreeIndexProofs                theorems, each on the one before
BPTreeIndexProofs, PartitionedIndexProofs
  <- UnifiedPartitionIndexProofs                   theorems, on those of both
MC*                                                instances for TLC
```

### KeyIndex
The abstract index: a set of entries, one for each key, that grows by an insert
of a new key and shrinks by a removal.

### PartitionedIndex
`UnifiedPartitionIndex.js` with each tree abstracted to its set of entries. A
key is an integer: the code touches encoded keys only through `compareBytes`, a
total order. `Insert` is the whole of `insert`: the look-up of the partition
(the first that covers the key), the insertion and, above `maxPartitionSize`,
the split, in which `SplitPartition` stands for `_splitPartition` and
`_moveData` together. The actions `InsertWithin` and `InsertAndSplit` are its
two outcomes. `RangeSearch` and `SearchAnswers` are the queries, which change
nothing. Keys are unique in this module: the caller inserts no key twice.

### BPTree and BPTreeIndex
`BPTree` has the tree as a value and each function of `BPTreeIndex.js` as an
operator of the same name. A recursion down the tree is a recursive function on the
height of a node (`InsertRecursive(order, k, r)[h]` is `_insertRecursive` of the
nodes of height `h`), which returns the changed node where the code changes it in
place. The code keeps no height; the model writes it beside the root, where each
operation that makes a new root adds one, and TLC and the proof of `TypeOK` show that
every leaf is at that depth. `Keys` and `Rows` are constants, so that `Nodes[h]`, all
nodes of a height, is the domain of these functions. The three descents differ as
in the code: `FindInsertPos` stops at an equal separator, `DescendPos` passes
it. `SplitInternal` keeps the separator in the left node, as the code's splice
does: such a node has as many keys as children, which makes it split earlier and
misdirects no descent (`TreeShapeSound`). At order 2 the right node of such a
split can have no child at all; no descent reaches it.

`BPTreeIndex` puts one tree under a caller, chosen from `Callers` at the start. A
caller says the order of the tree, what it inserts, and whether it inserts a
stored key, inserts a removed key or removes keys at all, so that the promises
can be told apart from what breaks them.

Two details of the code have no counterpart: `nextLeaf` is written and never
read, and `minPartitionSize` is stored and never read. `insert`, `search` and
`rangeSearch` of the tree encode their arguments and call the encoded variants.

### UnifiedPartitionIndex
The partition list over the trees of `BPTree`: `_findMedianKey` and `_moveData`
are those of the code, entry by entry, through the trees. A history variable
(`inserted`) has what the caller stored.

### KeyEncoders and EncodedIndex
`KeyEncoders` has `encode`, `decode` and `compareBytes` of each encoder as
operators on sequences of bytes. `Base`, the number of values of a byte, is a
constant: widths, prefixes and limits are those of the code, counted in bytes,
so that an instance with bytes of eight values meets them with small values.
`EncodeInteger` wraps as `setInt32` does; a double is its rank among the
doubles, which is what its bits are; a text is a sequence of characters of one
or two bytes, one of which (a lone surrogate) is encoded like another, and one of
which (the byte order mark) `TextDecoder` drops at the start. `Characters` reads
any bytes, as the decoder does. `DecodeCompound` and `CompareCompound` follow the
length prefixes, also where a prefix has wrapped and leads them astray. Loops
over bytes and columns are recursive functions of a position.

`EncodedIndex` is the partition list over such keys. It shows what
`PartitionedIndex` takes for granted: the keys of an encoder can be taken for
integers, and a split does not change them. A caller has an encoder and the
values it may insert, and inserts no two values of the same key. A tree is one
sorted leaf here: for unique keys a tree of any order behaves like the sorted
sequence of its entries, which is what `UnifiedPartitionIndexProofs` proves about
the trees of the code.

For keys stored twice it does not, and neither does the code keep what it
stores. `removeEncoded` goes right of an equal separator (`BPTreeIndex.js:66`)
and misses the copies left of it, so that a split leaves them in the old
partition; a later split of that one can take its median among them, above the
partition's own end. With the order of 4 and the size of 3 that are the defaults,
inserting the integers 10, 10+2^32, 10+2·2^32, 10+3·2^32, 1, 2, 2+2^32, 0 makes
`search(2)` answer null. The run `unified_duplicates` finds the copies left behind,
over the real trees; the models of encoded keys do not speak of such callers.

Three predicates of a value say how much the encoder keeps of it:

* `Regular`: no column of a compound key is too long for its length prefix, and
  no text starts with a byte order mark. The callers' values are regular.
  Whatever a regular value's key is, search answers the row inserted under it
  (`SearchFindsInserted`), and no partition stays above its limit
  (`SplitsHappen`).
* `Exact`: the value is also the only one of its key, so that decoding gives it
  back (`RangeSearchDecodes`). Integers of more than 32 bits share a key with a
  smaller one, and lone surrogates with U+FFFD: a search for one answers the
  row of the other.
* `Ordered`: the order of keys is also that of values (`RangeSearchByValue`). A
  negative integer or double is behind the positive ones, and NUMERIC values
  are in the order of their texts.

Left out of `EncodedIndex`, and claimed nowhere:

* values that are not regular. The code loses them: a text that starts with
  U+FEFF is decoded without it, so that the split that moves it puts it under
  another key and fails to remove the old one (`KeyEncoder.js:77`), and a column of
  65536 bytes or more wraps its prefix, after which decoding yields another value
  or throws (`CompoundEncoder.js:28`). `KeyEncoders` has both, as operators;
* values of another type than their column's. Few of them make an encoder
  throw: `setInt32`, `setFloat64` and `String` coerce most. A NUMERIC value given
  as the text `'1.50'` is decoded to 1.5, whose key is another.

### RpcService
The abstract service: each request goes from idle to requested, executed, ended.

### MessagingLayer
A set of nodes, each with its messaging layer and message group, and the
transport. A request has a source and a destination; its command and its
acknowledgement are the only messages about it.

| Variable | Code |
|---|---|
| `status` | before `Node.openMessageLayer` is done, after it, after `close` |
| `timer` | `RaftGroup.timer` |
| `saving`, `removing` | statements of `saveMessage`, `removeMessageByMessageId` under way |
| `messages` | rows of the tables of all nodes (a row is in its sender's) |
| `inFlight` | what the transport holds |
| `running` | `getPeerDataHandler` at its await |
| `rpcCallbacks` | the entries of that name, of all nodes (the caller's node is `Source`) |
| `outcome` | the promise of `sendRpc`, or what became of a named callback |
| `handled`, `faulted`, `orphaned`, `crashes` | history |

Each action is what runs between two awaits. `SendRpc` sets the callback and
starts the INSERT. `SaveDone` is the `then` that hands the message to the
transport. `ReceiveCommand` runs the handler: an immediate one
(`handlePingNode`) acknowledges in the same step, a deferred one
(`getPeerDataHandler`) goes to its await, whose end is `HandlerReplies` or
`HandlerFails`. `ReceiveAck` starts the DELETE, which nobody awaits, and calls
back. `Close` clears the timer and closes the database; the receive callback
stays registered, so a closed node still handles messages, with statements that
fail. `HouseKeeping` is the timer's only firing: the method runs without its
`this`, finds no callback and does nothing.

`Crash` ends the process of a node, at any point, and starts it again on the same
`messages` table: callbacks, handlers and what it awaited are gone, a statement
under way was executed or not, and messages reach it before it has opened its
layer. The code never reads the saved messages back. What is left of the promises
is that `AckFindsCallback` excepts exactly the requests that were pending when
their sender crashed (`orphaned`); nothing is executed twice, and no other
request is harmed.

The transport is external (the repository's socket transport cannot be
constructed): it delivers a message at most once, in any order, or loses it, and
throws when the receiver has registered no callback yet. That an INSERT or
DELETE can fail, and what is left when nothing catches the failure, is modelled;
whether an unhandled rejection also ends the process depends on the version of
Node.js and is not.

An acknowledgement is modelled with one id, that of its request; its own row in
the `messages` table is there (`saving`, `messages`) and, as in the code, nothing
removes it. The content of messages, contexts and latencies are left out.

### NodeStartup
Nodes that start, as first nodes or through an existing one, each action one
step between two awaits of the constructor (`Node.js:48-56`) or of the handler
of the peer.

| Variable | Code |
|---|---|
| `stage` | the await the constructor has reached |
| `existing`, `zone` | `existingNode`, `latencyZone` |
| `nodes`, `groups` | tables of `NodesCache` and `RaftGroupsCache` |
| `serving`, `reply` | `serializeAllCaches` under way at the peer, and what it has read |
| `inserting` | INSERTs of `insertInitialData` under way |
| `phase`, `lost` | requests, through `RpcService`; those that get no answer |
| `asked`, `whole` | history |

`OpenFirst` is `populateCaches` of a first node; `OpenJoining` sends
GET_PEER_DATA. The peer's handler runs as `ServeFetch`, one read per cache in
the order of `createSystemCaches` (`NextCache`), and `AnswerFetch`. The rows
received are inserted in any order (`InsertNode`, `InsertGroup`).
`findOrCreateLatencyZone` pings a node of a zone it has not tried, until one
answers fast enough (`PingedFast`) or no zone is left (`NoZoneNear`: the code
then keeps the zone `<initial>`, although its comment announces a new one).
`RegisterGroup` and `RegisterNode` add the node's own rows, in that order, to its
own caches. Nobody else is told, although the comment of `SystemCache` says that other
nodes are: this is what `startup_updates` finds violated (`UpdatesReachNodes`).

The messages underneath are those of `MessagingLayer`, taken through what it
promises: `RpcService`, with a request lost at any point. A ping is fast or slow
at will. In-memory INSERTs fail only on a primary key, which `OwnRowsNeverReturn`
rules out. `addNecessaryPeersToMessageGroup` finds no peers in the code, and the
code cache stays empty: both are left out.

### LiveQueries
`PartitionLayer.js` over its partition group.

| Variable | Code |
|---|---|
| `up` | the process runs |
| `creating`, `created` | the CREATE TABLE of the constructor, under way; the table exists |
| `rows` | `live_query_subscribers` |
| `issued` | statements of the handlers that the partition group has not ended |
| `outcome` | how far the handler of a call has come |
| `executed`, `seen` | history |

`Call` is a handler up to its `executeQuery`, which for a registration includes
the extraction of the columns (`Refused` when the parser rejects the text).
`ExecuteRegister`, `ExecuteDeregister`, `ExecuteQuery` and `ExecuteFails` end the
statement in the partition group; an INSERT needs the table, an id that is not
there and a text without quotes. The handler goes on in `AnswerSubscription`,
`AnswerQuery`, `RefuseUnparsable` and `RefuseFailed`. `AnswerQuery` includes
`handleLiveQuerySubscribers`: it takes the promise of the subscribers for the
subscribers, `forEach` throws, nobody is notified, and nobody handles the
rejection. Whether that ends the process depends on the version and the options
of Node.js, so that both are modelled (`Unhandled`); `Restart` constructs the
layer again on the same group, whose rows stay and whose statements still end.

The handlers are taken by their signatures. (The messaging layer would hand them
a message object, and nothing in `src/` constructs the layer, since the
partition group cannot be constructed.) The partition group and the SQL parser
are external: which queries modify and which are rejected are constants. A
call is made once, and a node registers a query at most once; what a node does
again is another call of the same text.

## 3. The runs

| Run | Instance | Shows |
|---|---|---|
| `partitioned_index` | 7 keys, 2 rows, capacity 2 | the partition list in every order of insertion; 6 779 states |
| `bptree` | orders 2 and 3, 5 and 6 keys, inserts and removals; 2 rows for each of 3 keys | the tree is a map, sorted, with an exact count, level leaves and no descent off its nodes; 4 827 states |
| `unified_index` | 8 keys, capacity 3, order 3 | entries survive moves between trees; implements PartitionedIndex |
| `encoded_index` | 11 callers, capacity 2, bytes of 8 values | keys survive splits; for which values the order of keys is that of values; 465 states |
| `messaging` | 2 nodes, 3 requests, one crash | at-most-once, saved until acknowledged, callbacks found, answers and removals; 204 728 states |
| `startup` | 3 nodes, any topology | caches read and filled piece by piece fit together; joins end; 318 374 states |
| `live_queries` | any 4 of 8 calls | registrations are remembered, deregistrations stay, answers tell what ran; 504 876 states |

Five more runs find what the repository says violated by what its code does:

| Run | Says | Does |
|---|---|---|
| `bptree_reinsertion` | test: "searching for all keys still works" | a separator key that was removed and inserted again is not found (insert goes left on equality, search right) |
| `unified_range_end` | tests and `BPTreeIndex.js:163`: the end is included | it is left out when it starts a partition |
| `unified_duplicates` | `UnifiedPartitionIndex.js:105`: removed from the old partition | a duplicate left of its separator stays |
| `messaging_resend` | `MessageGroup.js:8`: unacknowledged messages can be resent | nothing is ever resent |
| `startup_updates` | `SystemCache.js:9`: a table's leader "will update the other nodes in the system" | a node enters its row in its own caches only; its peer never hears of it |

**Bounds.** In `partitioned_index` a capacity of 2 gives as many partitions per
key as possible: seven keys reach five splits at least, of the first, middle and last
partition and of partitions that came from splits. The index code has no
constant that a larger instance would reach; the theorems cover all sizes. In
`bptree` order 3 is the smallest with a proper internal node; the fifth and
sixth keys split internal nodes and the removals leave empty leaves and
orphaned separators under them. Order 2 is checked for its own sake: it makes
nodes with one child and one key. The caller with duplicates never removes,
because a removal cannot tell its copies apart. In `unified_index` capacity
equals order, so that a tree splits a leaf before its partition splits, and the moved entries
make trees of their own that are split again. In `messaging` two nodes send to
each other and one of them a second message: messages, statements and handlers of
different requests cross, and each of them meets both nodes before opening, open,
closed and restarted. One crash of either node reaches every point of every
exchange; a second one would meet exchanges that have no memory of the first but
`orphaned`. Requests of the same source and destination share only the node's
status; a third RPC adds no interaction, and the theorems hold for any number. In
`startup` three nodes make every shape of a join: several first nodes, a chain
(a peer that is itself filling its caches from a third node), a circle of two
and of three, two nodes that join through one; each may shut down at the end. In
`encoded_index` the callers are one for each encoder with values in order, and others
whose values are out of order or share keys (of which a caller inserts one); five
keys and a capacity of 2 give two splits or more, at different values by the order of
insertion, and the three or four keys of the callers with shared ones a split at least. Columns reach the longest length that a
prefix holds. Eight values of a byte are what plain characters, continuation and
lead bytes, the byte order mark, U+FFFD and lone surrogates need at least with
more than one of the plain ones; a prefix of two such bytes holds lengths up to 63. In
`live_queries` the 8 calls are a registration from each of two nodes and the
deregistration of that query, a registration the parser rejects and one with a
quote, and a query that modifies, one that reads and one that the parser rejects.
Four calls are enough for both registrations, the deregistration and a query that
ends the process between them; the statement of a call is independent of those
on other texts.

The constants `Keys` and `Rows` of the tree are any supersets of what the callers use.

**Deadlock** is not checked: the callers of the indexes stop when the key set is
used up, a messaging or live-query model stops when every request or call has
been made, and in `startup` every node may end up closed.

**Fairness.** `FairSpec` assumes what the event loop gives: a statement, a
message in transit and an awaiting handler come to some end, good or bad, and a
set timer fires. It does not assume that a node opens or closes, that anything is
sent, or that an INSERT, a transmission or a handler succeeds. The liveness
properties therefore except requests of which something was lost (`faulted`).
Nothing makes a node crash either. In `LiveQueries` the
partition group ends its statements and the event loop runs what is due
(`ExecuteAny`, `HandleAny`); neither that a statement succeeds nor that the process
starts again is assumed, and a call whose process ended is over for its caller.
In `NodeStartup` one weak fairness per process stands for its event loop, all
its work together: a process has finitely much to do, so that nothing in it can
starve. What is not lost arrives; `JoinCompletes` excepts a node of which a
request was lost. `startup_updates` assumes the same, and excepts closed nodes and
any loss: its node is not late, nothing is under way to its peer.

## 4. The proofs

`PartitionedIndexProofs` proves, for every set of integer keys, every set of rows
and every capacity of at least 1, that Spec implies each property of the run
`partitioned_index`, the refinement included.

* Each insert has one of two shapes on the list, position by position
  (`InsertShape`): one partition takes the entry, or it is cut in two at the
  median and the later ones move up (`SplitList` shows that of the list
  operators).
* The inductive invariant `IInv` is the conjunction of typing, order, cover,
  placement and uniqueness. None of order, cover and uniqueness is inductive
  alone: a split keeps the order because its median key lies within the bounds
  of the partition it cuts, which needs that every entry is within its bounds; a
  new key is unique because only one partition covers it.
* Queries follow from the invariant alone (`Searching`, `RangeSearching`): one
  partition covers a key, and a skipped partition has nothing in range.
* `Balance` needs cardinalities: the median cuts an overflowing partition of
  `MaxPartitionSize + 1` entries into its lower and upper half (`HalfSizes`).
* `Refinement`: an insert adds exactly its entry to the union of all partitions
  (`InsertAddsOne`).

`MessagingLayerProofs` proves, for any nodes, requests, sources and
destinations, typing with at-most-once handling, `UnacknowledgedIsSaved`,
`AckFindsCallback` and the refinement of `RpcService`. The inductive invariant
says where the exchange of a request can be: outbound (its INSERT under way, or
in flight) or inbound (its handler, the INSERT of its acknowledgement, or that
in flight), in one place at most (`OnePlace`); its place fixes its progress
(`PlacesFixProgress`), the row is there meanwhile (`RowKept`), and what has
been answered was handled (`Answers`). At-most-once delivery alone does not give
at-most-once handling: that also needs that no second copy can arise, which is
`OnePlace`. A crash takes places away and adds none, and what it takes from a
sender's memory is in `orphaned`.

`NodeStartupProofs` proves, for any number of nodes, typing and the four other safety
properties of `startup`. None is inductive alone. `Exchanges` says how far the
exchange of a joining node with its peer has come (a node whose rows are still to
be inserted is populating; a fetch that has not arrived has no reply).
`ListedNodesAreReady` says that a row anywhere, in a cache, a reply or among the
INSERTs under way, belongs to a node that is done, and its group to one that is
almost: from it follow `ZonesAgree` (a zone that is final does not change) and
`OwnRowsNeverReturn` (a node that still joins is in nobody's cache).
`AskedIsOnItsWay` and `GroupsFollow` follow the rows of a peer through reply and
INSERTs to the cache;
`KnownNodesHaveGroups` needs that the nodes are read before the groups, and that
nothing is ever removed from a cache.

`BPTreeIndexProofs` proves the five invariants of `bptree` and the refinement of
`KeyIndex`, for any order from 2 on, any integer keys, any callers, and trees of any
height. The recursions are functions on the height, so that each proof goes down a
tree by induction on it (`NatInduct`, stated with a set): the lines of
`_insertRecursive` are followed through leaves, internal nodes, the splits of both and
the new root.

* The inductive invariant `IInv` says that the tree fits (`TreeFits`): the keys of a
  node are in order and between the separators above it, every internal node has as
  many children as keys or one more, and what a leaf has lies within its bounds
  (`FitsAs`). None of the properties is inductive alone: where the next insert puts a
  key depends on all separators above. A separator can be a key that is no longer
  stored, since removal leaves separators alone; it can also be left in the left node
  by `_splitInternal`, which is then a child short. That its last key bounds nothing, and
  that no descent passes it, holds because that key is also the separator above:
  `Closed` says so, and `DescentsStay` follows.
* Both ends of the bounds depend on the caller (`Mode`). Insertion goes left of an equal
  separator and search right of it, so that with duplicates a leaf may have keys equal
  to both of its bounds (`any`), without them never its upper one (`below`), and without
  removals the lower bound of a leaf is its first key (`kept`).
* `InsertSound`, `RemoveSound`: what comes back from below fits between the same bounds
  (or, split, on both sides of the separator that comes with it), and its contents are
  those of before with one entry more, or one of the key less (`Grew`). From these,
  `CountExact`, `ShapeStaysSound` and `RangesStaySorted` follow for every caller.
* `SearchesFind` is stated for callers that remove keys only if they are unique and do
  not come back (`RemovesUnique`): this is as far as the code goes, since the run
  `bptree_reinsertion` violates the same property for a caller that inserts a key again,
  and a removal among duplicates takes the copy it meets first. The reason is
  `Located`: a key that equals a separator has to be right of it, where search looks.
  Without duplicates every leaf is strictly below its upper bound, which an insert keeps only
  because no key that is inserted equals a separator of a removed key (`Known`); with
  duplicates one copy stays first in the leaf that its separator opens.
* `Implements`: an insert adds exactly its entry to the set and a removal takes exactly the
  one with the key (`GrewRange`, `LostDistinct`).

`UnifiedPartitionIndexProofs` proves `QueriesFindInserted` and the refinement of
`PartitionedIndex`, for callers with unique keys (`~ Duplicates`) and any order, keys,
rows and capacity. With duplicates both are false: `unified_duplicates` violates what a
comment of the split promises. It joins the results about a tree (module `T`) to those
about a list of partitions (module `P`, `PartitionedIndexProofs` with the entries of
each tree for the set):

* A tree that callers with unique keys built is a `UniqueTree`, whose separators are keys
  that were inserted. It stays one under the inserts and removals of `_moveData`, and no
  key comes back to a tree it was moved out of, since the bounds of the partition exclude
  it from then on; this is why the trees escape what `bptree_reinsertion` shows. The
  empty tree of the new half has no separators at all.
* `MoveDataCuts`: `_moveData`, entry by entry, leaves in one tree what is below the pivot
  and in the other what is not. `PieceMedian`: the pivot of `_findMedianKey` is the
  median of the set.
* `StepIsInsert`: an insert does to the views of the partitions what `Insert` of
  `PartitionedIndex` does, and it splits at the same insert, since `getApproxSize` is the
  number of entries (`PieceFacts`). The inductive invariant is that of `PartitionedIndex`
  for the views, a `PieceTree` in each partition, and that the entries in the trees are
  those inserted.
* `Queries`: the partition that `_findPartitionIndex` finds is the only one that can hold
  the key (`SearchFinds`); a range search is in order within each tree and across trees,
  because the bounds are (`RangeSearchFinds`).

`LiveQueriesProofs` proves, for any calls, texts and recipients, typing with one
row per live query, and the three safety properties of `live_queries`. The
inductive invariant says what a handler knows of its statement (`HandlersKnow`: a
statement under way has not been executed, whatever became of the process), that
an executed registration has its row until a deregistration of its text is
executed (`RowsStay`), and that what a deregistration has seen is answered, and
gone once it is executed (`SeenIsGone`).

The keys are proved about in two modules.

`SequenceLemmas` has what the others need of sequences: `InsertAt` and `RemoveAt`
entry by entry, where an entry of a concatenation of many sequences comes from
and in which order (`FlattenedAt`, `FlattenedOrder`), and that a set of positions
without gaps is a segment. The prover cannot instantiate an operator, so that
induction is stated with a set of numbers (`UpTo`) and recursion with a function
for the step (`Recursion`); this is what makes the loops over bytes, columns and
entries provable, and the recursions down a tree, which are loops over the height.

The first part of `EncodedIndexProofs` is about the encoders. It proves, for any base, any number of columns and values of any
length:

* `CompareZero`, `CompareAntisymmetric`, `CompareTransitive`: `compareBytes` of
  `KeyEncoder` is a total order on all sequences of bytes.
* `KeysOrdered`: so is `compareBytes` of every encoder on the keys of regular
  values. For compound keys, the prefixes of both keys lead to the columns that
  were encoded (`Offsets` by induction over the columns), columns are compared
  in turn, and transitivity goes by the first column that differs.
* `KeysSurvive`: a regular value is encoded to bytes that can be decoded, what is
  decoded is encoded to the same bytes, and is the value itself if it is exact.
  It rests on digits: a number and its digits determine each other in any base
  (`setInt32`, `setFloat64` and `String(number)` alike), and on `TextDecoder`
  reading back what `TextEncoder` wrote, character by character.
* `OrderOfValues`: the order of keys is that of ordered values.

The second part proves the five invariants of `encoded_index` from these, for
any callers, capacity and number of inserts. The inductive invariant `IndInv` is
`TypeInv`, `UniqueInv` (inserted values have different keys), `SoundInv` and
`FitsInv`. `SoundInv` says that the bounds of neighbouring partitions are equal and
are keys in ascending order (`Chained`), that each leaf is sorted and within the
bounds of its partition, and that every inserted row is in some leaf; without the
order of the bounds a split's median would not have to lie between them, and
without the bounds on the leaves the entries that a split moves would not be those
above it. A split finds what it removes by keys that were decoded and encoded
again, one by one from the left of what is left (`RemoveNext`). `FitsInv` bounds the
leaves: the pivot of an overflowing leaf is not its first key, since keys are unique,
and both halves shrink. `SplitsDone`, `SearchFinds`, `RangeSearchFindsAll` and
`RangeSearchOrdered` follow from `IndInv` alone; a range search is a segment of each
leaf (`RangeIsSegment`) and its result is in order across partitions because their
bounds are.

Its third part proves that the index over encoded keys implements
`PartitionedIndex` (`Refinement`), for callers of finitely many values each
(`FiniteCallers`: the abstract keys are numbers, and the rank of a key is the number
of the keys below it in its caller's). Ranks are ordered as keys are (`RankOrder`), so
that a partition covers a key as it covers the key's rank (`RankCovers`) and
`_findPartitionIndex` takes the partition the abstract index takes; a leaf has as
many ranked entries as entries (`RankedCount`), so that both split at the same
insert; the key in the middle of the sorted leaf has the rank that is the median of
the set (`RankedMedian`); and what `_moveData` leaves and moves are the entries below
the median and the others (`RankedHalves`). It holds for every caller, also one
whose values are not exact: it is about keys.

The assumptions are those the modules name: integer keys, null outside the keys
and rows, a positive capacity; requests with a source and a destination; disjoint
kinds of calls, and one registration at most of a query by the same recipients;
a byte of an even number of values, six at least, digits and the minus sign below
half of them, regular values that have the types of their columns, and null and the
mark of an exception outside the values and keys. That keys are unique is part of the
specifications (`PartitionedIndex`, `EncodedIndex`) or of the callers (`UnifiedPartitionIndex`,
`BPTreeIndex`), not of the code; in the refinement of `PartitionedIndex` by
`EncodedIndex` also callers of finitely many values.

Only model-checked: liveness (out of the prover's reach). Every invariant and every other
action property or refinement of the passing runs is also proved.

## 5. Plan

1. Done: the index, abstract, over its trees and over encoded keys; messaging
   with crashes; start-up; live queries; the proofs above.
2. Next: bounds of `rpcCallbacks` and of the rows of acknowledgements: both grow with
   every request in the code, so that a bound holds only relative to the requests.

## 6. Not modelled

`WsTransport`, `PartitionGroup` and `index.js` fail when they are constructed
(undefined names), `RqliteRaftImplementation` starts a container,
`sendMessageToRaftGroup` always throws, `Table`, `TableCache` and
`PartitionCache` are never constructed, `_old/` is never loaded, and logging
has no effect on the rest.
