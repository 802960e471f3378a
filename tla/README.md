# A TLA+ model of CapsuleDB

CapsuleDB is a key-value store built as a log-structured merge tree on top of
DataCapsules.  This directory holds TLA+ modules that model its core, TLC
configurations that model-check them, and theorems about them with proofs that
the TLA+ proof system (TLAPS) checks.  Paths below are relative to the
repository (`src/README.md` is its README).

To check a run: `tlc -config any_order.cfg MCCapsuleDB.tla`, with the module and
the configuration that the table of runs names; to check the proofs: `tlapm` on
each of the modules whose names end in `Theorems`.

## The system

| Component | State | Operations | Talks to |
|---|---|---|---|
| Engine, `core/engine.cc` | a `Memtable`, a `CapsuleIndex`, the target directory | `spawnDB`, `put`, `get` | memtable (`put`, `get`), index (`getBlock`), capsule store (`getCapsuleBlock`) |
| Memtable, `core/memtable.cc` | `memtable` (key to payload), `locklst` (key to lock), `max_size` | `put`, `get`, `write_out_if_full` | index (`add_hash`), capsule store (`putCapsuleBlock`) |
| Index, `core/index.cc` | `numLevels`, `levels`, `blocksize` | `add_hash`, `addLevel`, `compact`, `compactHelper`, `merge`, `sortL0`, `getBlock` | levels, capsule store (reads and writes blocks while it merges) |
| Level, `core/level.cc` | `numBlocks`, `maxSize`, `min_key`, `max_key`, `recordHashes` | `addBlock`, `getBlock` | - |
| Capsule block, `core/capsuleBlock.cc` | level, `startKey`, `endKey`, `kvPairs` | `addKVPair`, `setMinKey`, `setMaxKey`, `writeOut` | capsule store |
| Capsule store, `core/fakeCapsule.cc` | files named by hash, a global counter | `putCapsuleBlock`, `getCapsuleBlock` | file system |
| Server, `network/capsuleDB_server.cc` | a DEALER socket, one database | a loop: receive, `put` or `get`, reply | engine, clients |
| Enclave server, `network/capsuleDB_enclave_server.cc`, `enclave/` | the same, the database inside an Asylo enclave | the same loop over `EnterAndRun` | engine, clients |
| Test programs, `test_files/` | a clock read for each put | puts and gets | engine or server |
| Stale code, `network/Old`, `test_files/Old`, `util` | - | - | written against an older core |
| Vendored code, `bloom`, `uuid_v4`, `serialize-tuple`, `mplambda_include` | - | - | not used by the core at run time |

How they interact.  All of it is calls in one thread: a server takes one
request at a time, `CapsuleDB::put` calls `Memtable::put`, which, when a new key
finds the memtable full, writes it to the capsule as a block, adds the hash of
the block to level 0, and there may start a compaction, before it empties the
memtable and inserts the new pair.  `compact` merges the blocks of level 0 and
calls `compactHelper` for level 1; `compactHelper` merges what it is given into
its level, or, if the level would become too large, first evicts some of its
blocks by calling itself for the next level.

What is hard here, and what makes each component correct:

- **Memtable.** `memtable` and `locklst` are changed in different statements
  and one is used unchecked because a key is in the other; the size is tested
  before a new key only.  Correct if the two have the same keys, if the
  memtable fits into a block, and if a put discards no newer version.
- **Index.** A level is taken apart, its halves live in locals across a
  recursive call, and it is put together again; which of two versions of a key
  survives is decided long after they were put; indices and iterators are used
  without bounds checks; the levels' sizes are tested before the step that
  makes them grow.  Correct if each level stays sorted and free of duplicates,
  below its maximal size, nothing is lost, the latest version of every key is
  kept and is the one a `get` finds, and the recursion ends.
- **Level.** Four fields say the same as `recordHashes`; `getBlock` trusts them,
  and reads only the first block that covers a key.  Correct if they agree, and
  if level 0, whose blocks may overlap, holds one block when a `get` comes.
- **Capsule block.** The empty string is a key and also means "no key yet".
- **Engine.** Correct if, with growing timestamps, `put` and `get` are those of
  a map.
- **Capsule store.** A hash covers the block only up to its first zero byte, so
  that often nothing but a counter tells two blocks apart, and the counter
  starts over with the process while the files stay; a process may end while it writes
  one.  Correct if a hash that the process holds reads back the block it was
  returned for, and never throws.
- **Memtable under several callers.** There is a lock per key, and none for the
  two maps that hold the pairs and the locks; `put` has three ways out, `get` another;
  a write-out drops locks that others wait for.  Correct if every lock is released,
  if different keys do not wait for each other, and if the size is kept.
- **Servers.** One socket for all clients, which takes requests in turn and
  sends answers in turn, whoever asked; a put is told from a get by an empty
  field, and is not answered.  Correct if every client gets an answer, and its own.

## The modules

**CapsuleBlocks** - the data and the pure computations.  A key is a natural
number, since only the order of keys matters; 0 stands for the empty string.  A
sorted `kvPairs` vector without duplicates is a function from keys to versions (value
and timestamp).  A hash in the index stands for the block written under it, so a
`blockHeader` carries the pairs.  The bounds of a block follow the code:
`MergedBlock` those that `addKVPair` computes (an empty key is forgotten as a
lower bound), `MemtableBlock` those that `setMinKey` and `setMaxKey` set.
`merge`, `EvictCount`, `addBlock`, `WithBlocks` and `Lookup` are what the code's
loops compute.

**CapsuleDB** - the state machine.

| Model | Code |
|---|---|
| `memtable`, `locklst` | the fields of `Memtable`; `locklst` is the set of keys that have a lock |
| `numLevels`, `levels` | the fields of `CapsuleIndex` |
| `pc`, `payload`, `l0Ind`, `frames` | the put in progress: where it stands, its argument, `compact`'s loop counter, and one frame per `compactHelper` call with the locals that live across the recursive call |
| `PutEarlier`, `PutLater`, `PutNew` | `Memtable::put` without a write-out |
| `PutWriteOut` | a put that writes the memtable out while level 0 has room |
| `PutCompact` | the same up to the first block of level 0 in `compact` |
| `CompactMergeL0` | one iteration of `compact`'s loop |
| `CompactCall` | the call of `compactHelper` for level 1, and `addLevel` before it |
| `HelperEvict` | `compactHelper` up to its recursive call |
| `HelperFits`, `HelperReturn` | its final merge, without and with a recursive call before it |
| `CompactReturn` | the end: level 0 emptied, the memtable cleared, the new pair inserted |
| `get` | `CapsuleDB::get`, an operator, as it changes nothing |

A compaction is several steps although nothing runs between them in the
programs of the repository: the steps are the points at which the index is
half-way, and the properties say what has to hold there too.

**MergeLoop** and **EvictLoop** - the two loops of the index, one step per
iteration, over every input of a bounded size.  They show that the operators
`merge` and `EvictCount`, which CapsuleDB uses in one step, are what the code
computes.  `std::sort` is modelled by what it may return, `SortedHeaders`: any
arrangement that `compareHeaders` does not object to.

**OrderedClient** - CapsuleDB with clients that take timestamps from a clock,
ticking between two puts of a key (`OrderedSpec`) or perhaps not (`TiedSpec`);
`latest` records what each key was last put with.
**KVStore** - the abstract specification: a map in which a put, newer than what
its key has, becomes visible as a whole when it is called or when it returns,
and nothing else changes.  `ImplementsKVStore` states that OrderedClient
implements it; the refinement mapping takes the answer of `get` for every key
as the map.  A put that is lost shows: the next put then finds a map that does
not have it.

**Capsule** - the capsule store as the blocks above it use it, on its own.
`Hash` is what `sha256_string` covers: the fields of the serialized block - the
counter, the level, the bounds, the pairs - up to its first zero byte.  A counter
or level 0, a timestamp 0 and the length of an empty string are such a byte; so is
that of a missing `txn_msgtype`, which the values in `Untyped` are put without, as
most are in the repository.  The hash function itself is taken to be free of
collisions.  `Open` and
`Close` are the two halves of `putCapsuleBlock`, with the file empty
(`Torn`) in between, `getCapsuleBlock` is an operator, `Drop` stands for a
compaction that replaces a block in the index, `Restart` for the end of the
process at any point and its next start in the same directory.
**BlockStore** - the abstract specification: names that read back the same block
for as long as they are held.  This is what the other modules take the capsule
for, when a hash in their index is the block itself.

**MemtableLocks** - `Memtable::put` and `Memtable::get` under several threads,
one step per access to `memtable`, to `locklst` or to a mutex: `FindPut`,
`Acquire`, `Compare`, `Insert` and `Release` for the key that has a lock;
`TestFull`, `WriteOut`, `Clear`, `ClearLocks`, `NewLock`, `Acquire`, `Insert` and
`Release` for the one that has none; and the steps of `get`.  A mutex is an
address, since a lock that `locklst` has forgotten may still be held or waited
for.  An exception or the dereference of `end()` takes the caller to `"failed"`,
which ends the program.

**CapsuleServer** - CapsuleDB behind the request loop, with the clients of
`test_files/test_network.cc`.  It extends CapsuleDB: `ServePut` is CapsuleDB's
`put` behind a message, and no message is received before the put and the
compaction it started have returned.

| Model | Code |
|---|---|
| `requests`, `replies` | the messages in the socket, one queue per client |
| `peers`, `turn` | the load balancer of the `DEALER` socket: who is sent the next message |
| `enclave`, `Received`, `EnclaveInput` | which of the two servers runs, and what the driver passes to the enclave |
| `Connect`, `SendPut`, `SendGet`, `Receive` | the statements of `test_network.cc`; `Receive` leaves, as the program ends |
| `ServePut`, `ServeGet` | one turn of the loop in `main` |
| `Restart` | the server is stopped and started again while no client is connected |

**DocClaims** - the statement of a comment that the code does not meet.
**MCCapsuleDB**, **MCOrderedClient** - the sets of keys for TLC.

**CapsuleBlocksTheorems**, **CapsuleDBTheorems**, **OrderedClientTheorems**,
**CapsuleServerTheorems**, **MergeLoopTheorems**, **EvictLoopTheorems**,
**CapsuleTheorems**, **MemtableLocksTheorems** - the proofs.

## The runs

| Run | Specification and bounds | Shows |
|---|---|---|
| `any_order` | CapsuleDB; keys 0 to 2 (with the empty key), timestamps 1 and 2 in any order, blocks of 2 pairs, ratio 2 | types, `LocklstSync`, `MemtableBound`, `SingleL0Block`, `LevelConsistent`, and `LatestNeverLost`: whatever order the timestamps come in, the latest version of a key stays stored |
| `deep_levels` | CapsuleDB; 6 keys, one version, blocks of one pair, ratio 2 | `EvictionInBounds`, `LevelsSorted`, `LevelBound`, `StoredIsFound`, in every state of a recursion over several levels |
| `ordered_client` | OrderedClient; 4 keys, timestamps 1 and 2, blocks of one pair | `ImplementsKVStore`, `NewestOnTop`, `CompactionPreservesReads`, and `PutReturns`: every put ends |
| `merge_loop` | MergeLoop; all lists of blocks of 1 or 2 pairs over 3 keys, two values and two timestamps in any combination | `ComputesMerge`, `PointersInBounds`, `MergeReturns` |
| `evict_loop` | EvictLoop; all pairs of levels of at most 3 blocks with bounds from 5 keys | `ComputesEviction`, `TopUpInBounds`, `SelectionReturns` |
| `capsule` | Capsule; 2 keys (with the empty key), one version, put without a `txn_msgtype`, blocks of up to 2 pairs for levels 0 and 1, 2 blocks per process, any number of restarts | `ReadsBack`, and `ImplementsBlockStore` |
| `memtable_locks` | MemtableLocks; 2 callers, 3 keys, timestamps 1 and 2, a memtable of one pair | `SizeBound`, `HeldIsReleased`, `WaitsOnSameKey` |
| `server` | CapsuleServer; 3 clients, one connected at a time, 2 keys, timestamps 1 and 2, blocks of one pair, both servers | `ReadsOwnPut`, and `TestEnds`: every client that connects gets an answer |
| `tied_clock`, `empty_key`, `unsynchronized`, `wrong_peer` | see below | where the code and its comments disagree |

Why the bounds are enough.  The code's numbers (blocks of 50 pairs, a ratio
of ten) only delay what happens; a block of one or two pairs and a ratio of two
make it happen with few keys.  In `any_order` a block holds two pairs, so that
blocks are full, partly filled, overlapping and, with three keys, merged with
and without common keys; the empty key takes part.  In `deep_levels` the
database grows to four levels, `compactHelper` calls itself three deep, blocks
are evicted by selection, by top-up and by both, and more blocks leave a level than
arrive at it.  In `ordered_client` every key is put twice, and versions of one
key meet in merges on two levels.  Blocks of at most two pairs in `merge_loop`
exercise every way in which the two nested indices can advance: within a block,
at its end, in one list or both, with either list used up first.  In `capsule`
two blocks per process suffice for a block to be written over a file that an
earlier process left, complete or torn, while another is held; level 0
ends what the hash covers, level 1 does not, and the empty key as a bound or in
the pairs ends it further on.  In `memtable_locks`
the one-pair memtable is written out by either caller at every stage of the
other; the third key lets both meet a lock that a third put made.
In `server` the second and third client find what the ones before left in the
database, the memtable is written out and level 0 compacted between a put and
the get behind it.  The real sizes are covered by the theorems, for all values.

Bounds of the models: `Keys`, `Values`, `Timestamps`; `MaxBlocks` in EvictLoop;
`Levels` and `MaxCounter`, the blocks that one process writes, in Capsule;
`Callers` and `Locks` in MemtableLocks, with as many addresses as can be in use
at once; `Clients` and `MaxPeers`, the clients connected at the same time, in
CapsuleServer.

Fairness.  `WF_vars(Compaction)`: once a put has started to compact, nothing it
does waits for anything - there is no lock, no message and no input on that
path - so the thread that runs it gets on.  No fairness is put on clients.  The
loops of MergeLoop and EvictLoop have `WF_vars(Next)` for the same reason.
`ServerFairness` adds that the server goes on serving and that a client that has
connected runs on, until it waits for a message.  It has one condition per client,
because a `DEALER` socket takes messages from its clients in turn and passes none
over for ever.  Whether a client ever connects, and the clock, are left open.

Deadlock is checked in the runs of CapsuleDB itself, where a put is always
possible when none is in progress, and in `capsule`, where a restart is.  It is
not in the others, which stop for a reason of their own: a loop has returned, a
thread has failed and taken the program with it, the clients are done, or
the clock has no timestamps left.  That the callers of MemtableLocks do not wait for each
other for ever is `HeldIsReleased`.

## Where the code and its comments disagree

Each of these is a run that TLC ends with a counterexample.

- `tied_clock`, `CompactionPreservesReads`: `merge` keeps the pair of its second
  argument when two timestamps are equal (`src/src/core/index.cc:296`), and that
  is the older level.  Two puts of a key within one tick of the clock - a second,
  for the clients of the repository - in different memtables leave the newer
  value on top until a compaction brings the older one back.
- `empty_key`, `EmptyKeyFound`: a merged block whose first key is the empty one
  starts at its second key (`src/src/core/capsuleBlock.cc:57`), so `get` passes
  it over.
- `unsynchronized`, `PrevIterValid`: `put` does not compare the iterator it finds in
  `memtable` with the end, "since locklst and memtable keys are synchronized"
  (`src/src/core/memtable.cc:51`).  They are while there is one caller
  (`LocklstSync`).  With two, one may find the lock of a key whose pair the other has
  not inserted yet, or has just written out.
- `wrong_peer`, `TestEnds`: `src/README.md:77` says that requests are received and
  processed "regardless of their source".  A `DEALER` socket sends an answer to the
  next client in turn (`src/src/network/capsuleDB_server.cc:88`).  With two
  clients connected, one may get both answers and the other waits for ever.

A late put, whose timestamp is earlier than what its key has, is discarded only
while the newer pair is in the memtable.  Once that has been written out, the
earlier put hides it, until a merge lets the newer one through again
(`LatestNeverLost`).  No comment promises more, and OrderedClient assumes clients whose
timestamps grow.

## What is proved

The theorems hold for every value of the constants that meets the named
assumptions of the modules, and rest on nothing else:

- CapsuleBlocks: `Keys` is a finite set of natural numbers, timestamps are
  integers, blocks hold at least 1 pair, the level ratio is at least 2, and
  `NotFound` is not a version.  Values are any.
- OrderedClient and CapsuleServer, `NoEmptyKeyAssumption`: no client uses the empty key.
- CapsuleServer, `ClockAssumption`: there is an earliest timestamp, at which the clock
  of the clients starts.  `LoneClientReadsOwnPut` takes `MaxPeers = 1` besides, the
  case in which the socket's turn is that of the client who asked; `wrong_peer` shows
  what happens otherwise.
- EvictLoop, `MaxBlocksAssumption`: the bound on the size of a level is a natural
  number, any one.
- Capsule: level 0 is written to (`LevelsAssumption`), `MaxCounter` is a natural
  number, and `Torn` and `Throws` are neither messages nor blocks.
- MemtableLocks: there is a payload; the callers are finitely many
  (`CallersAssumption`); there are at least as many addresses as keys and callers
  together, or infinitely many (`LocksAssumption`).

| Module | Theorem | States |
|---|---|---|
| CapsuleBlocksTheorems | `MergeType` | `merge` returns well-formed blocks, no more than it was given, and at least one if its first argument has one |
| CapsuleDBTheorems | `TypeCorrect` | `Spec => []TypeOK` |
| | `LocksMatchMemtable` | `Spec => []LocklstSync` |
| | `MemtableFits` | `Spec => []MemtableBound` |
| | `Level0HasOneBlock` | `Spec => []SingleL0Block` |
| | `LevelsStayBelowMaxSize` | `Spec => []LevelBound` |
| | `EvictionStaysInBounds` | `Spec => []EvictionInBounds` |
| | `LevelsAreSorted` | `Spec => []LevelsSorted` |
| | `LevelsAreConsistent` | `Spec => []LevelConsistent` |
| | `StoredKeysAreFound` | `Spec => []StoredIsFound` |
| | `LatestIsNeverLost` | `Spec => LatestNeverLost`, an action property |
| OrderedClientTheorems | `NewestIsOnTop` | `OrderedSpec => []NewestOnTop` |
| | `CompactionKeepsAnswers` | `OrderedSpec => CompactionPreservesReads`, an action property |
| | `CapsuleDBIsAMap` | `OrderedSpec => ImplementsKVStore`, the refinement |
| CapsuleServerTheorems | `LoneClientReadsOwnPut` | `ServerSpec => []ReadsOwnPut`, if clients connect one at a time |
| MergeLoopTheorems | `MergeComputed` | `Spec => []ComputesMerge` |
| | `PointersStayInBounds` | `Spec => []PointersInBounds` |
| EvictLoopTheorems | `EvictionComputed` | `Spec => []ComputesEviction` |
| | `TopUpStaysInBounds` | `Spec => []TopUpInBounds` |
| CapsuleTheorems | `CapsuleReadsBack` | `Spec => []ReadsBack` |
| | `CapsuleImplementsBlockStore` | `Spec => ImplementsBlockStore`, the refinement |
| MemtableLocksTheorems | `LocksAreReleased` | `Spec => []HeldIsReleased` |
| | `WaitingIsPerKey` | `Spec => []WaitsOnSameKey` |
| | `OvershootIsBounded` | `Spec => []SizeBound` |

**Sizes** (CapsuleDBTheorems).  None of these is inductive alone.  Even the types
depend on the sizes: `HelperEvict` cuts a level at `EvictCount`, which is a
sequence of blocks only if the level has that many.  So `IInv` joins three
parts, and `IInvNext` proves that every action preserves them together.

- `TypeInv` types the state by well-formed blocks (not empty, at most
  `BlockSize` pairs), and has `LocklstSync` and `MemtableBound`.
- `SizeInv` says that each level is `LevelRatio` times the size of the one above, that
  levels below level 0 are not full, and that level 0 has at most one block
  between puts and two while a compaction runs.
- `CallInv` says of the `compactHelper` calls that each has at least one source
  block; that the source blocks fit into the level above, from which they come;
  and, of a call that waits for the one below, that its source blocks and the
  blocks it set aside fit into its level.

The heart is `OverflowFacts`: a level that would overflow holds at least as many
blocks as arrive, because they come from a level at most half its size.  This
is why `std::next(remainingBlocks.begin(), n)` in `compactHelper` is within bounds, and it
is nowhere tested in the code.  With it, as many blocks leave as arrive, and
`MergeType` - a merge of n blocks gives at most n, since they can be filled
completely - keeps the level below its size.  `MergeType` rests on `RankBijection`
(the rank of a key numbers the keys without gaps), `ChunkSize` (no chunk of
`BlockSize` ranks is empty or larger than that) and `KeysOfCount` (n blocks
hold at most n times `BlockSize` keys).

**Data** (CapsuleDBTheorems).  `DataInv` adds where the pairs are.

- `OrderInv`: every level below level 0, and both lists of every call, are in key
  order, and blocks carry bounds that contain their keys - all that a `get` needs.
- `RangeInv`: the range and the count of a level agree with its blocks, but for level
  0 while a compaction runs and the empty key is in use.
- `MemInv`: while a put compacts, the last block of level 0 is the memtable, which
  is why the memtable may be cleared at the end.
- `CoverInv`: what a call has set aside and what it has passed on (to the call
  below, or to the level that call has written) cover what its level still shows.

`MergeKeeps` says that a merge keeps of each key a version at least as late
as those of both its arguments.  With `CoverInv` the step that overwrites a
level (`HelperMerge`), or empties level 0 (`CompactReturn`), loses nothing:
`LatestIsNeverLost`.  `StoredKeysAreFound` is `LevelFinds`: in ordered blocks within
the range of their level, the first that covers a key is the one that has it.

**Reads** (CapsuleDBTheorems).  `ReadInv` says that newer versions shadow older ones.
`MemtableNewest` and `ShadowInv`: no stored version of a key is later than the
memtable's, and none in a level is later than one in a level above.  `SourceInv`: what a
call holds is still in the level from which it was taken, so that what a merge
moves down by one level has nothing later below it (`Origin`, `ShadowNext`).
While a compaction runs, level 0 may have two versions of a key that is in the memtable;
they do not count there, and `SourceOfMemtable` shows that what leaves level 0 is as
late as the memtable's.  `ReadNext`: all this is kept by steps that insert no version
older than a stored one (`OrderedStep`).  Hence `GetIsNewest`: `get` returns a
version that none stored is later than.  Whether clients put in that order is
for the two modules that have clients to show.

**The map** (OrderedClientTheorems).  Each put is later than all versions of its key,
so that timestamps tell these apart (`OneVersion`) and the newest is one.  A step that
stores nothing newer of a key can then change no answer (`SameAnswer`, from
`LatestIsNeverLost` and from `StoredAfter`, that no step makes versions up).
`AnswersNext` lists what the answers are after each step, and the three theorems
follow, the refinement with `latest` and `[key \in Keys |-> get(key)]` for KVStore's
variables.

**The server** (CapsuleServerTheorems).  `ServerInv` follows the messages of the client
that is connected: its put is queued, or being worked on by a compaction, or
applied, or answered for (`Queued`, `Working`, `Applied`, `Answered`), and in each case
the queues hold exactly the messages that are left.  `ClockInv`, that nothing stored
is later than the clock, makes its put one to which `ReadNext` applies, though it
may tie with one of another client; it stays so until it is applied, because no other
client is served meanwhile.  Then a version as late as the put is stored (the put's own,
or the one in the memtable for which it was discarded), and `GetIsNewest`
makes the answer as late as that.  A restart empties the database, but only while
nobody waits for an answer.

**The loops** (MergeLoopTheorems, EvictLoopTheorems).  No induction over data is
needed: the loop is the induction, its invariant says how far the computation has
come.  With these theorems the results above speak of the code's loops, whatever
the lists they are given.

`MergeInv` describes the indices by the keys that they have yet to pass (`LeftA`,
`LeftB`).  An iteration removes the smallest of them (`Advance`), so that the keys
taken are smaller than all that are left (`TakenFirst`), and a key that comes up in
one list only cannot be a key of the other, or cannot have been passed there
(`StillLeft`): the version pushed is the one that `Survivor` chooses.  The number of keys
taken is then the rank of the next (`RankOfNext`), and `Filled` states that the
blocks written out are the first chunks of `merge`, complete, and `next_cb` is the part
of the next chunk that has been taken.  `PushFills` carries this over an
iteration, `FilledAtEnd` draws the conclusion when nothing is left.

`EvictInv` says that the blocks seen are parted (`Parted`: a first stretch leaves, the
rest stays), that every source block the outer loop got past had a gap before it in
the level, and that those that leave are the ones that end before the last such source
block (`Reached`).  `Blocked` is the point to see: the loops share `destInd`, and once
the outer loop has kept a block, the inner one is never entered again, so no block
leaves from behind one that stays.  `NoGap` and `SelectedFirst` turn this into
`EvictCount`; `SortedAlready` shows that the sort at the end changes nothing.

**The capsule** (CapsuleTheorems).  A hash that is held was returned by this process,
with a counter below the current one, and its file has that content.  A file that
is opened carries the current counter in its name, so it is none of those,
whatever earlier processes left.

**The locks** (MemtableLocksTheorems).  `LockInv`: two callers that use the same mutex
have the same key, and so has the entry of `locklst` that shows it; different
entries show different mutexes.  `NewLock` keeps this because there is always an
address that nobody reaches (`FreeLock`, a count).  `CountInv`: the memtable
and the callers that have found room, or may insert without looking, are together
at most the size of the memtable and one less than all the callers - the one
that tests the size has not been counted yet.

Only model-checked: liveness (`PutReturns`, `MergeReturns`, `SelectionReturns`,
`TestEnds`), which the provers do not reach.  Every invariant, action property and refinement
that a run checks is also a theorem.

## What is not modelled

- `benchmark.h`, 16009 of the repository's 21206 lines, is recorded data: keys and values
  of a workload, without control.  The vendored libraries - the bloom filter,
  whose calls are commented out, uuid, zconf, serialize-tuple - are another 2500.
  They are why the lines that the models stand for are a small share of all,
  although nearly all of the core, the servers and the enclave are among them.
- `network/Old`, `test_files/Old` and `util/proto_util`: written against an
  interface that the core no longer has.
- `Memtable` under several callers is modelled to the statement, not to the
  machine: the maps themselves are not thread-safe, and two accesses at once are
  undefined.  The index has no lock at all, so no compaction runs beside
  another caller there.
- Loading and finalizing an enclave, and the encoding of messages.
- A disk on which a write fails no earlier than in `close()`, whose result
  `putCapsuleBlock` does not look at: it would return the hash of a short file.
- The time between a client's exit and the socket's noticing it; with one client at a time
  the next connects after it.
- A server that is restarted while a client is connected, and what ZeroMQ
  reconnects and repeats then.
- A database of several processes: one process uses a directory at a time.
- The width of `maxSize`, an `int` that ten times ten overflows at level 8 with
  blocks of 50 pairs, and of the capsule's counter.
- `connectDB` and the `isMulticast` flag, which do nothing; the `msgType` of a payload,
  which stays with its value and is never looked at (that it may be missing counts in
  Capsule's `Hash` only); logging and what the tests print.

## Plan

All that was planned is done: CapsuleBlocks, CapsuleDB, MergeLoop, EvictLoop,
KVStore, OrderedClient, Capsule, BlockStore, MemtableLocks, CapsuleServer, and the proofs
of their safety properties.  What would come next is
a composition of MemtableLocks with the compaction, if the index is given a lock.
