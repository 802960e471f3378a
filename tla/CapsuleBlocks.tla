---------------------------- MODULE CapsuleBlocks ----------------------------
(***************************************************************************)
(* The data of CapsuleDB: key-value pairs, the blocks that hold them, the  *)
(* levels of the index, and what CapsuleIndex::merge, the block selection  *)
(* of CapsuleIndex::compactHelper, Level::addBlock and Level::getBlock     *)
(* compute from them (src/src/core: capsuleBlock, level, index).           *)
(*                                                                         *)
(* Keys are C++ strings, compared lexicographically.  Only their order     *)
(* matters, so a key is a natural number; 0 is the empty string, the       *)
(* smallest string of all and the code's marker for "no key".              *)
(*                                                                         *)
(* A block's kvPairs is a vector sorted by key without duplicates (it      *)
(* comes from a std::map or from merge), hence a function from its keys to *)
(* their versions.  The index names a block by its hash; the hash stands   *)
(* for the block written under it, so a blockHeader carries the pairs      *)
(* themselves.                                                             *)
(***************************************************************************)
EXTENDS Integers, Sequences, FiniteSets, FiniteSetsExt

CONSTANTS
  Keys,        \* the keys of the puts
  Values,      \* the values of the puts
  Timestamps,  \* kvs_payload::txn_timestamp, an int64
  BlockSize,   \* memtable_size: pairs in a full memtable and in a full block
  LevelRatio,  \* how many times larger each level is than the one above: 10
  NotFound     \* what get returns for a key it does not find

ASSUME KeysAssumption == Keys \subseteq Nat /\ IsFiniteSet(Keys)
ASSUME TimestampsAssumption == Timestamps \subseteq Int
ASSUME BlockSizeAssumption == BlockSize \in Nat \ {0}
ASSUME LevelRatioAssumption == LevelRatio \in Nat /\ LevelRatio >= 2

\* The empty std::string.
EmptyKey == 0

\* What kvs_payload holds besides its key.
Version == [value : Values, txn_timestamp : Timestamps]

ASSUME NotFoundAssumption == NotFound \notin Version

\* kvs_payload.
Payload == [key : Keys, version : Version]

\* The maps a memtable or a block over some keys can hold: key to version.
PairMap(keys) == UNION {[ks -> Version] : ks \in SUBSET keys}

\* A map with one more entry, or another value in one.
With(f, x, value) == [y \in DOMAIN f \cup {x} |-> IF y = x THEN value ELSE f[y]]

\* blockHeader, with the block its hash names.
Block(keys) == [minKey : Nat, maxKey : Nat, kvPairs : PairMap(keys)]

(***************************************************************************)
(* CapsuleBlock.                                                           *)
(***************************************************************************)

\* startKey and endKey once addKVPair has been called for every key of ks in
\* ascending order.  startKey = "" reads as "not set yet", so an empty key
\* added first is forgotten as soon as a second pair arrives.
StartKey(ks) ==
  IF ks \subseteq {EmptyKey} THEN EmptyKey ELSE Min(ks \ {EmptyKey})

\* A block filled by addKVPair alone: one that merge writes out.
MergedBlock(pairs) ==
  [minKey |-> StartKey(DOMAIN pairs), maxKey |-> Max(DOMAIN pairs), kvPairs |-> pairs]

\* The block write_out_if_full makes of a memtable: setMinKey and setMaxKey
\* replace the bounds that addKVPair computed.
MemtableBlock(pairs) ==
  [minKey |-> Min(DOMAIN pairs), maxKey |-> Max(DOMAIN pairs), kvPairs |-> pairs]

(***************************************************************************)
(* CapsuleIndex::merge.  MergeLoop.tla models the two-pointer loop itself  *)
(* and checks that it computes this.                                       *)
(***************************************************************************)

\* The keys stored in a list of blocks.
KeysOf(blocks) == UNION {DOMAIN blocks[i].kvPairs : i \in DOMAIN blocks}

\* A sorted list: the keys of every block before those of the next.
InKeyOrder(blocks) ==
  \A b, c \in DOMAIN blocks : b < c =>
    \A j \in DOMAIN blocks[b].kvPairs, k \in DOMAIN blocks[c].kvPairs : j < k

\* The version of a key stored in a list of blocks.
VersionIn(blocks, key) ==
  LET i == CHOOSE j \in DOMAIN blocks : key \in DOMAIN blocks[j].kvPairs
  IN  blocks[i].kvPairs[key]

\* Mutants of Survivor: the comparison of the timestamps turned round; left out.
SurvivorEarlier(a, b, key) ==
  IF key \in KeysOf(a) /\ (key \in KeysOf(b) =>
       VersionIn(a, key).txn_timestamp < VersionIn(b, key).txn_timestamp)
  THEN VersionIn(a, key)
  ELSE VersionIn(b, key)
SurvivorB(a, b, key) ==
  IF key \in KeysOf(b) THEN VersionIn(b, key) ELSE VersionIn(a, key)

\* Which version merge keeps for a key: on a tie of the timestamps, b's.
Survivor(a, b, key) ==
  IF key \in KeysOf(a) /\ (key \in KeysOf(b) =>
       VersionIn(b, key).txn_timestamp < VersionIn(a, key).txn_timestamp)
  THEN VersionIn(a, key)
  ELSE VersionIn(b, key)

\* How many of the keys come before a key.
Rank(keys) == [key \in keys |-> Cardinality({k \in keys : k < key})]

\* Mutant of merge: the lists joined, not merged.
mergeJoined(a, b) == a \o b

\* All pairs of a and b in key order, cut into blocks of BlockSize pairs.
merge(a, b) ==
  LET keys == KeysOf(a) \cup KeysOf(b)
      rank == Rank(keys)
      Chunk(i) == {key \in keys : rank[key] \div BlockSize = i - 1}
  IN  [i \in 1 .. ((Cardinality(keys) + BlockSize - 1) \div BlockSize) |->
         MergedBlock([key \in Chunk(i) |-> Survivor(a, b, key)])]

(***************************************************************************)
(* The block selection of CapsuleIndex::compactHelper.  EvictLoop.tla      *)
(* models its two loops and checks that they compute this.                 *)
(***************************************************************************)

\* Source block j starts beyond a destination block that the source blocks
\* before it did not reach: what the outer loop tests when it comes to j.
Gap(source, dest, j) ==
  \E i \in DOMAIN dest :
    /\ dest[i].maxKey < source[j].minKey
    /\ j > 1 => dest[i].maxKey >= source[j - 1].maxKey

\* The outer loop gets past source block j.
Passed(source, dest) ==
  {j \in DOMAIN source : \A h \in 1 .. j : Gap(source, dest, h)}

\* The destination blocks that the loops push to newSourceVec.
Selected(source, dest) ==
  {i \in DOMAIN dest :
     \E j \in Passed(source, dest) : dest[i].maxKey < source[j].maxKey}

\* Mutant of EvictCount: no top-up.
EvictCountSelected(source, dest) == Cardinality(Selected(source, dest))

\* How many blocks leave the destination: the selected ones, topped up from
\* the front to as many as arrive.  They are always the first ones, because
\* the loops stop selecting at the first block they keep.
EvictCount(source, dest) ==
  Max({Cardinality(Selected(source, dest)), Len(source)})

(***************************************************************************)
(* Level.                                                                  *)
(***************************************************************************)

\* Level's fields; its index is its place in CapsuleIndex::levels.
Level(keys) ==
  [numBlocks : Nat, maxSize : Nat, min_key : Nat, max_key : Nat,
   recordHashes : Seq(Block(keys))]

\* Level::Level(i, ms).
NewLevel(maxSize) ==
  [numBlocks |-> 0, maxSize |-> maxSize, min_key |-> EmptyKey,
   max_key |-> EmptyKey, recordHashes |-> << >>]

\* Level::addBlock on level 0, the only level it is called for: the level
\* counts as empty when one of its bounds is "".
addBlock(level, block) ==
  LET empty == level.min_key = EmptyKey \/ level.max_key = EmptyKey
  IN  [numBlocks |-> level.numBlocks + 1,
       maxSize |-> level.maxSize,
       min_key |-> IF empty THEN block.minKey ELSE Min({level.min_key, block.minKey}),
       max_key |-> IF empty THEN block.maxKey ELSE Max({level.max_key, block.maxKey}),
       recordHashes |-> Append(level.recordHashes, block)]

\* Mutants of WithBlocks: numBlocks forgotten; max_key of the wrong block.
WithBlocksUncounted(level, blocks) ==
  [level EXCEPT
     !.recordHashes = blocks,
     !.min_key = IF blocks = << >> THEN EmptyKey ELSE blocks[1].minKey,
     !.max_key = IF blocks = << >> THEN EmptyKey ELSE blocks[Len(blocks)].maxKey]
WithBlocksFirstMax(level, blocks) ==
  [level EXCEPT
     !.recordHashes = blocks,
     !.numBlocks = Len(blocks),
     !.min_key = IF blocks = << >> THEN EmptyKey ELSE blocks[1].minKey,
     !.max_key = IF blocks = << >> THEN EmptyKey ELSE blocks[1].maxKey]

\* A level whose blocks are replaced: the assignments that end compact and
\* compactHelper.
WithBlocks(level, blocks) ==
  [numBlocks |-> Len(blocks),
   maxSize |-> level.maxSize,
   min_key |-> IF blocks = << >> THEN EmptyKey ELSE blocks[1].minKey,
   max_key |-> IF blocks = << >> THEN EmptyKey ELSE blocks[Len(blocks)].maxKey,
   recordHashes |-> blocks]

\* The blocks of a level whose range covers a key.
Covering(level, key) ==
  {i \in 1 .. level.numBlocks :
     level.recordHashes[i].minKey <= key /\ key <= level.recordHashes[i].maxKey}

\* Level::getBlock followed by the search of the block in CapsuleDB::get:
\* only the first covering block is read.
Lookup(level, key) ==
  LET covering == Covering(level, key)
      block == level.recordHashes[Min(covering)]
  IN  IF \/ key < level.min_key \/ key > level.max_key
         \/ covering = {}
         \/ key \notin DOMAIN block.kvPairs
      THEN NotFound
      ELSE block.kvPairs[key]
=============================================================================
