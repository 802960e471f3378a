------------------------------ MODULE CapsuleDB ------------------------------
(***************************************************************************)
(* One CapsuleDB instance: the memtable (src/src/core/memtable.cc), the    *)
(* index and its compaction (index.cc, level.cc) and the engine's get      *)
(* (engine.cc), under puts with any timestamps.                            *)
(*                                                                         *)
(* A put that finds the memtable full writes it out to level 0 and may     *)
(* start a compaction.  The compaction is part of the put: pc walks        *)
(* through compact and through one compactHelper call per level, and no    *)
(* other put starts before it is over.  frames is the stack of those       *)
(* calls; the call at depth d works on level d.                            *)
(***************************************************************************)
EXTENDS CapsuleBlocks

VARIABLES
  memtable,   \* Memtable::memtable
  locklst,    \* Memtable::locklst: the keys that have a lock
  numLevels,  \* CapsuleIndex::numLevels
  levels,     \* CapsuleIndex::levels, level i at index i
  pc,         \* "idle", or where the put in progress stands
  payload,    \* the payload of the put in progress
  l0Ind,      \* compact's loop counter: blocks of level 0 merged so far
  frames      \* the compactHelper calls in progress, outermost first

index == <<numLevels, levels>>
call == <<pc, payload, l0Ind, frames>>
vars == <<memtable, locklst, index, call>>

\* Stands for payload while no put is in progress.
NoPayload == NotFound

\* The locals of a compactHelper call.
Frame(keys) == [sourceVec : Seq(Block(keys)), remainingBlocks : Seq(Block(keys))]

TypeOK ==
  /\ memtable \in PairMap(Keys)
  /\ locklst \in SUBSET Keys
  /\ numLevels \in Nat \ {0}
  /\ levels \in [0 .. numLevels - 1 -> Level(Keys)]
  /\ pc \in {"idle", "compact", "compactHelper", "return"}
  /\ payload \in Payload \cup {NoPayload}
  /\ l0Ind \in Nat
  /\ frames \in Seq(Frame(Keys))

\* spawnDB.
Init ==
  /\ memtable = << >>
  /\ locklst = {}
  /\ numLevels = 1
  /\ levels = [i \in {0} |-> NewLevel(2 * BlockSize)]
  /\ pc = "idle"
  /\ payload = NoPayload
  /\ l0Ind = 0
  /\ frames = << >>

-----------------------------------------------------------------------------
(***************************************************************************)
(* Memtable::put, called by CapsuleDB::put, which ignores its result.      *)
(***************************************************************************)

\* Mutants of StartOver: the locks stay; the pair is inserted too early.
StartOverLocked(key, version) ==
  /\ memtable' = [k \in {key} |-> version]
  /\ locklst' = locklst \cup {key}
StartOverEmpty(key, version) ==
  /\ memtable' = << >>
  /\ locklst' = {}

\* The end of a put that wrote the memtable out: write_out_if_full empties
\* memtable and locklst, and put inserts its pair with a new lock.
StartOver(key, version) ==
  /\ memtable' = [k \in {key} |-> version]
  /\ locklst' = {key}

\* Mutant of MemtableFull: one pair too many.
MemtableOverfull == Cardinality(DOMAIN memtable) > BlockSize

MemtableFull == Cardinality(DOMAIN memtable) >= BlockSize

\* The key is in the memtable with a timestamp at least as late: discarded.
PutEarlier(key, version) ==
  /\ pc = "idle"
  /\ key \in locklst
  /\ version.txn_timestamp <= memtable[key].txn_timestamp
  /\ UNCHANGED vars

\* The key is in the memtable with an earlier timestamp: replaced.
PutLater(key, version) ==
  /\ pc = "idle"
  /\ key \in locklst
  /\ version.txn_timestamp > memtable[key].txn_timestamp
  /\ memtable' = [memtable EXCEPT ![key] = version]
  /\ UNCHANGED <<locklst, index, call>>

\* A new key, and room for it.
PutNew(key, version) ==
  /\ pc = "idle"
  /\ key \notin locklst
  /\ ~MemtableFull
  /\ memtable' = [k \in DOMAIN memtable \cup {key} |->
                    IF k = key THEN version ELSE memtable[k]]
  /\ locklst' = locklst \cup {key}
  /\ UNCHANGED <<index, call>>

\* Mutant of L0HasRoom: the test lets a full level pass.
L0HasRoomWhenFull(level) == BlockSize * level.numBlocks <= level.maxSize

\* compact's first test: level 0 has not reached its size.
L0HasRoom(level) == BlockSize * level.numBlocks < level.maxSize

\* A new key and a full memtable: write_out_if_full adds the memtable to
\* level 0 as a block, and compact returns at once.
PutWriteOut(key, version) ==
  LET level0 == addBlock(levels[0], MemtableBlock(memtable))
  IN  /\ pc = "idle"
      /\ key \notin locklst
      /\ MemtableFull
      /\ L0HasRoom(level0)
      /\ levels' = [levels EXCEPT ![0] = level0]
      /\ StartOver(key, version)
      /\ UNCHANGED <<numLevels, call>>

\* The same, but level 0 is full and compact has to work.  sortL0 rewrites
\* the blocks of level 0 sorted, as they are already, and sortedLv0 starts
\* with the first of them.  The memtable is cleared only after compact.
PutCompact(key, version) ==
  LET level0 == addBlock(levels[0], MemtableBlock(memtable))
  IN  /\ pc = "idle"
      /\ key \notin locklst
      /\ MemtableFull
      /\ ~L0HasRoom(level0)
      /\ levels' = [levels EXCEPT ![0] = level0]
      /\ pc' = "compact"
      /\ payload' = [key |-> key, version |-> version]
      /\ l0Ind' = 1
      /\ frames' = <<[sourceVec |-> <<level0.recordHashes[1]>>,
                      remainingBlocks |-> << >>]>>
      /\ UNCHANGED <<memtable, locklst, numLevels>>

put(key, version) ==
  \/ PutEarlier(key, version)
  \/ PutLater(key, version)
  \/ PutNew(key, version)
  \/ PutWriteOut(key, version)
  \/ PutCompact(key, version)

-----------------------------------------------------------------------------
(***************************************************************************)
(* CapsuleIndex::compact and compactHelper.                                *)
(***************************************************************************)

\* Mutants of addLevel: the level is not pushed; it is no larger.
addLevelUnpushed(upperSize) ==
  /\ numLevels' = numLevels + 1
  /\ UNCHANGED levels
addLevelSameSize(upperSize) ==
  /\ numLevels' = numLevels + 1
  /\ levels' = [i \in 0 .. numLevels |->
                  IF i = numLevels THEN NewLevel(upperSize) ELSE levels[i]]

\* CapsuleIndex::addLevel, below a level of the given size.
addLevel(upperSize) ==
  /\ numLevels' = numLevels + 1
  /\ levels' = [i \in 0 .. numLevels |->
                  IF i = numLevels THEN NewLevel(LevelRatio * upperSize)
                                   ELSE levels[i]]

\* Mutant of CompactMergeL0: the counter stays.
CompactMergeL0Stuck ==
  /\ pc = "compact"
  /\ l0Ind < Len(levels[0].recordHashes)
  /\ frames' = [frames EXCEPT ![1].sourceVec =
                  merge(@, <<levels[0].recordHashes[l0Ind + 1]>>)]
  /\ UNCHANGED <<memtable, locklst, index, pc, payload, l0Ind>>

\* One iteration of compact's loop: the next block of level 0 is merged in.
CompactMergeL0 ==
  /\ pc = "compact"
  /\ l0Ind < Len(levels[0].recordHashes)
  /\ frames' = [frames EXCEPT ![1].sourceVec =
                  merge(@, <<levels[0].recordHashes[l0Ind + 1]>>)]
  /\ l0Ind' = l0Ind + 1
  /\ UNCHANGED <<memtable, locklst, index, pc, payload>>

\* The loop is over: compact calls compactHelper for level 1.
CompactCall ==
  /\ pc = "compact"
  /\ l0Ind >= Len(levels[0].recordHashes)
  /\ IF numLevels = 1 THEN addLevel(levels[0].maxSize) ELSE UNCHANGED index
  /\ pc' = "compactHelper"
  /\ l0Ind' = 0
  /\ UNCHANGED <<memtable, locklst, payload, frames>>

\* The level of the innermost call, and its source blocks.
Depth == Len(frames)
Source == frames[Depth].sourceVec
Dest == levels[Depth].recordHashes

\* Adding the source blocks would fill the level.
Overflow ==
  BlockSize * Len(Source) + BlockSize * Len(Dest) >= levels[Depth].maxSize

\* compactHelper on a level that would overflow: evict blocks and recurse.
HelperEvict ==
  LET n == EvictCount(Source, Dest)
  IN  /\ pc = "compactHelper"
      /\ Overflow
      /\ IF Depth + 1 >= numLevels THEN addLevel(levels[Depth].maxSize)
                                   ELSE UNCHANGED index
      /\ frames' = Append([frames EXCEPT ![Depth].remainingBlocks =
                             SubSeq(Dest, n + 1, Len(Dest))],
                          [sourceVec |-> SubSeq(Dest, 1, n),
                           remainingBlocks |-> << >>])
      /\ UNCHANGED <<memtable, locklst, pc, payload, l0Ind>>

\* What every compactHelper call ends with: the source blocks are merged
\* into the blocks the level is left with, and the call returns.
HelperMerge(kept) ==
  /\ levels' = [levels EXCEPT ![Depth] = WithBlocks(@, merge(Source, kept))]
  /\ pc' = "return"
  /\ frames' = SubSeq(frames, 1, Depth - 1)
  /\ UNCHANGED <<memtable, locklst, numLevels, payload, l0Ind>>

\* compactHelper on a level with room.
HelperFits ==
  /\ pc = "compactHelper"
  /\ ~Overflow
  /\ HelperMerge(Dest)

\* compactHelper after its recursive call: the evicted blocks are gone.
HelperReturn ==
  /\ pc = "return"
  /\ frames # << >>
  /\ HelperMerge(frames[Depth].remainingBlocks)

\* The outermost call has returned: compact empties level 0,
\* write_out_if_full the memtable, and the put inserts its pair.
CompactReturn ==
  /\ pc = "return"
  /\ frames = << >>
  /\ levels' = [levels EXCEPT ![0] = WithBlocks(@, << >>)]
  /\ StartOver(payload.key, payload.version)
  /\ pc' = "idle"
  /\ payload' = NoPayload
  /\ UNCHANGED <<numLevels, l0Ind, frames>>

Compaction ==
  \/ CompactMergeL0
  \/ CompactCall
  \/ HelperEvict
  \/ HelperFits
  \/ HelperReturn
  \/ CompactReturn

Next ==
  \/ \E key \in Keys, version \in Version : put(key, version)
  \/ Compaction

Spec == Init /\ [][Next]_vars

\* A put runs to its end: nothing in the code waits inside a compaction.
Fairness == WF_vars(Compaction)

-----------------------------------------------------------------------------
(***************************************************************************)
(* CapsuleDB::get.                                                         *)
(***************************************************************************)

\* The levels in which getBlock and the search of the block find the key.
Hits(key) == {i \in 0 .. numLevels - 1 : Lookup(levels[i], key) # NotFound}

\* Mutant of get: the levels are tried from the bottom.
getDeepest(key) ==
  LET hits == Hits(key)
  IN  IF key \in locklst /\ key # EmptyKey THEN memtable[key]
      ELSE IF hits # {} THEN Lookup(levels[Max(hits)], key)
      ELSE IF key \in locklst THEN memtable[key]
      ELSE NotFound

\* The memtable answers unless the key of its answer is "", the mark of a
\* miss; then the levels are tried from the top, and the memtable's answer
\* is returned if none of them has the key.
get(key) ==
  LET hits == Hits(key)
  IN  IF key \in locklst /\ key # EmptyKey THEN memtable[key]
      ELSE IF hits # {} THEN Lookup(levels[Min(hits)], key)
      ELSE IF key \in locklst THEN memtable[key]
      ELSE NotFound

-----------------------------------------------------------------------------
(***************************************************************************)
(* Properties.                                                             *)
(***************************************************************************)

\* Memtable::put does not check that the iterator it dereferences is valid
\* because "locklst and memtable keys are synchronized": a key has a lock
\* exactly when it is in the memtable, through write-outs and compactions.
LocklstSync == locklst = DOMAIN memtable

\* The memtable never outgrows the block it is written out to, though it is
\* checked only before a new key is added.
MemtableBound == Cardinality(DOMAIN memtable) <= BlockSize

\* Level::getBlock reads the first block that covers a key, on level 0 too,
\* where blocks overlap and the first is the oldest.  That is right because
\* compact leaves at most one block there whenever a put has returned.
SingleL0Block == pc = "idle" => Len(levels[0].recordHashes) <= 1

\* A level's range and its blocks can be relied on: no put is in progress, or
\* no key is "".  While compact runs, addBlock may have taken level 0 for
\* empty because of an empty key, and given it the range of its last block.
RangesValid == pc = "idle" \/ EmptyKey \notin Keys

\* The fields that the code updates next to recordHashes agree with it: the
\* count getBlock's loop runs to, and the range it tests first.  No block is
\* empty, or larger than a full memtable.
LevelConsistent ==
  \A i \in 0 .. numLevels - 1 :
    LET blocks == levels[i].recordHashes
    IN  /\ levels[i].numBlocks = Len(blocks)
        /\ \A b \in DOMAIN blocks :
             /\ DOMAIN blocks[b].kvPairs # {}
             /\ Cardinality(DOMAIN blocks[b].kvPairs) <= BlockSize
             /\ RangesValid => /\ levels[i].min_key <= blocks[b].minKey
                               /\ levels[i].max_key >= blocks[b].maxKey

\* Every level below level 0 is sorted and has a key at most once, the
\* blocks in flight between two levels included: merge, the block selection
\* and getBlock all rely on it, and compactHelper takes the level apart and
\* puts it together again.
LevelsSorted ==
  /\ \A i \in 1 .. numLevels - 1 : InKeyOrder(levels[i].recordHashes)
  /\ \A f \in DOMAIN frames :
       InKeyOrder(frames[f].sourceVec) /\ InKeyOrder(frames[f].remainingBlocks)

\* A level other than level 0 never reaches its maximal size, though a merge
\* happens after the test for it and evicts no more blocks than arrive.
LevelBound ==
  \A i \in 1 .. numLevels - 1 :
    BlockSize * Len(levels[i].recordHashes) < levels[i].maxSize

\* When compactHelper tops up the evicted blocks, std::next stays within
\* remainingBlocks; and a[0], which merge reads before any test, exists.
EvictionInBounds ==
  pc = "compactHelper" =>
    /\ Len(Source) >= 1
    /\ Overflow => EvictCount(Source, Dest) <= Len(Dest)

\* All the versions of a key held anywhere: in the memtable or in a level.
Stored(key) ==
  {memtable[k] : k \in DOMAIN memtable \cap {key}} \cup
  UNION {{b.kvPairs[key] : b \in {blocks[j] : j \in
            {h \in DOMAIN blocks : key \in DOMAIN blocks[h].kvPairs}}} :
         blocks \in {levels[i].recordHashes : i \in 0 .. numLevels - 1}}

\* What a get that ran now would return of a nonempty key that is stored
\* somewhere is never "not found", not even in the middle of a compaction.
StoredIsFound ==
  RangesValid => \A key \in Keys \ {EmptyKey} : get(key) = NotFound => Stored(key) = {}

\* Whatever the order of the timestamps, no step of a compaction, of a
\* write-out or of a put drops the latest version of a key: one at least as
\* late stays, though merge and put each discard one of two versions.
LatestNeverLost ==
  [][\A key \in Keys : \A v \in Stored(key) :
       \E w \in Stored(key)' : w.txn_timestamp >= v.txn_timestamp]_vars

\* A put comes to its end: compact's loop and the recursion of compactHelper
\* terminate, and the levels do not grow for ever within one call.
PutReturns == pc # "idle" ~> pc = "idle"
=============================================================================
