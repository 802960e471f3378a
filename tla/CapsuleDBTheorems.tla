--------------------------- MODULE CapsuleDBTheorems ---------------------------
(***************************************************************************)
(* Safety of CapsuleDB for every value of the constants: the types, the    *)
(* memtable, the sizes of the levels and the bounds of the eviction; that  *)
(* its levels stay sorted and consistent, that every stored key is found,  *)
(* and that the latest version of a key is never dropped.                  *)
(*                                                                         *)
(* The inductive invariant is built up in three layers.                    *)
(*                                                                         *)
(* IInv: TypeInv types the state by well-formed blocks.  SizeInv says how  *)
(* large the levels may be and how their maximal sizes follow from each    *)
(* other.  CallInv says where the compactHelper calls in progress stand,   *)
(* and that what a call has set aside fits into its level again when the   *)
(* call below it has returned.                                             *)
(*                                                                         *)
(* DataInv: blocks carry the bounds of their keys, and what a call has set *)
(* aside and what it has passed on cover what its level still shows.       *)
(*                                                                         *)
(* ReadInv: newer versions of a key are above older ones.  It holds if     *)
(* puts insert no version that is older than a stored one, as those of the *)
(* clients in OrderedClient and CapsuleServer do; what get returns is then *)
(* the newest version.                                                     *)
(***************************************************************************)
EXTENDS CapsuleDB, CapsuleBlocksTheorems

GoodFrames == [sourceVec : Seq(GoodBlocks), remainingBlocks : Seq(GoodBlocks)]

TypeInv ==
  /\ memtable \in PairMap(Keys)
  /\ Cardinality(DOMAIN memtable) <= BlockSize
  /\ locklst = DOMAIN memtable
  /\ numLevels \in Nat \ {0}
  /\ levels \in [0 .. numLevels - 1 -> GoodLevels]
  /\ pc \in {"idle", "compact", "compactHelper", "return"}
  /\ payload \in Payload \cup {NoPayload}
  /\ pc # "idle" => payload \in Payload
  /\ l0Ind \in Nat
  /\ frames \in Seq(GoodFrames)

SizeInv ==
  /\ levels[0].maxSize = 2 * BlockSize
  /\ \A i \in 1 .. numLevels - 1 : levels[i].maxSize = LevelRatio * levels[i - 1].maxSize
  /\ levels[0].numBlocks = Len(levels[0].recordHashes)
  /\ Len(levels[0].recordHashes) <= IF pc = "idle" THEN 1 ELSE 2
  /\ LevelBound

\* The call at depth f has split its level and waits for the call below it.
Pending(f) == pc = "return" \/ f < Len(frames)

CallInv ==
  /\ pc = "idle" => frames = << >>
  /\ pc = "compact" => /\ Len(frames) = 1
                       /\ l0Ind <= 2
                       /\ Len(frames[1].sourceVec) <= l0Ind
  /\ pc = "compactHelper" => Len(frames) \in 1 .. numLevels - 1
  /\ pc = "return" => Len(frames) \in 0 .. numLevels - 1
  /\ \A f \in 1 .. Len(frames) :
       /\ Len(frames[f].sourceVec) >= 1
       /\ BlockSize * Len(frames[f].sourceVec) <= levels[f - 1].maxSize
       /\ Pending(f) =>
            BlockSize * (Len(frames[f].sourceVec) + Len(frames[f].remainingBlocks))
              < levels[f].maxSize

IInv == TypeInv /\ SizeInv /\ CallInv

-----------------------------------------------------------------------------

\* Initially nothing is stored, and level 0 is the only level.
LEMMA IInvInit == Init => IInv
<1> SUFFICES ASSUME Init PROVE IInv
  OBVIOUS
<1>1. 2 * BlockSize \in Nat /\ BlockSize \in Nat \ {0}
  BY BlockSizeAssumption
<1>2. NewLevel(2 * BlockSize) \in GoodLevels
  BY <1>1, NewLevelType
<1>3. memtable \in PairMap(Keys) /\ DOMAIN memtable = {}
  <2>1. memtable \in Seq(Version) /\ Len(memtable) = 0
    BY EmptySeq DEF Init
  <2>2. memtable \in [1 .. 0 -> Version] /\ DOMAIN memtable = 1 .. 0
    BY <2>1, LenProperties
  <2>3. 1 .. 0 = {}
    OBVIOUS
  <2> QED
    BY <2>2, <2>3 DEF PairMap
<1>4. TypeInv
  <2>1. Cardinality(DOMAIN memtable) = 0
    BY <1>3, FS_EmptySet
  <2>2. levels \in [0 .. numLevels - 1 -> GoodLevels]
    BY <1>2 DEF Init
  <2> QED
    BY <1>1, <1>3, <2>1, <2>2 DEF Init, TypeInv
<1>5. SizeInv
  BY <1>1 DEF Init, SizeInv, LevelBound, NewLevel
<1>6. CallInv
  BY DEF Init, CallInv
<1> QED
  BY <1>4, <1>5, <1>6 DEF IInv

\* The sizes of the levels, as numbers.
LEMMA SizeFacts ==
  ASSUME IInv
  PROVE  \A i \in 0 .. numLevels - 1 :
           /\ levels[i] \in GoodLevels
           /\ levels[i].maxSize \in Nat \ {0}
           /\ levels[i].recordHashes \in Seq(GoodBlocks)
           /\ Len(levels[i].recordHashes) \in Nat
           /\ BlockSize * Len(levels[i].recordHashes) \in Nat
<1> SUFFICES ASSUME NEW i \in 0 .. numLevels - 1
             PROVE  /\ levels[i] \in GoodLevels
                    /\ levels[i].maxSize \in Nat \ {0}
                    /\ levels[i].recordHashes \in Seq(GoodBlocks)
                    /\ Len(levels[i].recordHashes) \in Nat
                    /\ BlockSize * Len(levels[i].recordHashes) \in Nat
  OBVIOUS
<1>1. levels[i] \in GoodLevels
  BY DEF IInv, TypeInv
<1>2. levels[i].maxSize \in Nat /\ levels[i].recordHashes \in Seq(GoodBlocks)
  BY <1>1 DEF GoodLevels, Level
<1>3. Len(levels[i].recordHashes) \in Nat
  BY <1>2, LenProperties
<1>4. BlockSize * Len(levels[i].recordHashes) \in Nat
  BY <1>3, BlockSizeAssumption, MulMono
<1>5. levels[i].maxSize # 0
  <2>1. CASE i = 0
    BY <2>1, BlockSizeAssumption DEF IInv, SizeInv
  <2>2. CASE i # 0
    <3>1. i \in 1 .. numLevels - 1
      BY <2>2 DEF IInv, TypeInv
    <3> QED
      BY <1>2, <1>4, <3>1 DEF IInv, SizeInv, LevelBound
  <2> QED
    BY <2>1, <2>2
<1> QED
  BY <1>1, <1>2, <1>3, <1>4, <1>5

\* A call in progress, as numbers.
LEMMA FrameFacts ==
  ASSUME IInv
  PROVE  /\ Len(frames) \in Nat
         /\ \A f \in 1 .. Len(frames) :
              /\ frames[f] \in GoodFrames
              /\ frames[f].sourceVec \in Seq(GoodBlocks)
              /\ frames[f].remainingBlocks \in Seq(GoodBlocks)
              /\ Len(frames[f].sourceVec) \in Nat
              /\ Len(frames[f].remainingBlocks) \in Nat
<1>1. frames \in Seq(GoodFrames)
  BY DEF IInv, TypeInv
<1>2. Len(frames) \in Nat
  BY <1>1, LenProperties
<1>3. ASSUME NEW f \in 1 .. Len(frames)
      PROVE  /\ frames[f] \in GoodFrames
             /\ frames[f].sourceVec \in Seq(GoodBlocks)
             /\ frames[f].remainingBlocks \in Seq(GoodBlocks)
  <2>1. frames[f] \in GoodFrames
    BY <1>1, ElementOfSeq
  <2> QED
    BY <2>1 DEF GoodFrames
<1> QED
  BY <1>2, <1>3, LenProperties

-----------------------------------------------------------------------------
(***************************************************************************)
(* The steps of put.                                                       *)
(***************************************************************************)

\* A put that replaces a version in the memtable.
LEMMA PutLaterStep ==
  ASSUME IInv, NEW key \in Keys, NEW version \in Version, PutLater(key, version)
  PROVE  IInv'
<1>1. DOMAIN memtable' = DOMAIN memtable /\ memtable' \in PairMap(Keys)
  <2>1. memtable' = [memtable EXCEPT ![key] = version]
    BY DEF PutLater
  <2>2. memtable \in [DOMAIN memtable -> Version] /\ DOMAIN memtable \in SUBSET Keys
    BY PairMapDomain DEF IInv, TypeInv
  <2>3. memtable' \in [DOMAIN memtable -> Version]
    BY <2>1, <2>2
  <2> QED
    BY <2>2, <2>3 DEF PairMap
<1>2. TypeInv'
  BY <1>1 DEF IInv, TypeInv, PutLater, index, call
<1>3. SizeInv' /\ CallInv'
  BY DEF IInv, SizeInv, LevelBound, CallInv, Pending, PutLater, index, call
<1> QED
  BY <1>2, <1>3 DEF IInv

\* A put that adds a key to the memtable.
LEMMA PutNewStep ==
  ASSUME IInv, NEW key \in Keys, NEW version \in Version, PutNew(key, version)
  PROVE  IInv'
<1>1. /\ DOMAIN memtable' = DOMAIN memtable \cup {key}
      /\ memtable' \in PairMap(Keys)
  <2>1. memtable' = [k \in DOMAIN memtable \cup {key} |->
                       IF k = key THEN version ELSE memtable[k]]
    BY DEF PutNew
  <2>2. memtable \in [DOMAIN memtable -> Version] /\ DOMAIN memtable \in SUBSET Keys
    BY PairMapDomain DEF IInv, TypeInv
  <2>3. memtable' \in [DOMAIN memtable \cup {key} -> Version]
    BY <2>1, <2>2
  <2> QED
    BY <2>1, <2>2, <2>3 DEF PairMap
<1>2. Cardinality(DOMAIN memtable') <= BlockSize
  <2>1. IsFiniteSet(DOMAIN memtable) /\ Cardinality(DOMAIN memtable) \in Nat
    BY PairMapDomain DEF IInv, TypeInv
  <2>2. Cardinality(DOMAIN memtable \cup {key})
          = IF key \in DOMAIN memtable THEN Cardinality(DOMAIN memtable)
                                      ELSE Cardinality(DOMAIN memtable) + 1
    BY <2>1, FS_AddElement
  <2>3. ~ (Cardinality(DOMAIN memtable) >= BlockSize)
    BY DEF PutNew, MemtableFull
  <2>4. Cardinality(DOMAIN memtable \cup {key}) \in Nat
    BY <2>1, FS_AddElement, FS_CardinalityType
  <2> QED
    BY <1>1, <2>1, <2>2, <2>3, <2>4, BlockSizeAssumption
<1>3. TypeInv'
  BY <1>1, <1>2 DEF IInv, TypeInv, PutNew, index, call
<1>4. SizeInv' /\ CallInv'
  BY DEF IInv, SizeInv, LevelBound, CallInv, Pending, PutNew, index, call
<1> QED
  BY <1>3, <1>4 DEF IInv

\* The memtable after a write-out holds one pair.
LEMMA StartOverType ==
  ASSUME NEW key \in Keys, NEW version \in Version, StartOver(key, version)
  PROVE  /\ memtable' \in PairMap(Keys)
         /\ Cardinality(DOMAIN memtable') <= BlockSize
         /\ locklst' = DOMAIN memtable'
<1>1. DOMAIN memtable' = {key} /\ locklst' = {key}
  BY DEF StartOver
<1>2. memtable' \in PairMap(Keys)
  BY DEF StartOver, PairMap
<1>3. Cardinality({key}) = 1
  BY FS_Singleton
<1> QED
  BY <1>1, <1>2, <1>3, BlockSizeAssumption

\* What write_out_if_full adds to level 0.
LEMMA WriteOutFacts ==
  ASSUME IInv, MemtableFull
  PROVE  LET level0 == addBlock(levels[0], MemtableBlock(memtable))
         IN  /\ MemtableBlock(memtable) \in GoodBlocks
             /\ level0 \in GoodLevels
             /\ level0.maxSize = levels[0].maxSize
             /\ level0.recordHashes
                  = Append(levels[0].recordHashes, MemtableBlock(memtable))
             /\ Len(level0.recordHashes) = Len(levels[0].recordHashes) + 1
             /\ level0.numBlocks = Len(level0.recordHashes)
<1>1. memtable \in PairMap(Keys) /\ Cardinality(DOMAIN memtable) <= BlockSize
  BY DEF IInv, TypeInv
<1>2. DOMAIN memtable # {}
  <2>1. Cardinality(DOMAIN memtable) # 0
    BY <1>1, BlockSizeAssumption DEF MemtableFull
  <2> QED
    BY <2>1, FS_EmptySet
<1>3. MemtableBlock(memtable) \in GoodBlocks
  BY <1>1, <1>2, MemtableBlockType
<1>4. 0 \in 0 .. numLevels - 1
  BY DEF IInv, TypeInv
<1>5. levels[0] \in GoodLevels /\ levels[0].recordHashes \in Seq(GoodBlocks)
  BY <1>4, SizeFacts
<1>6. /\ addBlock(levels[0], MemtableBlock(memtable)) \in GoodLevels
      /\ addBlock(levels[0], MemtableBlock(memtable)).recordHashes
           = Append(levels[0].recordHashes, MemtableBlock(memtable))
      /\ addBlock(levels[0], MemtableBlock(memtable)).numBlocks = levels[0].numBlocks + 1
      /\ addBlock(levels[0], MemtableBlock(memtable)).maxSize = levels[0].maxSize
  BY <1>3, <1>5, addBlockType
<1>7. Len(Append(levels[0].recordHashes, MemtableBlock(memtable)))
        = Len(levels[0].recordHashes) + 1
  BY <1>3, <1>5, AppendProperties
<1>8. levels[0].numBlocks = Len(levels[0].recordHashes)
  BY DEF IInv, SizeInv
<1> QED
  BY <1>3, <1>6, <1>7, <1>8

\* A put that writes the memtable out to level 0, which has room left.
LEMMA PutWriteOutStep ==
  ASSUME IInv, NEW key \in Keys, NEW version \in Version, PutWriteOut(key, version)
  PROVE  IInv'
<1> DEFINE level0 == addBlock(levels[0], MemtableBlock(memtable))
<1>1. /\ level0 \in GoodLevels
      /\ level0.maxSize = levels[0].maxSize
      /\ Len(level0.recordHashes) = Len(levels[0].recordHashes) + 1
      /\ level0.numBlocks = Len(level0.recordHashes)
  BY WriteOutFacts DEF PutWriteOut
<1>2. /\ levels' = [levels EXCEPT ![0] = level0] /\ L0HasRoom(level0)
      /\ UNCHANGED <<numLevels, pc, payload, l0Ind, frames>>
      /\ pc = "idle"
  BY DEF PutWriteOut, call
<1> HIDE DEF level0
<1>3. levels \in [0 .. numLevels - 1 -> GoodLevels] /\ numLevels \in Nat \ {0}
  BY DEF IInv, TypeInv
<1>4. /\ levels' \in [0 .. numLevels - 1 -> GoodLevels]
      /\ levels'[0] = level0
      /\ \A i \in 1 .. numLevels - 1 : levels'[i] = levels[i]
      /\ \A i \in 0 .. numLevels - 1 : levels'[i].maxSize = levels[i].maxSize
  BY <1>1, <1>2, <1>3
<1>5. Len(levels'[0].recordHashes) <= 1
  <2>1. /\ BlockSize * Len(level0.recordHashes) < 2 * BlockSize
        /\ Len(level0.recordHashes) \in Nat
    <3>1. 0 \in 0 .. numLevels - 1
      BY <1>3
    <3>2. Len(levels[0].recordHashes) \in Nat
      BY <3>1, SizeFacts
    <3> QED
      BY <1>1, <1>2, <3>2 DEF L0HasRoom, IInv, SizeInv
  <2>2. ~ (2 <= Len(level0.recordHashes))
    <3> SUFFICES ASSUME 2 <= Len(level0.recordHashes)
                 PROVE  FALSE
      OBVIOUS
    <3>1. BlockSize * 2 <= BlockSize * Len(level0.recordHashes)
      BY <2>1, BlockSizeAssumption, MulMono
    <3>2. BlockSize * Len(level0.recordHashes) \in Nat
      BY <2>1, BlockSizeAssumption, MulMono
    <3> QED
      BY <2>1, <3>1, <3>2, BlockSizeAssumption
  <2> QED
    BY <1>4, <2>1, <2>2
<1>6. TypeInv'
  <2>1. StartOver(key, version)
    BY DEF PutWriteOut
  <2> QED
    BY <1>2, <1>4, <2>1, StartOverType DEF IInv, TypeInv
<1>7. SizeInv'
  BY <1>1, <1>2, <1>3, <1>4, <1>5 DEF IInv, SizeInv, LevelBound
<1>8. CallInv'
  <2>1. frames' = << >> /\ pc' = "idle"
    BY <1>2 DEF IInv, CallInv
  <2>2. Len(frames') = 0 /\ 1 .. 0 = {}
    BY <2>1
  <2> QED
    BY <2>1, <2>2 DEF CallInv
<1> QED
  BY <1>6, <1>7, <1>8 DEF IInv

\* A put that finds level 0 full and starts to compact.
LEMMA PutCompactStep ==
  ASSUME IInv, NEW key \in Keys, NEW version \in Version, PutCompact(key, version)
  PROVE  IInv'
<1> DEFINE level0 == addBlock(levels[0], MemtableBlock(memtable))
           first == level0.recordHashes[1]
           frame == [sourceVec |-> <<first>>, remainingBlocks |-> << >>]
<1>0. 0 \in 0 .. numLevels - 1
  BY DEF IInv, TypeInv
<1>1. /\ level0 \in GoodLevels
      /\ level0.maxSize = levels[0].maxSize
      /\ Len(level0.recordHashes) = Len(levels[0].recordHashes) + 1
      /\ level0.numBlocks = Len(level0.recordHashes)
      /\ Len(levels[0].recordHashes) \in Nat
  BY <1>0, WriteOutFacts, SizeFacts DEF PutCompact
<1>2. /\ levels' = [levels EXCEPT ![0] = level0]
      /\ pc = "idle" /\ pc' = "compact"
      /\ payload' = [key |-> key, version |-> version]
      /\ l0Ind' = 1
      /\ frames' = <<frame>>
      /\ UNCHANGED <<memtable, locklst, numLevels>>
  BY DEF PutCompact
<1> HIDE DEF level0
<1>3. levels \in [0 .. numLevels - 1 -> GoodLevels] /\ numLevels \in Nat \ {0}
  BY DEF IInv, TypeInv
<1>4. /\ levels' \in [0 .. numLevels - 1 -> GoodLevels]
      /\ levels'[0] = level0
      /\ \A i \in 1 .. numLevels - 1 : levels'[i] = levels[i]
      /\ \A i \in 0 .. numLevels - 1 : levels'[i].maxSize = levels[i].maxSize
  BY <1>1, <1>2, <1>3
<1>5. first \in GoodBlocks
  <2>1. level0.recordHashes \in Seq(GoodBlocks) /\ 1 \in 1 .. Len(level0.recordHashes)
    BY <1>1 DEF GoodLevels
  <2> QED
    BY <2>1, ElementOfSeq
<1> HIDE DEF first
<1>6. /\ frame \in GoodFrames /\ Len(frame.sourceVec) = 1
  BY <1>5 DEF GoodFrames
<1> HIDE DEF frame
<1>7. frames' \in Seq(GoodFrames) /\ Len(frames') = 1 /\ frames'[1] = frame
  BY <1>2, <1>6
<1>11. Len(frames'[1].sourceVec) = 1
  BY <1>6, <1>7, Zenon
<1>8. TypeInv'
  BY <1>2, <1>4, <1>7 DEF IInv, TypeInv, Payload
<1>9. SizeInv'
  <2>1. Len(levels[0].recordHashes) <= 1
    BY <1>2 DEF IInv, SizeInv
  <2>2. Len(levels'[0].recordHashes) <= 2
    BY <1>1, <1>4, <2>1
  <2> QED
    BY <1>1, <1>2, <1>3, <1>4, <2>2 DEF IInv, SizeInv, LevelBound
<1>10. CallInv'
  <2>1. \A f \in 1 .. Len(frames') : f = 1
    BY <1>7
  <2>2. BlockSize * Len(frames'[1].sourceVec) <= levels'[0].maxSize
    BY <1>0, <1>4, <1>11, BlockSizeAssumption DEF IInv, SizeInv
  <2>3. \A f \in 1 .. Len(frames') : ~ Pending(f)'
    BY <1>2, <1>7, <2>1 DEF Pending
  <2>4. ASSUME NEW f \in 1 .. Len(frames')
        PROVE  /\ Len(frames'[f].sourceVec) >= 1
               /\ BlockSize * Len(frames'[f].sourceVec) <= levels'[f - 1].maxSize
    <3>1. f = 1
      BY <2>1
    <3>2. f - 1 = 0
      BY <3>1
    <3> QED
      <4>1. Len(frames'[1].sourceVec) >= 1
        BY <1>11
      <4> QED
        BY <2>2, <3>1, <3>2, <4>1, Zenon
  <2>5. Len(frames'[1].sourceVec) <= l0Ind' /\ l0Ind' <= 2
    <3>1. l0Ind' = 1
      BY <1>2
    <3> QED
      BY <1>11, <3>1
  <2> QED
    BY <1>2, <1>7, <2>3, <2>4, <2>5 DEF CallInv
<1> QED
  BY <1>8, <1>9, <1>10 DEF IInv

-----------------------------------------------------------------------------
(***************************************************************************)
(* The steps of compact and compactHelper.                                 *)
(***************************************************************************)

\* addLevel below the deepest level keeps the sizes in proportion.
LEMMA addLevelFacts ==
  ASSUME IInv, addLevel(levels[numLevels - 1].maxSize)
  PROVE  /\ numLevels' = numLevels + 1
         /\ numLevels' \in Nat \ {0}
         /\ levels' \in [0 .. numLevels' - 1 -> GoodLevels]
         /\ \A i \in 0 .. numLevels - 1 : levels'[i] = levels[i]
         /\ levels'[numLevels].maxSize = LevelRatio * levels[numLevels - 1].maxSize
         /\ BlockSize * Len(levels'[numLevels].recordHashes) < levels'[numLevels].maxSize
<1> DEFINE size == levels[numLevels - 1].maxSize
           new == NewLevel(LevelRatio * size)
<1>1. numLevels \in Nat \ {0} /\ levels \in [0 .. numLevels - 1 -> GoodLevels]
  BY DEF IInv, TypeInv
<1>2. size \in Nat \ {0}
  BY <1>1, SizeFacts
<1>3. LevelRatio * size \in Nat /\ LevelRatio * size > 0
  <2> HIDE DEF size
  <2>1. 2 * size <= LevelRatio * size
    <3>1. size * 2 <= size * LevelRatio
      BY <1>2, LevelRatioAssumption, MulMono
    <3> QED
      BY <1>2, <3>1, LevelRatioAssumption
  <2>2. LevelRatio * size \in Nat
    BY <1>2, LevelRatioAssumption, MulMono
  <2> QED
    BY <1>2, <2>1, <2>2
<1>4. /\ numLevels' = numLevels + 1
      /\ levels' = [i \in 0 .. numLevels |->
                      IF i = numLevels THEN new ELSE levels[i]]
  BY DEF addLevel
<1>5. new \in GoodLevels /\ new.maxSize = LevelRatio * size /\ new.recordHashes = << >>
  <2> HIDE DEF size
  <2>1. new \in GoodLevels
    BY <1>3, NewLevelType
  <2> QED
    BY <2>1 DEF NewLevel
<1> HIDE DEF new, size
<1>6. numLevels' - 1 = numLevels
  BY <1>1, <1>4
<1>7. levels' \in [0 .. numLevels -> GoodLevels]
  BY <1>1, <1>4, <1>5
<1>8. /\ \A i \in 0 .. numLevels - 1 : levels'[i] = levels[i]
      /\ levels'[numLevels] = new
  BY <1>1, <1>4
<1>9. BlockSize * Len(new.recordHashes) = 0
  <2>1. Len(new.recordHashes) = 0
    BY <1>5
  <2> QED
    BY <2>1, BlockSizeAssumption
<1>10. /\ levels'[numLevels].maxSize = LevelRatio * size
       /\ BlockSize * Len(levels'[numLevels].recordHashes) = 0
  <2>1. levels'[numLevels] = new
    BY <1>8
  <2> QED
    BY <1>5, <1>9, <2>1
<1> QED
  BY <1>1, <1>3, <1>4, <1>6, <1>7, <1>8, <1>10 DEF size

\* compact merges the next block of level 0 into the source blocks.
LEMMA CompactMergeL0Step ==
  ASSUME IInv, CompactMergeL0
  PROVE  IInv'
<1> DEFINE source == frames[1].sourceVec
           next == levels[0].recordHashes[l0Ind + 1]
           merged == merge(source, <<next>>)
<1>1. /\ pc = "compact" /\ l0Ind < Len(levels[0].recordHashes)
      /\ frames' = [frames EXCEPT ![1].sourceVec = merged]
      /\ l0Ind' = l0Ind + 1
      /\ UNCHANGED <<memtable, locklst, numLevels, levels, pc, payload>>
  BY DEF CompactMergeL0, index
<1>2. /\ Len(frames) = 1 /\ Len(source) >= 1 /\ Len(source) <= l0Ind
      /\ l0Ind \in Nat /\ frames \in Seq(GoodFrames) /\ 1 \in 1 .. Len(frames)
  <2>1. pc = "compact"
    BY <1>1
  <2>2. /\ Len(frames) = 1 /\ Len(source) <= l0Ind
        /\ \A f \in 1 .. Len(frames) : Len(frames[f].sourceVec) >= 1
    BY <2>1 DEF IInv, CallInv
  <2>3. 1 \in 1 .. Len(frames)
    BY <2>2
  <2> QED
    BY <2>2, <2>3 DEF IInv, TypeInv
<1>3. /\ source \in Seq(GoodBlocks) /\ Len(source) \in Nat
      /\ frames[1].remainingBlocks \in Seq(GoodBlocks)
  BY <1>2, FrameFacts
<1>4. 0 \in 0 .. numLevels - 1
  BY DEF IInv, TypeInv
<1>5. next \in GoodBlocks
  <2>1. /\ levels[0].recordHashes \in Seq(GoodBlocks)
        /\ Len(levels[0].recordHashes) \in Nat
    BY <1>4, SizeFacts
  <2>2. l0Ind + 1 \in 1 .. Len(levels[0].recordHashes)
    BY <1>1, <1>2, <2>1
  <2> QED
    BY <2>1, <2>2, ElementOfSeq
<1> HIDE DEF next, source
<1>6. /\ merged \in Seq(GoodBlocks) /\ Len(merged) \in Nat
      /\ Len(merged) <= l0Ind + 1 /\ Len(merged) >= 1
  <2>1. <<next>> \in Seq(GoodBlocks) /\ Len(<<next>>) = 1
    BY <1>5
  <2>2. /\ merged \in Seq(GoodBlocks) /\ Len(merged) \in Nat
        /\ Len(merged) <= Len(source) + Len(<<next>>)
        /\ Len(source) >= 1 => Len(merged) >= 1
    BY <1>3, <2>1, MergeType
  <2> HIDE DEF merged
  <2> QED
    BY <1>2, <1>3, <2>1, <2>2
<1> HIDE DEF merged
<1>7. l0Ind + 1 <= 2
  <2>1. Len(levels[0].recordHashes) <= 2 /\ Len(levels[0].recordHashes) \in Nat
    BY <1>1, <1>4, SizeFacts DEF IInv, SizeInv
  <2> QED
    BY <1>1, <1>2, <2>1
<1>8. frames'[1].sourceVec = merged /\ Len(frames') = 1 /\ frames' \in Seq(GoodFrames)
  <2> DEFINE frame == [frames[1] EXCEPT !.sourceVec = merged]
  <2>1. frames[1] \in GoodFrames
    BY <1>2, FrameFacts
  <2>2. frame \in GoodFrames /\ frame.sourceVec = merged
    BY <1>6, <2>1 DEF GoodFrames
  <2>3. frames' = [frames EXCEPT ![1] = frame]
    BY <1>1
  <2> HIDE DEF frame
  <2>4. frames' \in Seq(GoodFrames) /\ Len(frames') = Len(frames) /\ frames'[1] = frame
    <3>1. frames \in Seq(GoodFrames) /\ 1 \in 1 .. Len(frames) /\ frame \in GoodFrames
      BY <1>2, <2>2
    <3> QED
      BY <2>3, <3>1, ExceptSeq
  <2> QED
    BY <1>2, <2>2, <2>4, Zenon
<1>9. TypeInv'
  BY <1>1, <1>2, <1>8 DEF IInv, TypeInv
<1>10. SizeInv'
  BY <1>1 DEF IInv, SizeInv, LevelBound
<1>11. CallInv'
  <2>1. \A f \in 1 .. Len(frames') : f = 1 /\ f - 1 = 0
    BY <1>8
  <2>2. BlockSize * Len(merged) <= levels'[0].maxSize /\ Len(merged) >= 1
    <3>1. BlockSize * Len(merged) <= BlockSize * 2
      BY <1>2, <1>6, <1>7, BlockSizeAssumption, MulMono
    <3> QED
      BY <1>1, <1>6, <3>1, BlockSizeAssumption DEF IInv, SizeInv
  <2>3. \A f \in 1 .. Len(frames') : ~ Pending(f)'
    BY <1>1, <1>8, <2>1 DEF Pending
  <2>4. \A f \in 1 .. Len(frames') :
          /\ Len(frames'[f].sourceVec) >= 1
          /\ BlockSize * Len(frames'[f].sourceVec) <= levels'[f - 1].maxSize
    BY <1>8, <2>1, <2>2, Zenon
  <2>5. Len(frames'[1].sourceVec) <= l0Ind' /\ l0Ind' <= 2
    BY <1>1, <1>6, <1>7, <1>8
  <2> QED
    BY <1>1, <1>8, <2>3, <2>4, <2>5 DEF CallInv
<1> QED
  BY <1>9, <1>10, <1>11 DEF IInv

\* compact calls compactHelper for level 1, which it creates if need be.
LEMMA CompactCallStep ==
  ASSUME IInv, CompactCall
  PROVE  IInv'
<1>1. /\ pc = "compact" /\ pc' = "compactHelper" /\ l0Ind' = 0
      /\ UNCHANGED <<memtable, locklst, payload, frames>>
  BY DEF CompactCall
<1>2. numLevels \in Nat \ {0} /\ levels \in [0 .. numLevels - 1 -> GoodLevels]
  BY DEF IInv, TypeInv
<1>3. Len(frames) = 1
  BY <1>1 DEF IInv, CallInv
<1>4. ASSUME NEW n \in Nat, n >= 2, numLevels' = n,
             levels' \in [0 .. n - 1 -> GoodLevels],
             \A i \in 0 .. numLevels - 1 : levels'[i] = levels[i],
             SizeInv'
      PROVE  IInv'
  <2>1. TypeInv'
    BY <1>1, <1>4 DEF IInv, TypeInv
  <2>2. CallInv'
    <3>1. \A f \in 1 .. Len(frames) : f = 1 /\ f - 1 = 0 /\ f - 1 \in 0 .. numLevels - 1
      BY <1>2, <1>3
    <3>2. \A f \in 1 .. Len(frames') : levels'[f - 1] = levels[f - 1]
      BY <1>1, <1>4, <3>1
    <3>3. \A f \in 1 .. Len(frames') : ~ Pending(f)'
      BY <1>1, <1>3, <3>1 DEF Pending
    <3>4. Len(frames') \in 1 .. numLevels' - 1
      BY <1>1, <1>3, <1>4
    <3>5. \A f \in 1 .. Len(frames') :
            /\ Len(frames'[f].sourceVec) >= 1
            /\ BlockSize * Len(frames'[f].sourceVec) <= levels'[f - 1].maxSize
      BY <1>1, <3>2 DEF IInv, CallInv
    <3> QED
      BY <1>1, <3>3, <3>4, <3>5 DEF CallInv
  <2> QED
    BY <1>4, <2>1, <2>2 DEF IInv
<1>5. CASE numLevels = 1
  <2>1. addLevel(levels[numLevels - 1].maxSize)
    BY <1>5 DEF CompactCall
  <2>2. /\ numLevels' = 2
        /\ levels' \in [0 .. 2 - 1 -> GoodLevels]
        /\ \A i \in 0 .. numLevels - 1 : levels'[i] = levels[i]
        /\ levels'[1].maxSize = LevelRatio * levels[0].maxSize
        /\ BlockSize * Len(levels'[1].recordHashes) < levels'[1].maxSize
    BY <1>5, <2>1, addLevelFacts
  <2>3. levels'[0] = levels[0]
    BY <1>5, <2>2
  <2>4. \A i \in 1 .. numLevels' - 1 : i = 1 /\ i - 1 = 0
    BY <2>2
  <2>5. SizeInv'
    <3>1. \A i \in 1 .. numLevels' - 1 :
            /\ levels'[i].maxSize = LevelRatio * levels'[i - 1].maxSize
            /\ BlockSize * Len(levels'[i].recordHashes) < levels'[i].maxSize
      BY <2>2, <2>3, <2>4, Zenon
    <3> QED
      BY <1>1, <2>3, <3>1 DEF IInv, SizeInv, LevelBound
  <2> QED
    BY <1>4, <2>2, <2>5
<1>6. CASE numLevels # 1
  <2>1. UNCHANGED <<numLevels, levels>>
    BY <1>6 DEF CompactCall, index
  <2>2. SizeInv'
    BY <1>1, <2>1 DEF IInv, SizeInv, LevelBound
  <2> QED
    BY <1>2, <1>4, <1>6, <2>1, <2>2
<1> QED
  BY <1>5, <1>6

\* compactHelper merges its source blocks into blocks they fit in with.
LEMMA HelperMergeStep ==
  ASSUME IInv, pc \in {"compactHelper", "return"}, Depth \in 1 .. numLevels - 1,
         NEW kept \in Seq(GoodBlocks), HelperMerge(kept),
         BlockSize * (Len(Source) + Len(kept)) < levels[Depth].maxSize
  PROVE  IInv'
<1> DEFINE d == Len(frames)
           merged == merge(Source, kept)
           level == WithBlocks(levels[d], merged)
<1>1. /\ levels' = [levels EXCEPT ![d] = level]
      /\ pc' = "return"
      /\ frames' = SubSeq(frames, 1, d - 1)
      /\ UNCHANGED <<memtable, locklst, numLevels, payload, l0Ind>>
  BY DEF HelperMerge, Depth
<1>2. d \in 1 .. numLevels - 1 /\ d \in Nat /\ 1 <= d
  BY DEF Depth, IInv, TypeInv
<1>3. numLevels \in Nat \ {0} /\ levels \in [0 .. numLevels - 1 -> GoodLevels]
  BY DEF IInv, TypeInv
<1>4. Source \in Seq(GoodBlocks) /\ Len(Source) \in Nat /\ Len(kept) \in Nat
  <2>1. d \in 1 .. Len(frames)
    BY <1>2
  <2> QED
    BY <2>1, FrameFacts, LenProperties DEF Source, Depth
<1>5. d \in 0 .. numLevels - 1 /\ d # 0
  BY <1>2, <1>3
<1>6. merged \in Seq(GoodBlocks) /\ Len(merged) \in Nat
      /\ Len(merged) <= Len(Source) + Len(kept)
  BY <1>4, MergeType
<1>7. BlockSize * Len(merged) < levels[d].maxSize
  <2>1. Len(Source) + Len(kept) \in Nat
    BY <1>4
  <2>2. /\ BlockSize * Len(merged) <= BlockSize * (Len(Source) + Len(kept))
        /\ BlockSize * Len(merged) \in Nat
        /\ BlockSize * (Len(Source) + Len(kept)) \in Nat
    BY <1>6, <2>1, BlockSizeAssumption, MulMono
  <2>3. levels[d].maxSize \in Nat
    BY <1>5, SizeFacts
  <2> HIDE DEF d, merged
  <2>4. BlockSize * (Len(Source) + Len(kept)) < levels[d].maxSize
    BY DEF d, Depth
  <2> QED
    BY <2>2, <2>3, <2>4
<1> HIDE DEF merged
<1>8. /\ level \in GoodLevels /\ level.recordHashes = merged
      /\ level.maxSize = levels[d].maxSize
  <2>1. levels[d] \in GoodLevels
    BY <1>3, <1>5
  <2> QED
    BY <1>6, <2>1, WithBlocksType
<1> HIDE DEF level
<1>9. /\ levels' \in [0 .. numLevels - 1 -> GoodLevels]
      /\ levels'[d] = level
      /\ \A i \in 0 .. numLevels - 1 : i # d => levels'[i] = levels[i]
      /\ levels'[0] = levels[0]
  BY <1>1, <1>3, <1>5, <1>8
<1>10. \A i \in 0 .. numLevels - 1 : levels'[i].maxSize = levels[i].maxSize
  BY <1>8, <1>9
<1>11. /\ frames' \in Seq(GoodFrames) /\ Len(frames') = d - 1
       /\ \A f \in 1 .. Len(frames') : frames'[f] = frames[f]
  <2>1. frames \in Seq(GoodFrames) /\ d - 1 \in 0 .. Len(frames)
    BY <1>2 DEF IInv, TypeInv
  <2> HIDE DEF d
  <2>2. /\ SubSeq(frames, 1, d - 1) \in Seq(GoodFrames)
        /\ Len(SubSeq(frames, 1, d - 1)) = d - 1
        /\ \A f \in 1 .. d - 1 : SubSeq(frames, 1, d - 1)[f] = frames[f]
    BY <2>1, PrefixType
  <2> QED
    BY <1>1, <2>2, Zenon
<1>12. TypeInv'
  <2>1. payload \in Payload /\ pc' # "idle"
    BY <1>1 DEF IInv, TypeInv
  <2> QED
    BY <1>1, <1>9, <1>11, <2>1 DEF IInv, TypeInv
<1>13. SizeInv'
  <2>1. \A i \in 1 .. numLevels - 1 : i - 1 \in 0 .. numLevels - 1 /\ i \in 0 .. numLevels - 1
    BY <1>3
  <2>2. \A i \in 1 .. numLevels - 1 : levels'[i].maxSize = LevelRatio * levels'[i - 1].maxSize
    BY <1>10, <2>1 DEF IInv, SizeInv
  <2>3. ASSUME NEW i \in 1 .. numLevels - 1
        PROVE  BlockSize * Len(levels'[i].recordHashes) < levels'[i].maxSize
    <3>1. CASE i = d
      BY <1>7, <1>8, <1>9, <3>1, Zenon
    <3>2. CASE i # d
      <4>1. levels'[i] = levels[i]
        BY <1>9, <2>1, <3>2
      <4> QED
        BY <4>1 DEF IInv, SizeInv, LevelBound
    <3> QED
      BY <3>1, <3>2
  <2>4. pc # "idle" /\ pc' # "idle"
    BY <1>1
  <2> QED
    BY <1>1, <1>9, <2>2, <2>3, <2>4 DEF IInv, SizeInv, LevelBound
<1>14. CallInv'
  <2>1. Len(frames') \in 0 .. numLevels' - 1
    BY <1>1, <1>2, <1>3, <1>11
  <2>2. ASSUME NEW f \in 1 .. Len(frames')
        PROVE  /\ Len(frames'[f].sourceVec) >= 1
               /\ BlockSize * Len(frames'[f].sourceVec) <= levels'[f - 1].maxSize
               /\ BlockSize * (Len(frames'[f].sourceVec) + Len(frames'[f].remainingBlocks))
                    < levels'[f].maxSize
    <3>1. f \in 1 .. Len(frames) /\ f < Len(frames) /\ f # d
      BY <1>2, <1>11
    <3>2. f \in 0 .. numLevels - 1 /\ f - 1 \in 0 .. numLevels - 1
      BY <1>2, <1>3, <1>11
    <3>3. /\ frames'[f] = frames[f]
          /\ levels'[f].maxSize = levels[f].maxSize
          /\ levels'[f - 1].maxSize = levels[f - 1].maxSize
      BY <1>10, <1>11, <3>2
    <3>4. /\ Len(frames[f].sourceVec) >= 1
          /\ BlockSize * Len(frames[f].sourceVec) <= levels[f - 1].maxSize
          /\ BlockSize * (Len(frames[f].sourceVec) + Len(frames[f].remainingBlocks))
               < levels[f].maxSize
      BY <3>1 DEF IInv, CallInv, Pending
    <3> QED
      BY <3>3, <3>4, Zenon
  <2> QED
    BY <1>1, <2>1, <2>2 DEF CallInv
<1> QED
  BY <1>12, <1>13, <1>14 DEF IInv

\* compactHelper on a level with room.
LEMMA HelperFitsStep ==
  ASSUME IInv, HelperFits
  PROVE  IInv'
<1>1. pc = "compactHelper" /\ ~Overflow /\ HelperMerge(Dest)
  BY DEF HelperFits
<1>2. Depth \in 1 .. numLevels - 1
  BY <1>1 DEF IInv, CallInv, Depth
<1>3. Depth \in 0 .. numLevels - 1 /\ Depth \in 1 .. Len(frames)
  BY <1>2 DEF IInv, TypeInv, Depth
<1>4. /\ Dest \in Seq(GoodBlocks) /\ Len(Dest) \in Nat
      /\ BlockSize * Len(Dest) \in Nat /\ levels[Depth].maxSize \in Nat
  BY <1>3, SizeFacts DEF Dest
<1>5. Len(Source) \in Nat
  BY <1>3, FrameFacts DEF Source
<1>6. BlockSize * (Len(Source) + Len(Dest)) = BlockSize * Len(Source) + BlockSize * Len(Dest)
  BY <1>4, <1>5, BlockSizeAssumption
<1>7. BlockSize * Len(Source) \in Nat
  BY <1>5, BlockSizeAssumption, MulMono
<1>8. BlockSize * (Len(Source) + Len(Dest)) < levels[Depth].maxSize
  BY <1>1, <1>4, <1>6, <1>7 DEF Overflow
<1> QED
  BY <1>1, <1>2, <1>4, <1>8, HelperMergeStep

\* compactHelper after its recursive call.
LEMMA HelperReturnStep ==
  ASSUME IInv, HelperReturn
  PROVE  IInv'
<1>1. /\ pc = "return" /\ frames # << >>
      /\ HelperMerge(frames[Depth].remainingBlocks)
  BY DEF HelperReturn
<1>2. Depth \in 1 .. numLevels - 1 /\ Depth \in 1 .. Len(frames)
  <2>1. Len(frames) \in 0 .. numLevels - 1
    BY <1>1 DEF IInv, CallInv
  <2>2. Len(frames) \in Nat \ {0}
    BY <1>1, EmptySeq DEF IInv, TypeInv
  <2> QED
    BY <2>1, <2>2 DEF Depth, IInv, TypeInv
<1>3. frames[Depth].remainingBlocks \in Seq(GoodBlocks)
  BY <1>2, FrameFacts
<1>4. BlockSize * (Len(Source) + Len(frames[Depth].remainingBlocks)) < levels[Depth].maxSize
  BY <1>1, <1>2 DEF IInv, CallInv, Pending, Source
<1> QED
  BY <1>1, <1>2, <1>3, <1>4, HelperMergeStep

\* compact empties level 0, and the put comes to its end.
LEMMA CompactReturnStep ==
  ASSUME IInv, CompactReturn
  PROVE  IInv'
<1> DEFINE level == WithBlocks(levels[0], << >>)
<1>1. /\ pc = "return" /\ frames = << >>
      /\ levels' = [levels EXCEPT ![0] = level]
      /\ StartOver(payload.key, payload.version)
      /\ pc' = "idle" /\ payload' = NoPayload
      /\ UNCHANGED <<numLevels, l0Ind, frames>>
  BY DEF CompactReturn
<1>2. numLevels \in Nat \ {0} /\ levels \in [0 .. numLevels - 1 -> GoodLevels]
      /\ 0 \in 0 .. numLevels - 1
  BY DEF IInv, TypeInv
<1>3. /\ level \in GoodLevels /\ level.recordHashes = << >> /\ level.numBlocks = 0
      /\ level.maxSize = levels[0].maxSize
  <2>1. << >> \in Seq(GoodBlocks) /\ Len(<< >>) = 0
    BY EmptySeq
  <2>2. levels[0] \in GoodLevels
    BY <1>2
  <2>3. /\ level \in GoodLevels /\ level.recordHashes = << >>
        /\ level.numBlocks = Len(<< >>) /\ level.maxSize = levels[0].maxSize
    BY <2>1, <2>2, WithBlocksType
  <2> HIDE DEF level
  <2> QED
    BY <2>1, <2>3
<1> HIDE DEF level
<1>4. /\ levels' \in [0 .. numLevels - 1 -> GoodLevels]
      /\ levels'[0] = level
      /\ \A i \in 1 .. numLevels - 1 : levels'[i] = levels[i]
      /\ \A i \in 0 .. numLevels - 1 : levels'[i].maxSize = levels[i].maxSize
  BY <1>1, <1>2, <1>3
<1>5. Len(levels'[0].recordHashes) = 0 /\ levels'[0].numBlocks = 0
  <2>1. Len(<< >>) = 0
    OBVIOUS
  <2> QED
    BY <1>3, <1>4, <2>1, Zenon
<1>6. TypeInv'
  <2>1. payload.key \in Keys /\ payload.version \in Version
    BY <1>1 DEF IInv, TypeInv, Payload
  <2>2. /\ memtable' \in PairMap(Keys)
        /\ Cardinality(DOMAIN memtable') <= BlockSize
        /\ locklst' = DOMAIN memtable'
    BY <1>1, <2>1, StartOverType
  <2> QED
    BY <1>1, <1>4, <2>2 DEF IInv, TypeInv
<1>7. SizeInv'
  <2>1. \A i \in 1 .. numLevels - 1 : i - 1 \in 0 .. numLevels - 1 /\ i \in 0 .. numLevels - 1
    BY <1>2
  <2>2. \A i \in 1 .. numLevels - 1 : levels'[i].maxSize = LevelRatio * levels'[i - 1].maxSize
    BY <1>4, <2>1 DEF IInv, SizeInv
  <2>3. \A i \in 1 .. numLevels - 1 :
          BlockSize * Len(levels'[i].recordHashes) < levels'[i].maxSize
    BY <1>4 DEF IInv, SizeInv, LevelBound
  <2>4. levels'[0].maxSize = 2 * BlockSize
    BY <1>2, <1>4 DEF IInv, SizeInv
  <2> QED
    BY <1>1, <1>5, <2>2, <2>3, <2>4 DEF SizeInv, LevelBound
<1>8. CallInv'
  <2>1. frames' = << >> /\ pc' = "idle"
    BY <1>1
  <2>2. Len(frames') = 0 /\ 1 .. 0 = {}
    BY <2>1
  <2> QED
    BY <2>1, <2>2 DEF CallInv
<1> QED
  BY <1>6, <1>7, <1>8 DEF IInv

\* A level that overflows holds at least as many blocks as arrive: it is
\* LevelRatio times larger than the level they come from.
LEMMA OverflowFacts ==
  ASSUME IInv, pc = "compactHelper"
  PROVE  /\ Depth \in 1 .. numLevels - 1
         /\ Source \in Seq(GoodBlocks) /\ Len(Source) \in Nat /\ Len(Source) >= 1
         /\ Dest \in Seq(GoodBlocks) /\ Len(Dest) \in Nat
         /\ Overflow => Len(Source) <= Len(Dest)
<1> DEFINE above == levels[Depth - 1].maxSize
           ls == Len(Source)
           ld == Len(Dest)
<1>1. Depth \in 1 .. numLevels - 1
  BY DEF IInv, CallInv, Depth
<1>2. /\ Depth \in 0 .. numLevels - 1 /\ Depth - 1 \in 0 .. numLevels - 1
      /\ Depth \in 1 .. Len(frames)
  BY <1>1 DEF IInv, TypeInv, Depth
<1>3. Dest \in Seq(GoodBlocks) /\ ld \in Nat
  BY <1>2, SizeFacts DEF Dest
<1>4. Source \in Seq(GoodBlocks) /\ ls \in Nat
  BY <1>2, FrameFacts DEF Source
<1>5. ls >= 1 /\ BlockSize * ls <= above
  BY <1>2 DEF IInv, CallInv, Source
<1>6. levels[Depth].maxSize = LevelRatio * above /\ above \in Nat
  <2>1. levels[Depth].maxSize = LevelRatio * above
    BY <1>1 DEF IInv, SizeInv
  <2>2. above \in Nat
    BY <1>2, SizeFacts
  <2> QED
    BY <2>1, <2>2
<1>7. ASSUME Overflow
      PROVE  ls <= ld
  <2>1. BlockSize * ls + BlockSize * ld >= LevelRatio * above
    BY <1>6, <1>7 DEF Overflow
  <2>2. BlockSize * ls \in Nat /\ BlockSize * ld \in Nat
    BY <1>3, <1>4, BlockSizeAssumption, MulMono
  <2> HIDE DEF above, ls, ld
  <2>3. LevelRatio * above >= above + above
    <3>1. above * 2 <= above * LevelRatio
      BY <1>6, LevelRatioAssumption, MulMono
    <3> QED
      BY <1>6, <3>1, LevelRatioAssumption
  <2>4. LevelRatio * above \in Nat
    BY <1>6, LevelRatioAssumption, MulMono
  <2>5. BlockSize * ls <= BlockSize * ld
    BY <1>5, <1>6, <2>1, <2>2, <2>3, <2>4
  <2> SUFFICES ASSUME ld + 1 <= ls
               PROVE  FALSE
    BY <1>3, <1>4 DEF ls, ld
  <2>6. ld + 1 \in Nat /\ ld \in Nat /\ ls \in Nat
    BY <1>3, <1>4
  <2>7. BlockSize * (ld + 1) <= BlockSize * ls
    BY <2>6, BlockSizeAssumption, MulMono
  <2>8. BlockSize * (ld + 1) = BlockSize * ld + BlockSize
    BY <2>6, BlockSizeAssumption
  <2> QED
    BY <2>2, <2>5, <2>7, <2>8, BlockSizeAssumption
<1> QED
  BY <1>1, <1>3, <1>4, <1>5, <1>7

\* compactHelper on a level that would overflow: what it evicts fits below,
\* and what it sets aside leaves room for what arrives.
LEMMA HelperEvictStep ==
  ASSUME IInv, HelperEvict
  PROVE  IInv'
<1> DEFINE d == Len(frames)
           n == EvictCount(Source, Dest)
           rest == SubSeq(Dest, n + 1, Len(Dest))
           evicted == SubSeq(Dest, 1, n)
           split == [frames EXCEPT ![d].remainingBlocks = rest]
           below == [sourceVec |-> evicted, remainingBlocks |-> << >>]
<1>1. /\ pc = "compactHelper" /\ Overflow
      /\ frames' = Append(split, below)
      /\ UNCHANGED <<memtable, locklst, pc, payload, l0Ind>>
      /\ IF d + 1 >= numLevels THEN addLevel(levels[d].maxSize)
                               ELSE UNCHANGED <<numLevels, levels>>
  BY DEF HelperEvict, Depth, index
<1>2. /\ d \in 1 .. numLevels - 1 /\ d \in Nat
      /\ Source \in Seq(GoodBlocks) /\ Len(Source) \in Nat /\ Len(Source) >= 1
      /\ Dest \in Seq(GoodBlocks) /\ Len(Dest) \in Nat
      /\ Len(Source) <= Len(Dest)
      /\ Dest = levels[d].recordHashes /\ Source = frames[d].sourceVec
  BY <1>1, OverflowFacts, FrameFacts DEF Depth, Dest, Source
<1>3. n \in Nat /\ n >= Len(Source) /\ n <= Len(Dest)
  BY <1>2, EvictCountBounds
<1>4. /\ numLevels \in Nat \ {0} /\ levels \in [0 .. numLevels - 1 -> GoodLevels]
      /\ frames \in Seq(GoodFrames) /\ d \in 1 .. Len(frames)
      /\ d \in 0 .. numLevels - 1
  BY <1>2 DEF IInv, TypeInv
<1> HIDE DEF n
<1>5. n \in 0 .. Len(Dest)
  BY <1>2, <1>3
<1>6. /\ rest \in Seq(GoodBlocks) /\ Len(rest) = Len(Dest) - n
      /\ evicted \in Seq(GoodBlocks) /\ Len(evicted) = n
  BY <1>2, <1>5, PrefixType, SuffixType
<1> HIDE DEF rest, evicted
<1>7. /\ split \in Seq(GoodFrames) /\ Len(split) = d
      /\ split[d].sourceVec = Source /\ split[d].remainingBlocks = rest
      /\ \A f \in 1 .. d : f # d => split[f] = frames[f]
  <2> DEFINE frame == [frames[d] EXCEPT !.remainingBlocks = rest]
  <2>1. frames[d] \in GoodFrames
    BY <1>4, FrameFacts
  <2>2. /\ frame \in GoodFrames
        /\ frame.sourceVec = Source /\ frame.remainingBlocks = rest
    BY <1>2, <1>6, <2>1 DEF GoodFrames
  <2>3. split = [frames EXCEPT ![d] = frame]
    OBVIOUS
  <2> HIDE DEF frame, split
  <2>4. /\ split \in Seq(GoodFrames) /\ Len(split) = d
        /\ \A f \in 1 .. d : split[f] = IF f = d THEN frame ELSE frames[f]
    BY <1>4, <2>2, <2>3, ExceptSeq
  <2>5. split[d] = frame
    BY <1>4, <2>4
  <2> QED
    BY <2>2, <2>4, <2>5
<1>8. below \in GoodFrames /\ below.sourceVec = evicted
  BY <1>6, EmptySeq DEF GoodFrames
<1> HIDE DEF split, below
<1>9. /\ frames' \in Seq(GoodFrames) /\ Len(frames') = d + 1
      /\ frames'[d + 1] = below
      /\ \A f \in 1 .. d : frames'[f] = split[f]
  BY <1>1, <1>7, <1>8, AppendProperties
<1>10. /\ numLevels' \in Nat \ {0} /\ numLevels' >= numLevels /\ d + 1 \in 1 .. numLevels' - 1
       /\ levels' \in [0 .. numLevels' - 1 -> GoodLevels]
       /\ \A i \in 0 .. numLevels - 1 : levels'[i] = levels[i]
       /\ SizeInv'
  <2>1. CASE d + 1 >= numLevels
    <3>1. numLevels - 1 = d
      BY <1>2, <1>4, <2>1
    <3>2. addLevel(levels[numLevels - 1].maxSize)
      BY <1>1, <2>1, <3>1
    <3>3. /\ numLevels' = numLevels + 1
          /\ numLevels' \in Nat \ {0}
          /\ levels' \in [0 .. numLevels' - 1 -> GoodLevels]
          /\ \A i \in 0 .. numLevels - 1 : levels'[i] = levels[i]
          /\ levels'[numLevels].maxSize = LevelRatio * levels[numLevels - 1].maxSize
          /\ BlockSize * Len(levels'[numLevels].recordHashes) < levels'[numLevels].maxSize
      BY <3>2, addLevelFacts
    <3>4. ASSUME NEW i \in 1 .. numLevels' - 1
          PROVE  /\ levels'[i].maxSize = LevelRatio * levels'[i - 1].maxSize
                 /\ BlockSize * Len(levels'[i].recordHashes) < levels'[i].maxSize
      <4>1. CASE i = numLevels
        <5>1. levels'[i - 1] = levels[numLevels - 1]
          BY <1>4, <3>3, <4>1
        <5> QED
          BY <3>3, <4>1, <5>1, Zenon
      <4>2. CASE i # numLevels
        <5>1. i \in 1 .. numLevels - 1 /\ i \in 0 .. numLevels - 1 /\ i - 1 \in 0 .. numLevels - 1
          BY <1>4, <3>3, <4>2
        <5>2. levels'[i] = levels[i] /\ levels'[i - 1] = levels[i - 1]
          BY <3>3, <5>1
        <5>3. /\ levels[i].maxSize = LevelRatio * levels[i - 1].maxSize
              /\ BlockSize * Len(levels[i].recordHashes) < levels[i].maxSize
          BY <5>1 DEF IInv, SizeInv, LevelBound
        <5> QED
          BY <5>2, <5>3, Zenon
      <4> QED
        BY <4>1, <4>2
    <3>5. levels'[0] = levels[0]
      BY <1>4, <3>3
    <3>6. SizeInv'
      BY <1>1, <3>4, <3>5 DEF IInv, SizeInv, LevelBound
    <3>7. d + 1 \in 1 .. numLevels' - 1 /\ numLevels' >= numLevels
      BY <1>2, <1>4, <3>1, <3>3
    <3> QED
      BY <3>3, <3>6, <3>7
  <2>2. CASE ~ (d + 1 >= numLevels)
    <3>1. UNCHANGED <<numLevels, levels>>
      BY <1>1, <2>2
    <3>2. SizeInv'
      BY <1>1, <3>1 DEF IInv, SizeInv, LevelBound
    <3> QED
      BY <1>2, <1>4, <2>2, <3>1, <3>2
  <2> QED
    BY <2>1, <2>2
<1>11. TypeInv'
  BY <1>1, <1>9, <1>10 DEF IInv, TypeInv
<1>12. CallInv'
  <2>1. ASSUME NEW f \in 1 .. Len(frames')
        PROVE  /\ Len(frames'[f].sourceVec) >= 1
               /\ BlockSize * Len(frames'[f].sourceVec) <= levels'[f - 1].maxSize
               /\ Pending(f)' =>
                    BlockSize * (Len(frames'[f].sourceVec) + Len(frames'[f].remainingBlocks))
                      < levels'[f].maxSize
    <3>1. CASE f = d + 1
      <4>1. Len(frames'[f].sourceVec) = n
        BY <1>6, <1>8, <1>9, <3>1, Zenon
      <4>2. levels'[f - 1] = levels[d]
        <5>1. f - 1 = d
          BY <1>2, <3>1
        <5> QED
          BY <1>4, <1>10, <5>1
      <4>3. BlockSize * n <= levels[d].maxSize
        <5>1. BlockSize * n <= BlockSize * Len(Dest) /\ BlockSize * n \in Nat
          BY <1>2, <1>3, BlockSizeAssumption, MulMono
        <5>2. BlockSize * Len(Dest) < levels[d].maxSize
          BY <1>2 DEF IInv, SizeInv, LevelBound
        <5>3. BlockSize * Len(Dest) \in Nat /\ levels[d].maxSize \in Nat
          BY <1>2, <1>4, SizeFacts
        <5> HIDE DEF d
        <5> QED
          BY <5>1, <5>2, <5>3
      <4>4. ~ Pending(f)'
        BY <1>1, <1>2, <1>9, <3>1 DEF Pending
      <4>5. n >= 1
        BY <1>2, <1>3
      <4>6. Len(frames'[f].sourceVec) >= 1
        BY <4>1, <4>5
      <4> QED
        BY <4>1, <4>2, <4>3, <4>4, <4>6, Zenon
    <3>2. CASE f = d
      <4>1. frames'[f].sourceVec = Source /\ frames'[f].remainingBlocks = rest
        <5>1. frames'[f] = split[d]
          BY <1>4, <1>9, <3>2
        <5> QED
          BY <1>7, <5>1, Zenon
      <4>2. levels'[f] = levels[d] /\ levels'[f - 1] = levels[d - 1]
        <5>1. d - 1 \in 0 .. numLevels - 1
          BY <1>2, <1>4
        <5> QED
          BY <1>4, <1>10, <3>2, <5>1
      <4>3. BlockSize * Len(Source) <= levels[d - 1].maxSize
        BY <1>2, <1>4 DEF IInv, CallInv
      <4>4. BlockSize * (Len(Source) + Len(rest)) < levels[d].maxSize
        <5>1. Len(Source) + Len(rest) <= Len(Dest) /\ Len(Source) + Len(rest) \in Nat
          <6> DEFINE ls == Len(Source)
                     ld == Len(Dest)
                     lr == Len(rest)
          <6>1. ls \in Nat /\ ld \in Nat /\ n \in Nat /\ n >= ls /\ n <= ld /\ lr = ld - n
            BY <1>2, <1>3, <1>6
          <6> HIDE DEF ls, ld, lr
          <6>2. ls + lr <= ld /\ ls + lr \in Nat
            BY <6>1
          <6> QED
            BY <6>2 DEF ls, ld, lr
        <5>2. /\ BlockSize * (Len(Source) + Len(rest)) <= BlockSize * Len(Dest)
              /\ BlockSize * (Len(Source) + Len(rest)) \in Nat
          BY <1>2, <5>1, BlockSizeAssumption, MulMono
        <5>3. BlockSize * Len(Dest) < levels[d].maxSize
          BY <1>2 DEF IInv, SizeInv, LevelBound
        <5>4. BlockSize * Len(Dest) \in Nat /\ levels[d].maxSize \in Nat
          BY <1>2, <1>4, SizeFacts
        <5> HIDE DEF d
        <5> QED
          BY <5>2, <5>3, <5>4
      <4> QED
        BY <1>2, <4>1, <4>2, <4>3, <4>4, Zenon
    <3>3. CASE f # d /\ f # d + 1
      <4>1. /\ f \in 1 .. d /\ f \in 1 .. Len(frames) /\ f < Len(frames)
            /\ f \in 0 .. numLevels - 1 /\ f - 1 \in 0 .. numLevels - 1
        BY <1>2, <1>4, <1>9, <3>3
      <4>2. frames'[f] = frames[f]
        BY <1>7, <1>9, <3>3, <4>1
      <4>3. levels'[f] = levels[f] /\ levels'[f - 1] = levels[f - 1]
        BY <1>10, <4>1
      <4>4. /\ Len(frames[f].sourceVec) >= 1
            /\ BlockSize * Len(frames[f].sourceVec) <= levels[f - 1].maxSize
            /\ BlockSize * (Len(frames[f].sourceVec) + Len(frames[f].remainingBlocks))
                 < levels[f].maxSize
        BY <4>1 DEF IInv, CallInv, Pending
      <4> QED
        BY <4>2, <4>3, <4>4, Zenon
    <3> QED
      BY <3>1, <3>2, <3>3
  <2>2. Len(frames') \in 1 .. numLevels' - 1
    BY <1>9, <1>10
  <2> QED
    BY <1>1, <2>1, <2>2 DEF CallInv
<1> QED
  BY <1>10, <1>11, <1>12 DEF IInv

-----------------------------------------------------------------------------
(***************************************************************************)
(* The theorems about types and sizes.                                     *)
(***************************************************************************)

\* Every step preserves the invariant.
THEOREM IInvNext == IInv /\ [Next]_vars => IInv'
<1> SUFFICES ASSUME IInv, [Next]_vars
             PROVE  IInv'
  OBVIOUS
<1>1. ASSUME NEW key \in Keys, NEW version \in Version, put(key, version)
      PROVE  IInv'
  <2>1. CASE UNCHANGED vars
    BY <2>1 DEF IInv, TypeInv, SizeInv, LevelBound, CallInv, Pending, vars, index, call
  <2>2. CASE PutEarlier(key, version)
    BY <2>1, <2>2 DEF PutEarlier
  <2>3. CASE PutLater(key, version)
    BY <2>3, PutLaterStep
  <2>4. CASE PutNew(key, version)
    BY <2>4, PutNewStep
  <2>5. CASE PutWriteOut(key, version)
    BY <2>5, PutWriteOutStep
  <2>6. CASE PutCompact(key, version)
    BY <2>6, PutCompactStep
  <2> QED
    BY <1>1, <2>2, <2>3, <2>4, <2>5, <2>6 DEF put
<1>2. CASE Compaction
  BY <1>2, CompactMergeL0Step, CompactCallStep, HelperEvictStep, HelperFitsStep,
     HelperReturnStep, CompactReturnStep DEF Compaction
<1>3. CASE UNCHANGED vars
  BY <1>3 DEF IInv, TypeInv, SizeInv, LevelBound, CallInv, Pending, vars, index, call
<1> QED
  BY <1>1, <1>2, <1>3 DEF Next

\* The sizes of the levels and of the calls of compactHelper hold together
\* through every put and every step of a compaction.
THEOREM Invariance == Spec => []IInv
<1> QED
  BY IInvInit, IInvNext, PTL DEF Spec

\* The state always has its types: among others, every block is a block and
\* every level of the index exists.
THEOREM TypeCorrect == Spec => []TypeOK
<1>1. IInv => TypeOK
  <2> SUFFICES ASSUME IInv PROVE TypeOK
    OBVIOUS
  <2>1. levels \in [0 .. numLevels - 1 -> Level(Keys)]
    BY DEF IInv, TypeInv, GoodLevels
  <2>2. frames \in Seq(Frame(Keys))
    <3>1. GoodFrames \subseteq Frame(Keys)
      BY GoodBlocksAreBlocks DEF GoodFrames, Frame
    <3> QED
      BY <3>1, SeqMonotonic DEF IInv, TypeInv
  <2>3. locklst \in SUBSET Keys
    BY PairMapDomain DEF IInv, TypeInv
  <2> QED
    BY <2>1, <2>2, <2>3 DEF IInv, TypeInv, TypeOK
<1> QED
  BY <1>1, Invariance, PTL

\* memtable and locklst always have the same keys, which is what
\* Memtable::put relies on when it dereferences what find returns.
THEOREM LocksMatchMemtable == Spec => []LocklstSync
<1>1. IInv => LocklstSync
  BY DEF IInv, TypeInv, LocklstSync
<1> QED
  BY <1>1, Invariance, PTL

\* The memtable always fits into one block.
THEOREM MemtableFits == Spec => []MemtableBound
<1>1. IInv => MemtableBound
  BY DEF IInv, TypeInv, MemtableBound
<1> QED
  BY <1>1, Invariance, PTL

\* Whenever no put is in progress level 0 has at most one block, so that
\* getBlock never has to choose between overlapping blocks there.
THEOREM Level0HasOneBlock == Spec => []SingleL0Block
<1>1. IInv => SingleL0Block
  BY DEF IInv, SizeInv, SingleL0Block
<1> QED
  BY <1>1, Invariance, PTL

\* No level below level 0 reaches its maximal size, whatever LevelRatio is.
THEOREM LevelsStayBelowMaxSize == Spec => []LevelBound
<1>1. IInv => LevelBound
  BY DEF IInv, SizeInv
<1> QED
  BY <1>1, Invariance, PTL

\* compactHelper never advances an iterator beyond the end of the blocks it
\* takes them from, and never merges an empty list of source blocks.
THEOREM EvictionStaysInBounds == Spec => []EvictionInBounds
<1>1. IInv => EvictionInBounds
  <2> SUFFICES ASSUME IInv, pc = "compactHelper"
               PROVE  /\ Len(Source) >= 1
                      /\ Overflow => EvictCount(Source, Dest) <= Len(Dest)
    BY DEF EvictionInBounds
  <2> QED
    BY OverflowFacts, EvictCountBounds
<1> QED
  BY <1>1, Invariance, PTL

-----------------------------------------------------------------------------
(***************************************************************************)
(* merge: its order, and what it keeps.                                    *)
(***************************************************************************)

\* A list of blocks holds a version of a key at least as late as this one.
Covers(blocks, key, version) ==
  \E i \in DOMAIN blocks :
    /\ key \in DOMAIN blocks[i].kvPairs
    /\ blocks[i].kvPairs[key].txn_timestamp >= version.txn_timestamp

\* One of two lists does so for every pair of a third.
CoveredBy(blocks, one, other) ==
  \A i \in DOMAIN blocks : \A key \in DOMAIN blocks[i].kvPairs :
    \/ Covers(one, key, blocks[i].kvPairs[key])
    \/ Covers(other, key, blocks[i].kvPairs[key])

\* merge drops a version only for one at least as late.
LEMMA MergeKeeps ==
  ASSUME NEW a \in Seq(GoodBlocks), NEW b \in Seq(GoodBlocks),
         InKeyOrder(a), InKeyOrder(b)
  PROVE  /\ \A i \in DOMAIN a : \A key \in DOMAIN a[i].kvPairs :
              Covers(merge(a, b), key, a[i].kvPairs[key])
         /\ \A i \in DOMAIN b : \A key \in DOMAIN b[i].kvPairs :
              Covers(merge(a, b), key, b[i].kvPairs[key])
<1> DEFINE K == KeysOf(a) \cup KeysOf(b)
<1>1. /\ K \in SUBSET Nat /\ IsFiniteSet(K)
      /\ DOMAIN merge(a, b) = 1 .. ((Cardinality(K) + BlockSize - 1) \div BlockSize)
      /\ \A i \in DOMAIN merge(a, b) :
           merge(a, b)[i].kvPairs = [key \in Chunk(K, i) |-> Survivor(a, b, key)]
  BY MergedChunk
<1>2. ASSUME NEW key \in K
      PROVE  \E i \in DOMAIN merge(a, b) : /\ key \in DOMAIN merge(a, b)[i].kvPairs
                                           /\ merge(a, b)[i].kvPairs[key] = Survivor(a, b, key)
  <2> HIDE DEF K
  <2>1. PICK i \in DOMAIN merge(a, b) : key \in Chunk(K, i)
    BY <1>1, <1>2, ChunkOfKey
  <2> QED
    BY <1>1, <2>1
<1>3. ASSUME NEW key \in KeysOf(a)
      PROVE  /\ Survivor(a, b, key).txn_timestamp \in Int
             /\ VersionIn(a, key).txn_timestamp \in Int
             /\ Survivor(a, b, key).txn_timestamp >= VersionIn(a, key).txn_timestamp
  <2>1. \A version \in Version : version.txn_timestamp \in Int
    BY TimestampsAssumption DEF Version
  <2>2. VersionIn(a, key) \in Version
    BY VersionInType
  <2>3. key \in KeysOf(b) => VersionIn(b, key) \in Version
    BY VersionInType
  <2> QED
    BY <2>1, <2>2, <2>3 DEF Survivor
<1>4. ASSUME NEW key \in KeysOf(b)
      PROVE  Survivor(a, b, key).txn_timestamp >= VersionIn(b, key).txn_timestamp
  <2>1. \A version \in Version : version.txn_timestamp \in Int
    BY TimestampsAssumption DEF Version
  <2>2. VersionIn(b, key) \in Version
    BY VersionInType
  <2>3. key \in KeysOf(a) => VersionIn(a, key) \in Version
    BY VersionInType
  <2> QED
    BY <2>1, <2>2, <2>3 DEF Survivor
<1>5. ASSUME NEW i \in DOMAIN a, NEW key \in DOMAIN a[i].kvPairs
      PROVE  Covers(merge(a, b), key, a[i].kvPairs[key])
  <2>1. VersionIn(a, key) = a[i].kvPairs[key] /\ key \in KeysOf(a)
    BY VersionInOrder
  <2> QED
    BY <1>2, <1>3, <2>1 DEF Covers
<1>6. ASSUME NEW i \in DOMAIN b, NEW key \in DOMAIN b[i].kvPairs
      PROVE  Covers(merge(a, b), key, b[i].kvPairs[key])
  <2>1. VersionIn(b, key) = b[i].kvPairs[key] /\ key \in KeysOf(b)
    BY VersionInOrder
  <2> QED
    BY <1>2, <1>4, <2>1 DEF Covers
<1> QED
  BY <1>5, <1>6
-----------------------------------------------------------------------------
(***************************************************************************)
(* What the steps do to the levels and to the calls in progress.           *)
(***************************************************************************)

\* addLevel adds an empty level and leaves the others alone.
LEMMA addLevelView ==
  ASSUME IInv, NEW size, addLevel(size)
  PROVE  /\ numLevels' = numLevels + 1
         /\ \A i \in 0 .. numLevels - 1 : levels'[i] = levels[i]
         /\ levels'[numLevels].recordHashes = << >>
         /\ levels'[numLevels].numBlocks = 0
<1>1. numLevels \in Nat \ {0}
  BY DEF IInv, TypeInv
<1>2. levels' = [i \in 0 .. numLevels |->
                  IF i = numLevels THEN NewLevel(LevelRatio * size) ELSE levels[i]]
  BY DEF addLevel
<1>3. \A i \in 0 .. numLevels - 1 : i \in 0 .. numLevels /\ i # numLevels
  BY <1>1
<1>4. \A i \in 0 .. numLevels - 1 : levels'[i] = levels[i]
  BY <1>2, <1>3
<1>5. levels'[numLevels] = NewLevel(LevelRatio * size)
  BY <1>1, <1>2
<1> QED
  BY <1>4, <1>5 DEF addLevel, NewLevel

\* A step that at most adds levels.
Grows ==
  /\ numLevels' \in Nat /\ numLevels' >= numLevels
  /\ \A i \in 0 .. numLevels - 1 : levels'[i] = levels[i]
  /\ \A i \in numLevels .. numLevels' - 1 :
       levels'[i].recordHashes = << >> /\ levels'[i].numBlocks = 0

LEMMA GrowsWhenUnchanged ==
  ASSUME IInv, UNCHANGED <<numLevels, levels>>
  PROVE  Grows
<1>1. numLevels \in Nat
  BY DEF IInv, TypeInv
<1>2. numLevels .. numLevels - 1 = {}
  BY <1>1
<1> QED
  BY <1>1, <1>2 DEF Grows

LEMMA GrowsByOne ==
  ASSUME IInv, NEW size, addLevel(size)
  PROVE  Grows
<1>1. numLevels \in Nat /\ numLevels' = numLevels + 1
  BY addLevelView DEF IInv, TypeInv
<1>2. \A i \in numLevels .. numLevels' - 1 : i = numLevels
  BY <1>1
<1> QED
  BY <1>1, <1>2, addLevelView DEF Grows

\* A put that adds the memtable to level 0.
LEMMA WriteOutView ==
  ASSUME IInv, NEW key \in Keys, NEW version \in Version,
         PutWriteOut(key, version) \/ PutCompact(key, version)
  PROVE  /\ pc = "idle"
         /\ numLevels' = numLevels
         /\ MemtableBlock(memtable) \in GoodBlocks
         /\ levels'[0] = addBlock(levels[0], MemtableBlock(memtable))
         /\ levels'[0].recordHashes
              = Append(levels[0].recordHashes, MemtableBlock(memtable))
         /\ \A i \in 1 .. numLevels - 1 : levels'[i] = levels[i]
<1>1. /\ pc = "idle" /\ numLevels' = numLevels /\ MemtableFull
      /\ levels' = [levels EXCEPT ![0] = addBlock(levels[0], MemtableBlock(memtable))]
  BY DEF PutWriteOut, PutCompact
<1>2. levels \in [0 .. numLevels - 1 -> GoodLevels] /\ numLevels \in Nat \ {0}
  BY DEF IInv, TypeInv
<1>3. /\ levels'[0] = addBlock(levels[0], MemtableBlock(memtable))
      /\ \A i \in 1 .. numLevels - 1 : levels'[i] = levels[i]
  BY <1>1, <1>2
<1> QED
  BY <1>1, <1>3, WriteOutFacts, Zenon

\* compact merges a block of level 0.
LEMMA CompactMergeL0View ==
  ASSUME IInv, CompactMergeL0
  PROVE  /\ Len(frames) = 1 /\ Len(frames') = 1
         /\ l0Ind + 1 \in DOMAIN levels[0].recordHashes
         /\ l0Ind' = l0Ind + 1
         /\ levels[0].recordHashes[l0Ind + 1] \in GoodBlocks
         /\ frames'[1].sourceVec
              = merge(frames[1].sourceVec, <<levels[0].recordHashes[l0Ind + 1]>>)
         /\ frames'[1].remainingBlocks = frames[1].remainingBlocks
<1> DEFINE merged == merge(frames[1].sourceVec, <<levels[0].recordHashes[l0Ind + 1]>>)
           frame == [frames[1] EXCEPT !.sourceVec = merged]
<1>1. /\ pc = "compact" /\ l0Ind < Len(levels[0].recordHashes)
      /\ frames' = [frames EXCEPT ![1] = frame]
      /\ l0Ind' = l0Ind + 1
  BY DEF CompactMergeL0
<1>2. frames \in Seq(GoodFrames) /\ Len(frames) = 1 /\ l0Ind \in Nat /\ 1 \in 1 .. Len(frames)
  <2>1. frames \in Seq(GoodFrames) /\ l0Ind \in Nat
    BY DEF IInv, TypeInv
  <2>2. Len(frames) = 1
    BY <1>1 DEF IInv, CallInv
  <2>3. 1 \in 1 .. Len(frames)
    BY <2>2
  <2> QED
    BY <2>1, <2>2, <2>3
<1>3. frames[1] \in GoodFrames
  BY <1>2, FrameFacts
<1>4. frame.sourceVec = merged /\ frame.remainingBlocks = frames[1].remainingBlocks
  BY <1>3 DEF GoodFrames
<1>5. levels[0].recordHashes \in Seq(GoodBlocks) /\ Len(levels[0].recordHashes) \in Nat
  BY SizeFacts DEF IInv, TypeInv
<1>6. l0Ind + 1 \in 1 .. Len(levels[0].recordHashes)
  BY <1>1, <1>2, <1>5
<1>7. l0Ind + 1 \in DOMAIN levels[0].recordHashes
      /\ levels[0].recordHashes[l0Ind + 1] \in GoodBlocks
  BY <1>5, <1>6, LenProperties, ElementOfSeq
<1> HIDE DEF frame
<1>8. Len(frames') = 1 /\ frames'[1] = frame
  BY <1>1, <1>2
<1> QED
  BY <1>1, <1>2, <1>4, <1>7, <1>8, Zenon

\* compact calls compactHelper.
LEMMA CompactCallView ==
  ASSUME IInv, CompactCall
  PROVE  Grows /\ Len(frames) = 1
<1>1. Len(frames) = 1
  BY DEF CompactCall, IInv, CallInv
<1>2. CASE numLevels = 1
  <2>1. addLevel(levels[0].maxSize)
    BY <1>2 DEF CompactCall
  <2> QED
    BY <1>1, <2>1, GrowsByOne
<1>3. CASE numLevels # 1
  BY <1>1, <1>3, GrowsWhenUnchanged DEF CompactCall, index
<1> QED
  BY <1>2, <1>3

\* compactHelper splits its level and calls itself.
LEMMA HelperEvictView ==
  ASSUME IInv, HelperEvict
  PROVE  /\ Grows
         /\ Depth \in 1 .. numLevels - 1
         /\ Len(frames') = Depth + 1
         /\ Dest \in Seq(GoodBlocks)
         /\ EvictCount(Source, Dest) \in 0 .. Len(Dest)
         /\ \A f \in 1 .. Depth - 1 : frames'[f] = frames[f]
         /\ frames'[Depth].sourceVec = Source
         /\ frames'[Depth].remainingBlocks
              = SubSeq(Dest, EvictCount(Source, Dest) + 1, Len(Dest))
         /\ frames'[Depth + 1].sourceVec = SubSeq(Dest, 1, EvictCount(Source, Dest))
         /\ frames'[Depth + 1].remainingBlocks = << >>
<1> DEFINE d == Len(frames)
           n == EvictCount(Source, Dest)
           rest == SubSeq(Dest, n + 1, Len(Dest))
           evicted == SubSeq(Dest, 1, n)
           frame == [frames[d] EXCEPT !.remainingBlocks = rest]
           split == [frames EXCEPT ![d] = frame]
           below == [sourceVec |-> evicted, remainingBlocks |-> << >>]
<1>1. /\ pc = "compactHelper" /\ Overflow
      /\ frames' = Append(split, below)
      /\ IF d + 1 >= numLevels THEN addLevel(levels[d].maxSize)
                               ELSE UNCHANGED <<numLevels, levels>>
  BY DEF HelperEvict, Depth, index
<1>2. Grows
  BY <1>1, GrowsByOne, GrowsWhenUnchanged
<1>3. /\ d \in 1 .. numLevels - 1 /\ d \in Nat /\ d \in 1 .. d
      /\ Dest \in Seq(GoodBlocks) /\ Len(Dest) \in Nat
      /\ Source \in Seq(GoodBlocks)
      /\ Len(Source) <= Len(Dest)
      /\ Source = frames[d].sourceVec
  BY <1>1, OverflowFacts, FrameFacts DEF Depth, Dest, Source
<1>4. n \in Nat /\ n <= Len(Dest)
  BY <1>3, EvictCountBounds
<1>5. frames \in Seq(GoodFrames) /\ frames[d] \in GoodFrames
  BY <1>3, FrameFacts DEF IInv, TypeInv
<1> HIDE DEF n
<1>6. n \in 0 .. Len(Dest)
  BY <1>3, <1>4
<1>7. rest \in Seq(GoodBlocks) /\ evicted \in Seq(GoodBlocks)
  BY <1>3, <1>6, PrefixType, SuffixType
<1> HIDE DEF rest, evicted
<1>8. /\ frame \in GoodFrames
      /\ frame.sourceVec = Source /\ frame.remainingBlocks = rest
  BY <1>3, <1>5, <1>7 DEF GoodFrames
<1>9. /\ below \in GoodFrames
      /\ below.sourceVec = evicted /\ below.remainingBlocks = << >>
  BY <1>7, EmptySeq DEF GoodFrames
<1> HIDE DEF frame, below
<1>10. /\ split \in Seq(GoodFrames) /\ Len(split) = d
       /\ \A f \in 1 .. d : split[f] = IF f = d THEN frame ELSE frames[f]
  BY <1>3, <1>5, <1>8, ExceptSeq
<1> HIDE DEF split
<1>11. /\ Len(frames') = d + 1
       /\ frames'[d + 1] = below
       /\ \A f \in 1 .. d : frames'[f] = split[f]
  BY <1>1, <1>9, <1>10, AppendProperties
<1>12. frames'[d] = frame /\ \A f \in 1 .. d - 1 : frames'[f] = frames[f]
  <2>1. \A f \in 1 .. d - 1 : f \in 1 .. d /\ f # d
    BY <1>3
  <2> QED
    BY <1>3, <1>10, <1>11, <2>1
<1> QED
  BY <1>2, <1>3, <1>6, <1>8, <1>9, <1>11, <1>12 DEF Depth, n, rest, evicted

\* compactHelper merges its source blocks into those its level is left with.
LEMMA HelperMergeView ==
  ASSUME IInv, HelperFits \/ HelperReturn
  PROVE  \E kept \in Seq(GoodBlocks) :
           /\ kept = IF pc = "compactHelper" THEN Dest ELSE frames[Depth].remainingBlocks
           /\ pc \in {"compactHelper", "return"} /\ pc' = "return"
           /\ Depth \in 1 .. numLevels - 1 /\ Depth = Len(frames) /\ Depth \in Nat
           /\ Source \in Seq(GoodBlocks)
           /\ numLevels' = numLevels
           /\ levels'[Depth] = WithBlocks(levels[Depth], merge(Source, kept))
           /\ levels'[Depth].recordHashes = merge(Source, kept)
           /\ \A i \in 0 .. numLevels - 1 : i # Depth => levels'[i] = levels[i]
           /\ Len(frames') = Depth - 1
           /\ \A f \in 1 .. Depth - 1 : frames'[f] = frames[f]
           /\ UNCHANGED memtable
<1> DEFINE d == Len(frames)
           kept == IF pc = "compactHelper" THEN Dest ELSE frames[Depth].remainingBlocks
<1>1. pc \in {"compactHelper", "return"} /\ HelperMerge(kept)
  BY DEF HelperFits, HelperReturn
<1>2. d \in 1 .. numLevels - 1 /\ d \in 1 .. Len(frames)
  <2>1. CASE pc = "compactHelper"
    BY <2>1, FrameFacts DEF IInv, CallInv
  <2>2. CASE pc = "return"
    <3>1. frames # << >>
      BY <2>2 DEF HelperFits, HelperReturn
    <3>2. d \in 0 .. numLevels - 1 /\ d \in Nat \ {0}
      BY <2>2, <3>1, EmptySeq DEF IInv, TypeInv, CallInv
    <3> QED
      BY <3>2 DEF IInv, TypeInv
  <2> QED
    BY <1>1, <2>1, <2>2
<1>3. d \in 0 .. numLevels - 1 /\ d \in Nat /\ 1 <= d
  BY <1>2 DEF IInv, TypeInv
<1>4. Source \in Seq(GoodBlocks) /\ kept \in Seq(GoodBlocks)
  BY <1>2, <1>3, FrameFacts, SizeFacts DEF Source, Dest, Depth
<1> HIDE DEF kept
<1>5. /\ levels' = [levels EXCEPT ![d] = WithBlocks(levels[d], merge(Source, kept))]
      /\ pc' = "return"
      /\ frames' = SubSeq(frames, 1, d - 1)
      /\ UNCHANGED <<memtable, numLevels>>
  BY <1>1 DEF HelperMerge, Depth
<1>6. levels \in [0 .. numLevels - 1 -> GoodLevels]
  BY DEF IInv, TypeInv
<1>7. /\ levels'[d] = WithBlocks(levels[d], merge(Source, kept))
      /\ \A i \in 0 .. numLevels - 1 : i # d => levels'[i] = levels[i]
  BY <1>3, <1>5, <1>6
<1>8. levels'[d].recordHashes = merge(Source, kept)
  <2>1. levels[d] \in GoodLevels /\ merge(Source, kept) \in Seq(GoodBlocks)
    BY <1>3, <1>4, <1>6, MergeType
  <2> QED
    BY <1>7, <2>1, WithBlocksType
<1>9. Len(frames') = d - 1 /\ \A f \in 1 .. d - 1 : frames'[f] = frames[f]
  <2>1. frames \in Seq(GoodFrames) /\ d - 1 \in 0 .. Len(frames)
    BY <1>3 DEF IInv, TypeInv
  <2> HIDE DEF d
  <2>2. /\ Len(SubSeq(frames, 1, d - 1)) = d - 1
        /\ \A f \in 1 .. d - 1 : SubSeq(frames, 1, d - 1)[f] = frames[f]
    BY <2>1, PrefixType
  <2> QED
    BY <1>5, <2>2, Zenon
<1> USE <1>4
<1> WITNESS kept \in Seq(GoodBlocks)
<1> QED
  BY <1>1, <1>2, <1>3, <1>4, <1>5, <1>7, <1>8, <1>9 DEF Depth, kept

\* compact empties level 0.
LEMMA CompactReturnView ==
  ASSUME IInv, CompactReturn
  PROVE  /\ pc = "return" /\ pc' = "idle" /\ frames = << >> /\ frames' = frames
         /\ numLevels' = numLevels
         /\ levels'[0] = WithBlocks(levels[0], << >>)
         /\ levels'[0].recordHashes = << >>
         /\ \A i \in 1 .. numLevels - 1 : levels'[i] = levels[i]
<1>1. /\ pc = "return" /\ pc' = "idle" /\ frames = << >>
      /\ levels' = [levels EXCEPT ![0] = WithBlocks(levels[0], << >>)]
      /\ UNCHANGED <<numLevels, frames>>
  BY DEF CompactReturn
<1>2. levels \in [0 .. numLevels - 1 -> GoodLevels] /\ numLevels \in Nat \ {0}
  BY DEF IInv, TypeInv
<1>3. /\ levels'[0] = WithBlocks(levels[0], << >>)
      /\ \A i \in 1 .. numLevels - 1 : levels'[i] = levels[i]
  BY <1>1, <1>2
<1>4. WithBlocks(levels[0], << >>).recordHashes = << >>
  BY DEF WithBlocks
<1> QED
  BY <1>1, <1>3, <1>4, Zenon
\* The kinds of steps.
LEMMA StepCases ==
  ASSUME [Next]_vars
  PROVE  \/ /\ UNCHANGED <<numLevels, levels, pc, l0Ind, frames>>
            /\ pc # "idle" => UNCHANGED memtable
         \/ \E key \in Keys, version \in Version :
              PutWriteOut(key, version) \/ PutCompact(key, version)
         \/ CompactMergeL0 \/ CompactCall \/ HelperEvict
         \/ HelperFits \/ HelperReturn \/ CompactReturn
<1>1. CASE UNCHANGED vars
  BY <1>1 DEF vars, index, call
<1>2. ASSUME NEW key \in Keys, NEW version \in Version, put(key, version),
             ~ PutWriteOut(key, version), ~ PutCompact(key, version)
      PROVE  /\ UNCHANGED <<numLevels, levels, pc, l0Ind, frames>>
             /\ pc = "idle"
  BY <1>2 DEF put, PutEarlier, PutLater, PutNew, vars, index, call
<1> QED
  BY <1>1, <1>2 DEF Next, Compaction

-----------------------------------------------------------------------------
(***************************************************************************)
(* The levels stay sorted.                                                 *)
(***************************************************************************)

\* A block's bounds: its first and last key, except that an empty key may be
\* missing from minKey.
Bounded(block) ==
  /\ block.minKey \in DOMAIN block.kvPairs
  /\ block.maxKey \in DOMAIN block.kvPairs
  /\ \A key \in DOMAIN block.kvPairs :
       /\ key # EmptyKey => block.minKey <= key
       /\ key <= block.maxKey

AllBounded(blocks) == \A i \in DOMAIN blocks : Bounded(blocks[i])

\* The lists of blocks that are sorted: those of the levels below level 0 and
\* those in flight between two levels.
Sorted(blocks) == InKeyOrder(blocks) /\ AllBounded(blocks)

OrderInv ==
  /\ \A i \in 1 .. numLevels - 1 : Sorted(levels[i].recordHashes)
  /\ \A f \in 1 .. Len(frames) :
       Sorted(frames[f].sourceVec) /\ Sorted(frames[f].remainingBlocks)
  /\ AllBounded(levels[0].recordHashes)

\* What merge and write_out_if_full make has its bounds.
LEMMA MadeBounded ==
  ASSUME NEW pairs, DOMAIN pairs \in SUBSET Nat, DOMAIN pairs # {},
         IsFiniteSet(DOMAIN pairs)
  PROVE  Bounded(MergedBlock(pairs)) /\ Bounded(MemtableBlock(pairs))
<1> DEFINE D == DOMAIN pairs
<1>1. /\ Max(D) \in D /\ \A key \in D : key <= Max(D)
      /\ Min(D) \in D /\ \A key \in D : Min(D) <= key
  <2>1. \A key \in D : Max(D) >= key
    BY MaxNat
  <2>2. Max(D) \in D /\ Min(D) \in D /\ \A key \in D : Min(D) <= key
    BY MinNat, MaxNat
  <2> HIDE DEF D
  <2>3. D \in SUBSET Nat
    BY DEF D
  <2> QED
    BY <2>1, <2>2, <2>3
<1>2. StartKey(D) \in D /\ \A key \in D : key # EmptyKey => StartKey(D) <= key
  <2>1. CASE D \subseteq {EmptyKey}
    BY <2>1 DEF StartKey
  <2>2. CASE ~ (D \subseteq {EmptyKey})
    <3>1. D \ {EmptyKey} # {} /\ D \ {EmptyKey} \in SUBSET Nat
      BY <2>2
    <3>2. Min(D \ {EmptyKey}) \in D \ {EmptyKey}
          /\ \A key \in D \ {EmptyKey} : Min(D \ {EmptyKey}) <= key
      BY <3>1, MinNat
    <3> QED
      BY <2>2, <3>2 DEF StartKey
  <2> QED
    BY <2>1, <2>2
<1>3. /\ MergedBlock(pairs).minKey = StartKey(D) /\ MergedBlock(pairs).maxKey = Max(D)
      /\ MergedBlock(pairs).kvPairs = pairs
      /\ MemtableBlock(pairs).minKey = Min(D) /\ MemtableBlock(pairs).maxKey = Max(D)
      /\ MemtableBlock(pairs).kvPairs = pairs
  BY DEF MergedBlock, MemtableBlock
<1> QED
  BY <1>1, <1>2, <1>3, Zenon DEF Bounded

LEMMA MergeSorted ==
  ASSUME NEW a \in Seq(GoodBlocks), NEW b \in Seq(GoodBlocks)
  PROVE  Sorted(merge(a, b))
<1> DEFINE K == KeysOf(a) \cup KeysOf(b)
           pairs(i) == [key \in Chunk(K, i) |-> Survivor(a, b, key)]
<1>1. /\ K \in SUBSET Nat /\ IsFiniteSet(K) /\ Cardinality(K) \in Nat
      /\ DOMAIN merge(a, b) = 1 .. ((Cardinality(K) + BlockSize - 1) \div BlockSize)
      /\ \A i \in DOMAIN merge(a, b) : merge(a, b)[i] = MergedBlock(pairs(i))
  BY MergedChunk
<1> HIDE DEF K
<1>2. ASSUME NEW i \in DOMAIN merge(a, b)
      PROVE  Bounded(merge(a, b)[i])
  <2>1. Chunk(K, i) # {} /\ IsFiniteSet(Chunk(K, i)) /\ Chunk(K, i) \in SUBSET Nat
    BY <1>1, ChunkSize DEF Chunk
  <2>2. DOMAIN pairs(i) = Chunk(K, i)
    OBVIOUS
  <2> HIDE DEF pairs
  <2>3. Bounded(MergedBlock(pairs(i)))
    BY <2>1, <2>2, MadeBounded
  <2> QED
    BY <1>1, <2>3
<1> QED
  BY <1>2, MergeInKeyOrder DEF Sorted, AllBounded

\* The elements of the two parts of a list.
LEMMA PartElements ==
  ASSUME NEW S, NEW s \in Seq(S), NEW n \in 0 .. Len(s)
  PROVE  /\ DOMAIN SubSeq(s, 1, n) = 1 .. n
         /\ \A i \in 1 .. n : SubSeq(s, 1, n)[i] = s[i] /\ i \in DOMAIN s
         /\ DOMAIN SubSeq(s, n + 1, Len(s)) = 1 .. (Len(s) - n)
         /\ \A i \in 1 .. (Len(s) - n) :
              SubSeq(s, n + 1, Len(s))[i] = s[n + i] /\ n + i \in DOMAIN s
<1> DEFINE l == Len(s)
           rest == SubSeq(s, n + 1, l)
<1>1. l \in Nat /\ n \in Nat /\ n <= l /\ DOMAIN s = 1 .. l
  BY LenProperties
<1>2. /\ SubSeq(s, 1, n) \in Seq(S) /\ Len(SubSeq(s, 1, n)) = n
      /\ \A i \in 1 .. n : SubSeq(s, 1, n)[i] = s[i]
      /\ rest \in Seq(S) /\ Len(rest) = l - n
  BY PrefixType, SuffixType
<1>3. DOMAIN SubSeq(s, 1, n) = 1 .. n /\ DOMAIN rest = 1 .. (l - n)
  BY <1>2, LenProperties
<1> HIDE DEF l
<1>4. \A i \in 1 .. n : i \in 1 .. l
  BY <1>1
<1>5. ASSUME NEW i \in 1 .. (l - n)
      PROVE  rest[i] = s[n + i] /\ n + i \in 1 .. l
  BY <1>1 DEF l
<1> QED
  BY <1>1, <1>2, <1>3, <1>4, <1>5 DEF l

\* Both parts of a sorted list are sorted.
LEMMA PartsSorted ==
  ASSUME NEW s \in Seq(GoodBlocks), NEW n \in 0 .. Len(s), Sorted(s)
  PROVE  Sorted(SubSeq(s, 1, n)) /\ Sorted(SubSeq(s, n + 1, Len(s)))
<1>1. n \in Nat /\ Len(s) \in Nat
  BY LenProperties
<1>2. Sorted(SubSeq(s, 1, n))
  <2> DEFINE part == SubSeq(s, 1, n)
  <2>1. /\ DOMAIN part = 1 .. n
        /\ \A i \in 1 .. n : part[i] = s[i] /\ i \in DOMAIN s
    BY PartElements
  <2> HIDE DEF part
  <2>2. AllBounded(part)
    BY <2>1 DEF Sorted, AllBounded
  <2>3. ASSUME NEW x \in DOMAIN part, NEW y \in DOMAIN part, x < y,
               NEW j \in DOMAIN part[x].kvPairs, NEW k \in DOMAIN part[y].kvPairs
        PROVE  j < k
    BY <2>1, <2>3 DEF Sorted, InKeyOrder
  <2>4. InKeyOrder(part)
    BY <2>3 DEF InKeyOrder
  <2> QED
    BY <2>2, <2>4 DEF Sorted, part
<1>3. Sorted(SubSeq(s, n + 1, Len(s)))
  <2> DEFINE part == SubSeq(s, n + 1, Len(s))
  <2>1. /\ DOMAIN part = 1 .. (Len(s) - n)
        /\ \A i \in 1 .. (Len(s) - n) : part[i] = s[n + i] /\ n + i \in DOMAIN s
    BY PartElements
  <2> HIDE DEF part
  <2>2. AllBounded(part)
    BY <2>1 DEF Sorted, AllBounded
  <2>3. ASSUME NEW x \in DOMAIN part, NEW y \in DOMAIN part, x < y,
               NEW j \in DOMAIN part[x].kvPairs, NEW k \in DOMAIN part[y].kvPairs
        PROVE  j < k
    <3>1. /\ n + x < n + y /\ n + x \in DOMAIN s /\ n + y \in DOMAIN s
          /\ j \in DOMAIN s[n + x].kvPairs /\ k \in DOMAIN s[n + y].kvPairs
      BY <1>1, <2>1, <2>3
    <3> QED
      BY <3>1 DEF Sorted, InKeyOrder
  <2>4. InKeyOrder(part)
    BY <2>3 DEF InKeyOrder
  <2> QED
    BY <2>2, <2>4 DEF Sorted, part
<1> QED
  BY <1>2, <1>3

\* A list of at most one block.
LEMMA SmallSorted ==
  /\ Sorted(<< >>)
  /\ \A block : Bounded(block) => Sorted(<<block>>)
<1>1. Sorted(<< >>)
  BY DEF Sorted, InKeyOrder, AllBounded
<1>2. ASSUME NEW block, Bounded(block)
      PROVE  Sorted(<<block>>)
  <2>1. DOMAIN <<block>> = {1} /\ <<block>>[1] = block
    OBVIOUS
  <2> QED
    BY <1>2, <2>1 DEF Sorted, InKeyOrder, AllBounded
<1> QED
  BY <1>1, <1>2

LEMMA OrderInit == Init => OrderInv
<1> SUFFICES ASSUME Init
             PROVE  OrderInv
  OBVIOUS
<1>1. 1 .. numLevels - 1 = {} /\ Len(frames) = 0 /\ 1 .. 0 = {}
  BY DEF Init
<1>2. levels[0].recordHashes = << >>
  BY DEF Init, NewLevel
<1> QED
  BY <1>1, <1>2, SmallSorted DEF OrderInv, Sorted

\* The lists of a step that at most adds levels.
LEMMA GrowsSorted ==
  ASSUME IInv, OrderInv, Grows
  PROVE  /\ \A i \in 1 .. numLevels' - 1 : Sorted(levels'[i].recordHashes)
         /\ AllBounded(levels'[0].recordHashes)
<1>1. numLevels \in Nat \ {0} /\ numLevels' \in Nat
  BY DEF IInv, TypeInv, Grows
<1>2. ASSUME NEW i \in 1 .. numLevels' - 1
      PROVE  Sorted(levels'[i].recordHashes)
  <2>1. CASE i < numLevels
    <3>1. i \in 1 .. numLevels - 1 /\ i \in 0 .. numLevels - 1
      BY <1>1, <2>1
    <3> QED
      BY <3>1 DEF Grows, OrderInv
  <2>2. CASE ~ (i < numLevels)
    <3>1. PICK n \in Nat : n = numLevels'
      BY <1>1
    <3>2. i \in 1 .. n - 1
      BY <3>1
    <3>3. i \in numLevels .. n - 1
      BY <1>1, <2>2, <3>2
    <3>4. i \in numLevels .. numLevels' - 1
      BY <3>1, <3>3
    <3> QED
      BY <3>4, SmallSorted DEF Grows
  <2> QED
    BY <2>1, <2>2
<1>3. 0 \in 0 .. numLevels - 1
  BY <1>1
<1> QED
  BY <1>2, <1>3 DEF Grows, OrderInv
\* Every step keeps the levels and the blocks in flight sorted.
LEMMA OrderNext ==
  ASSUME IInv, IInv', OrderInv, [Next]_vars
  PROVE  OrderInv'
<1>0. /\ numLevels \in Nat \ {0} /\ numLevels' \in Nat \ {0}
      /\ Len(frames) \in Nat /\ Len(frames') \in Nat
  BY FrameFacts DEF IInv, TypeInv
<1>1. CASE UNCHANGED <<numLevels, levels, pc, l0Ind, frames>>
  BY <1>1 DEF OrderInv
<1>2. ASSUME NEW key \in Keys, NEW version \in Version,
             PutWriteOut(key, version) \/ PutCompact(key, version)
      PROVE  OrderInv'
  <2> DEFINE block == MemtableBlock(memtable)
             blocks == levels[0].recordHashes
  <2>1. /\ pc = "idle" /\ numLevels' = numLevels
        /\ block \in GoodBlocks
        /\ levels'[0].recordHashes = Append(blocks, block)
        /\ \A i \in 1 .. numLevels - 1 : levels'[i] = levels[i]
    BY <1>2, WriteOutView
  <2>2. Bounded(block)
    <3>1. memtable \in PairMap(Keys)
      BY DEF IInv, TypeInv
    <3>2. block.kvPairs = memtable /\ block.kvPairs # << >> /\ DOMAIN memtable # {}
      <4>1. block.kvPairs = memtable
        BY DEF MemtableBlock
      <4>2. DOMAIN block.kvPairs # {}
        BY <2>1 DEF GoodBlocks
      <4> QED
        BY <4>1, <4>2
    <3> QED
      BY <3>1, <3>2, PairMapDomain, MadeBounded
  <2>3. blocks \in Seq(GoodBlocks)
    BY <1>0, SizeFacts
  <2> HIDE DEF block, blocks
  <2>4. AllBounded(Append(blocks, block))
    BY <2>1, <2>2, <2>3 DEF AllBounded, OrderInv, blocks
  <2>5. \A f \in 1 .. Len(frames') :
          Sorted(frames'[f].sourceVec) /\ Sorted(frames'[f].remainingBlocks)
    <3>1. CASE PutWriteOut(key, version)
      BY <3>1 DEF PutWriteOut, call, OrderInv
    <3>2. CASE PutCompact(key, version)
      <4> DEFINE first == levels'[0].recordHashes[1]
      <4>1. frames' = <<[sourceVec |-> <<first>>, remainingBlocks |-> << >>]>>
        <5>1. levels'[0] = addBlock(levels[0], MemtableBlock(memtable))
          BY <1>2, WriteOutView
        <5> QED
          BY <3>2, <5>1 DEF PutCompact
      <4>2. Bounded(first)
        <5>1. 1 \in DOMAIN Append(blocks, block)
          BY <2>3
        <5> QED
          BY <2>1, <2>4, <5>1 DEF AllBounded
      <4> HIDE DEF first
      <4>3. /\ \A f \in 1 .. Len(frames') : f = 1
            /\ frames'[1].sourceVec = <<first>> /\ frames'[1].remainingBlocks = << >>
        BY <4>1
      <4> QED
        BY <4>2, <4>3, SmallSorted, Zenon
    <3> QED
      BY <1>2, <3>1, <3>2
  <2> QED
    BY <2>1, <2>4, <2>5 DEF OrderInv
<1>3. CASE CompactMergeL0
  <2> DEFINE block == levels[0].recordHashes[l0Ind + 1]
             source == frames[1].sourceVec
  <2>1. /\ Len(frames) = 1 /\ Len(frames') = 1 /\ block \in GoodBlocks
        /\ frames'[1].sourceVec = merge(source, <<block>>)
        /\ frames'[1].remainingBlocks = frames[1].remainingBlocks
    BY <1>3, CompactMergeL0View
  <2>2. 1 \in 1 .. Len(frames)
    BY <2>1
  <2>3. source \in Seq(GoodBlocks) /\ Sorted(frames[1].remainingBlocks)
    BY <2>2, FrameFacts DEF OrderInv
  <2> HIDE DEF block, source
  <2>4. <<block>> \in Seq(GoodBlocks)
    BY <2>1
  <2>5. Sorted(merge(source, <<block>>))
    BY <2>3, <2>4, MergeSorted
  <2>6. \A f \in 1 .. Len(frames') : f = 1
    BY <2>1
  <2>7. \A f \in 1 .. Len(frames') :
          Sorted(frames'[f].sourceVec) /\ Sorted(frames'[f].remainingBlocks)
    BY <2>1, <2>3, <2>5, <2>6, Zenon
  <2> QED
    BY <1>3, <2>7 DEF OrderInv, CompactMergeL0, index
<1>4. CASE CompactCall
  BY <1>4, CompactCallView, GrowsSorted DEF OrderInv, CompactCall
<1>5. CASE HelperEvict
  <2> DEFINE n == EvictCount(Source, Dest)
  <2>1. /\ Grows /\ Depth \in 1 .. numLevels - 1
        /\ Len(frames') = Depth + 1
        /\ Dest \in Seq(GoodBlocks) /\ n \in 0 .. Len(Dest)
        /\ \A f \in 1 .. Depth - 1 : frames'[f] = frames[f]
        /\ frames'[Depth].sourceVec = Source
        /\ frames'[Depth].remainingBlocks = SubSeq(Dest, n + 1, Len(Dest))
        /\ frames'[Depth + 1].sourceVec = SubSeq(Dest, 1, n)
        /\ frames'[Depth + 1].remainingBlocks = << >>
    BY <1>5, HelperEvictView
  <2> HIDE DEF n
  <2>2. Sorted(Dest) /\ Sorted(Source)
    <3>1. Depth \in 1 .. Len(frames)
      BY <1>0, <2>1 DEF Depth
    <3> QED
      BY <2>1, <3>1 DEF OrderInv, Dest, Source
  <2>3. Sorted(SubSeq(Dest, 1, n)) /\ Sorted(SubSeq(Dest, n + 1, Len(Dest)))
    BY <2>1, <2>2, PartsSorted
  <2>4. ASSUME NEW f \in 1 .. Len(frames')
        PROVE  Sorted(frames'[f].sourceVec) /\ Sorted(frames'[f].remainingBlocks)
    <3>1. CASE f = Depth
      BY <2>1, <2>2, <2>3, <3>1, Zenon
    <3>2. CASE f = Depth + 1
      BY <2>1, <2>3, <3>2, SmallSorted, Zenon
    <3>3. CASE f # Depth /\ f # Depth + 1
      <4>1. f \in 1 .. Depth - 1 /\ f \in 1 .. Len(frames)
        BY <1>0, <2>1, <3>3 DEF Depth
      <4> QED
        BY <2>1, <4>1 DEF OrderInv
    <3> QED
      BY <3>1, <3>2, <3>3
  <2> QED
    BY <2>1, <2>4, GrowsSorted DEF OrderInv
<1>6. CASE HelperFits \/ HelperReturn
  <2>1. PICK kept \in Seq(GoodBlocks) :
          /\ Depth \in 1 .. numLevels - 1 /\ Depth = Len(frames) /\ Depth \in Nat
          /\ Source \in Seq(GoodBlocks)
          /\ numLevels' = numLevels
          /\ levels'[Depth].recordHashes = merge(Source, kept)
          /\ \A i \in 0 .. numLevels - 1 : i # Depth => levels'[i] = levels[i]
          /\ Len(frames') = Depth - 1
          /\ \A f \in 1 .. Depth - 1 : frames'[f] = frames[f]
    BY <1>6, HelperMergeView
  <2>2. Sorted(merge(Source, kept))
    BY <2>1, MergeSorted
  <2>3. ASSUME NEW i \in 1 .. numLevels' - 1
        PROVE  Sorted(levels'[i].recordHashes)
    <3>1. CASE i = Depth
      BY <2>1, <2>2, <3>1, Zenon
    <3>2. CASE i # Depth
      <4>1. i \in 1 .. numLevels - 1 /\ i \in 0 .. numLevels - 1
        BY <1>0, <2>1
      <4> QED
        BY <2>1, <3>2, <4>1 DEF OrderInv
    <3> QED
      BY <3>1, <3>2
  <2>4. \A f \in 1 .. Len(frames') :
          Sorted(frames'[f].sourceVec) /\ Sorted(frames'[f].remainingBlocks)
    <3>1. \A f \in 1 .. Len(frames') : f \in 1 .. Depth - 1 /\ f \in 1 .. Len(frames)
      BY <2>1
    <3> QED
      BY <2>1, <3>1 DEF OrderInv
  <2>5. levels'[0] = levels[0]
    BY <1>0, <2>1
  <2> QED
    BY <2>3, <2>4, <2>5 DEF OrderInv
<1>7. CASE CompactReturn
  <2>1. /\ frames' = frames /\ numLevels' = numLevels
        /\ levels'[0].recordHashes = << >>
        /\ \A i \in 1 .. numLevels - 1 : levels'[i] = levels[i]
    BY <1>7, CompactReturnView
  <2>2. AllBounded(levels'[0].recordHashes)
    BY <2>1, SmallSorted DEF Sorted
  <2> QED
    BY <2>1, <2>2 DEF OrderInv
<1> QED
  BY <1>1, <1>2, <1>3, <1>4, <1>5, <1>6, <1>7, StepCases
-----------------------------------------------------------------------------
(***************************************************************************)
(* The counts and the ranges of the levels.                                *)
(***************************************************************************)

InRange(level) ==
  /\ level.numBlocks = Len(level.recordHashes)
  /\ \A b \in DOMAIN level.recordHashes :
       /\ level.min_key <= level.recordHashes[b].minKey
       /\ level.max_key >= level.recordHashes[b].maxKey

\* addBlock would not take the level for empty.
Ranged(level) == level.min_key # EmptyKey /\ level.max_key # EmptyKey

RangeInv ==
  /\ \A i \in 1 .. numLevels - 1 : InRange(levels[i])
  /\ RangesValid => InRange(levels[0])
  /\ EmptyKey \notin Keys /\ levels[0].recordHashes # << >> => Ranged(levels[0])

\* A block's bounds are keys of its own.
LEMMA BoundsInKeys ==
  ASSUME NEW block \in GoodBlocks, Bounded(block)
  PROVE  /\ block.minKey \in Keys /\ block.maxKey \in Keys
         /\ block.minKey \in Nat /\ block.maxKey \in Nat
<1>1. block.kvPairs \in PairMap(Keys)
  BY DEF GoodBlocks, Block
<1> QED
  BY <1>1, PairMapDomain, KeysAssumption DEF Bounded

LEMMA addBlockRange ==
  ASSUME NEW level \in GoodLevels, NEW block \in GoodBlocks, Bounded(block)
  PROVE  /\ InRange(level) /\ (level.recordHashes = << >> \/ Ranged(level))
              => InRange(addBlock(level, block))
         /\ EmptyKey \notin Keys => Ranged(addBlock(level, block))
<1> DEFINE new == addBlock(level, block)
           empty == level.min_key = EmptyKey \/ level.max_key = EmptyKey
           blocks == level.recordHashes
<1>1. /\ level.min_key \in Nat /\ level.max_key \in Nat
      /\ blocks \in Seq(GoodBlocks)
  BY DEF GoodLevels, Level
<1>2. /\ block.minKey \in Keys /\ block.maxKey \in Keys
      /\ block.minKey \in Nat /\ block.maxKey \in Nat
  BY BoundsInKeys
<1>3. /\ new.recordHashes = Append(blocks, block)
      /\ new.numBlocks = level.numBlocks + 1
      /\ new.min_key = IF empty THEN block.minKey ELSE Min({level.min_key, block.minKey})
      /\ new.max_key = IF empty THEN block.maxKey ELSE Max({level.max_key, block.maxKey})
  BY DEF addBlock
<1>4. /\ Min({level.min_key, block.minKey}) \in {level.min_key, block.minKey}
      /\ Min({level.min_key, block.minKey}) <= level.min_key
      /\ Min({level.min_key, block.minKey}) <= block.minKey
  <2>1. {level.min_key, block.minKey} \in SUBSET Nat /\ {level.min_key, block.minKey} # {}
    BY <1>1, <1>2
  <2> QED
    BY <2>1, MinNat
<1>5. /\ Max({level.max_key, block.maxKey}) \in {level.max_key, block.maxKey}
      /\ Max({level.max_key, block.maxKey}) >= level.max_key
      /\ Max({level.max_key, block.maxKey}) >= block.maxKey
  BY <1>1, <1>2, PairMinMax
<1> HIDE DEF new, empty, blocks
<1>6. new.min_key <= block.minKey /\ new.max_key >= block.maxKey
  BY <1>2, <1>3, <1>4, <1>5
<1>7. ~ empty => new.min_key <= level.min_key /\ new.max_key >= level.max_key
  BY <1>3, <1>4, <1>5
<1>8. ASSUME InRange(level), blocks = << >> \/ ~ empty
      PROVE  InRange(new)
  <2>1. Len(blocks) \in Nat /\ DOMAIN blocks = 1 .. Len(blocks)
        /\ level.numBlocks = Len(blocks)
    BY <1>1, <1>8, LenProperties DEF InRange, blocks
  <2>2. /\ Len(new.recordHashes) = Len(blocks) + 1
        /\ DOMAIN new.recordHashes = 1 .. Len(blocks) + 1
        /\ new.recordHashes[Len(blocks) + 1] = block
        /\ \A b \in 1 .. Len(blocks) : new.recordHashes[b] = blocks[b]
    BY <1>1, <1>3, AppendProperties
  <2>3. ASSUME NEW b \in 1 .. Len(blocks) + 1
        PROVE  /\ new.min_key <= new.recordHashes[b].minKey
               /\ new.max_key >= new.recordHashes[b].maxKey
    <3>1. CASE b = Len(blocks) + 1
      BY <1>6, <2>2, <3>1, Zenon
    <3>2. CASE b # Len(blocks) + 1
      <4>1. b \in 1 .. Len(blocks) /\ 1 <= Len(blocks)
        BY <2>1, <3>2
      <4>2. ~ empty
        <5>1. Len(<< >>) = 0 /\ ~ (1 <= 0)
          OBVIOUS
        <5> QED
          BY <1>8, <4>1, <5>1
      <4>3. /\ level.min_key <= blocks[b].minKey /\ level.max_key >= blocks[b].maxKey
            /\ new.recordHashes[b] = blocks[b]
        BY <1>8, <2>1, <2>2, <4>1 DEF InRange, blocks
      <4>4. blocks[b].minKey \in Nat /\ blocks[b].maxKey \in Nat
        BY <1>1, <2>1, <4>1, BlockFacts, GoodBlocksAreBlocks
      <4>5. new.min_key \in Nat /\ new.max_key \in Nat
        BY <1>1, <1>2, <1>3, <1>4, <1>5
      <4> QED
        BY <1>1, <1>7, <4>2, <4>3, <4>4, <4>5
    <3> QED
      BY <3>1, <3>2
  <2>4. new.numBlocks = Len(new.recordHashes)
    BY <1>3, <2>1, <2>2
  <2> QED
    BY <2>2, <2>3, <2>4 DEF InRange
<1>9. ASSUME EmptyKey \notin Keys
      PROVE  Ranged(new)
  <2>1. block.minKey # EmptyKey /\ block.maxKey # EmptyKey
    BY <1>2, <1>9
  <2> QED
    BY <1>3, <1>4, <1>5, <2>1 DEF Ranged, empty
<1> QED
  BY <1>8, <1>9 DEF Ranged, new, empty, blocks

LEMMA WithBlocksRange ==
  ASSUME NEW level \in GoodLevels, NEW blocks \in Seq(GoodBlocks), Sorted(blocks)
  PROVE  InRange(WithBlocks(level, blocks))
<1> DEFINE new == WithBlocks(level, blocks)
<1>1. /\ new.recordHashes = blocks /\ new.numBlocks = Len(blocks)
      /\ blocks # << >> => /\ new.min_key = blocks[1].minKey
                           /\ new.max_key = blocks[Len(blocks)].maxKey
  BY DEF WithBlocks
<1>2. Len(blocks) \in Nat /\ DOMAIN blocks = 1 .. Len(blocks)
  BY LenProperties
<1> HIDE DEF new
<1>3. ASSUME NEW b \in DOMAIN blocks
      PROVE  new.min_key <= blocks[b].minKey /\ new.max_key >= blocks[b].maxKey
  <2>1. /\ blocks # << >> /\ 1 \in DOMAIN blocks /\ Len(blocks) \in DOMAIN blocks
        /\ b \in Nat /\ 1 <= b /\ b <= Len(blocks)
    <3>1. b \in Nat /\ 1 <= b /\ b <= Len(blocks)
      BY <1>2
    <3>2. Len(<< >>) = 0 /\ ~ (1 <= 0)
      OBVIOUS
    <3>3. blocks # << >>
      BY <1>2, <3>1, <3>2
    <3> QED
      BY <1>2, <3>1, <3>3
  <2>2. \A c \in DOMAIN blocks :
          /\ blocks[c].minKey \in DOMAIN blocks[c].kvPairs
          /\ blocks[c].maxKey \in DOMAIN blocks[c].kvPairs
          /\ blocks[c].minKey \in Nat /\ blocks[c].maxKey \in Nat
    <3>1. \A c \in DOMAIN blocks : blocks[c] \in GoodBlocks /\ Bounded(blocks[c])
      BY BlockFacts DEF Sorted, AllBounded
    <3> QED
      BY <3>1, BoundsInKeys DEF Bounded
  <2>3. blocks[1].minKey <= blocks[b].minKey
    <3>1. CASE b = 1
      BY <2>1, <2>2, <3>1
    <3>2. CASE b # 1
      <4>1. 1 < b
        BY <2>1, <3>2
      <4>2. blocks[1].minKey < blocks[b].minKey
        BY <2>1, <2>2, <4>1 DEF Sorted, InKeyOrder
      <4> QED
        BY <2>1, <2>2, <4>2
    <3> QED
      BY <3>1, <3>2
  <2>4. blocks[Len(blocks)].maxKey >= blocks[b].maxKey
    <3>1. CASE b = Len(blocks)
      BY <2>1, <2>2, <3>1
    <3>2. CASE b # Len(blocks)
      <4>1. b < Len(blocks)
        BY <1>2, <2>1, <3>2
      <4>2. blocks[b].maxKey < blocks[Len(blocks)].maxKey
        BY <2>1, <2>2, <4>1 DEF Sorted, InKeyOrder
      <4> QED
        BY <2>1, <2>2, <4>2
    <3> QED
      BY <3>1, <3>2
  <2> QED
    BY <1>1, <2>1, <2>3, <2>4, Zenon
<1> QED
  BY <1>1, <1>3 DEF InRange, new

\* An empty level, as addLevel makes it.
LEMMA EmptyInRange ==
  ASSUME NEW level, level.recordHashes = << >>, level.numBlocks = 0
  PROVE  InRange(level)
<1>1. DOMAIN << >> = {} /\ Len(<< >>) = 0
  OBVIOUS
<1> QED
  BY <1>1 DEF InRange

LEMMA RangeInit == Init => RangeInv
<1> SUFFICES ASSUME Init
             PROVE  RangeInv
  OBVIOUS
<1>1. 1 .. numLevels - 1 = {}
  BY DEF Init
<1>2. levels[0].recordHashes = << >> /\ levels[0].numBlocks = 0
  BY DEF Init, NewLevel
<1> QED
  BY <1>1, <1>2, EmptyInRange DEF RangeInv

LEMMA GrowsInRange ==
  ASSUME IInv, RangeInv, Grows, pc # "idle"
  PROVE  /\ \A i \in 1 .. numLevels' - 1 : InRange(levels'[i])
         /\ levels'[0] = levels[0]
<1>1. numLevels \in Nat \ {0} /\ numLevels' \in Nat
  BY DEF IInv, TypeInv, Grows
<1>2. ASSUME NEW i \in 1 .. numLevels' - 1
      PROVE  InRange(levels'[i])
  <2>1. CASE i < numLevels
    <3>1. i \in 1 .. numLevels - 1 /\ i \in 0 .. numLevels - 1
      BY <1>1, <2>1
    <3> QED
      BY <3>1 DEF Grows, RangeInv
  <2>2. CASE ~ (i < numLevels)
    <3>1. PICK n \in Nat : n = numLevels'
      BY <1>1
    <3>2. i \in 1 .. n - 1
      BY <3>1
    <3>3. i \in numLevels .. n - 1
      BY <1>1, <2>2, <3>2
    <3>4. i \in numLevels .. numLevels' - 1
      BY <3>1, <3>3
    <3> QED
      BY <3>4, EmptyInRange DEF Grows
  <2> QED
    BY <2>1, <2>2
<1>3. 0 \in 0 .. numLevels - 1
  BY <1>1
<1> QED
  BY <1>2, <1>3 DEF Grows

\* Every step keeps the levels' counts and ranges.
LEMMA RangeNext ==
  ASSUME IInv, IInv', OrderInv, RangeInv, [Next]_vars
  PROVE  RangeInv'
<1>0. /\ numLevels \in Nat \ {0} /\ numLevels' \in Nat \ {0}
      /\ 0 \in 0 .. numLevels - 1 /\ levels[0] \in GoodLevels
      /\ levels[0].recordHashes \in Seq(GoodBlocks)
  BY SizeFacts DEF IInv, TypeInv
<1>1. CASE UNCHANGED <<numLevels, levels, pc, l0Ind, frames>>
  BY <1>1 DEF RangeInv, RangesValid
<1>2. ASSUME NEW key \in Keys, NEW version \in Version,
             PutWriteOut(key, version) \/ PutCompact(key, version)
      PROVE  RangeInv'
  <2> DEFINE block == MemtableBlock(memtable)
  <2>1. /\ pc = "idle" /\ numLevels' = numLevels
        /\ block \in GoodBlocks
        /\ levels'[0] = addBlock(levels[0], block)
        /\ levels'[0].recordHashes = Append(levels[0].recordHashes, block)
        /\ \A i \in 1 .. numLevels - 1 : levels'[i] = levels[i]
    BY <1>2, WriteOutView
  <2>2. Bounded(block)
    <3>1. memtable \in PairMap(Keys)
      BY DEF IInv, TypeInv
    <3>2. block.kvPairs = memtable
      BY DEF MemtableBlock
    <3>3. DOMAIN block.kvPairs # {}
      BY <2>1 DEF GoodBlocks
    <3> QED
      BY <3>1, <3>2, <3>3, PairMapDomain, MadeBounded
  <2> HIDE DEF block
  <2>3. InRange(levels[0])
    BY <2>1 DEF RangeInv, RangesValid
  <2>4. EmptyKey \notin Keys => Ranged(levels'[0])
    BY <1>0, <2>1, <2>2, addBlockRange
  <2>5. RangesValid' => InRange(levels'[0])
    <3>1. CASE EmptyKey \notin Keys
      BY <1>0, <2>1, <2>2, <2>3, <3>1, addBlockRange DEF RangeInv
    <3>2. CASE pc' = "idle"
      <4>1. Len(levels'[0].recordHashes) <= 1
        BY <3>2 DEF IInv, SizeInv
      <4>2. Len(levels'[0].recordHashes) = Len(levels[0].recordHashes) + 1
        BY <1>0, <2>1, AppendProperties
      <4>3. levels[0].recordHashes = << >>
        <5>1. Len(levels[0].recordHashes) = 0
          BY <1>0, <4>1, <4>2, LenProperties
        <5> QED
          BY <1>0, <5>1, EmptySeq
      <4> QED
        BY <1>0, <2>1, <2>2, <2>3, <4>3, addBlockRange
    <3> QED
      BY <3>1, <3>2 DEF RangesValid
  <2> QED
    BY <2>1, <2>4, <2>5 DEF RangeInv
<1>3. CASE CompactMergeL0
  BY <1>3 DEF CompactMergeL0, index, RangeInv, RangesValid
<1>4. CASE CompactCall \/ HelperEvict
  <2>1. Grows /\ pc # "idle" /\ pc' # "idle"
    BY <1>4, CompactCallView, HelperEvictView DEF CompactCall, HelperEvict
  <2> QED
    BY <2>1, GrowsInRange DEF RangeInv, RangesValid
<1>5. CASE HelperFits \/ HelperReturn
  <2>1. PICK kept \in Seq(GoodBlocks) :
          /\ pc \in {"compactHelper", "return"} /\ pc' = "return"
          /\ Depth \in 1 .. numLevels - 1 /\ Depth = Len(frames) /\ Depth \in Nat
          /\ Source \in Seq(GoodBlocks)
          /\ numLevels' = numLevels
          /\ levels'[Depth] = WithBlocks(levels[Depth], merge(Source, kept))
          /\ \A i \in 0 .. numLevels - 1 : i # Depth => levels'[i] = levels[i]
    BY <1>5, HelperMergeView
  <2>2. Depth \in 0 .. numLevels - 1 /\ Depth # 0
    BY <1>0, <2>1
  <2>3. InRange(levels'[Depth])
    <3>1. levels[Depth] \in GoodLevels /\ merge(Source, kept) \in Seq(GoodBlocks)
      BY <2>1, <2>2, SizeFacts, MergeType
    <3>2. Sorted(merge(Source, kept))
      BY <2>1, MergeSorted
    <3>3. InRange(WithBlocks(levels[Depth], merge(Source, kept)))
      BY <3>1, <3>2, WithBlocksRange
    <3> QED
      BY <2>1, <3>3, Zenon
  <2>4. ASSUME NEW i \in 1 .. numLevels - 1
        PROVE  InRange(levels'[i])
    <3>1. CASE i = Depth
      BY <2>3, <3>1
    <3>2. CASE i # Depth
      <4>1. i \in 0 .. numLevels - 1
        BY <1>0
      <4> QED
        BY <2>1, <3>2, <4>1 DEF RangeInv
    <3> QED
      BY <3>1, <3>2
  <2>5. levels'[0] = levels[0]
    BY <1>0, <2>1, <2>2
  <2> QED
    BY <2>1, <2>4, <2>5 DEF RangeInv, RangesValid
<1>6. CASE CompactReturn
  <2>1. /\ numLevels' = numLevels
        /\ levels'[0] = WithBlocks(levels[0], << >>)
        /\ levels'[0].recordHashes = << >>
        /\ \A i \in 1 .. numLevels - 1 : levels'[i] = levels[i]
    BY <1>6, CompactReturnView
  <2>2. InRange(levels'[0])
    <3>1. WithBlocks(levels[0], << >>).numBlocks = Len(<< >>) /\ Len(<< >>) = 0
      BY DEF WithBlocks
    <3> QED
      BY <2>1, <3>1, EmptyInRange
  <2> QED
    BY <2>1, <2>2 DEF RangeInv
<1> QED
  BY <1>1, <1>2, <1>3, <1>4, <1>5, <1>6, StepCases
-----------------------------------------------------------------------------
(***************************************************************************)
(* Where the pairs are while a compaction runs.                            *)
(***************************************************************************)

\* While a put compacts, its memtable is also the last block of level 0.
MemInv ==
  pc # "idle" =>
    LET blocks == levels[0].recordHashes
    IN  Len(blocks) >= 1 /\ blocks[Len(blocks)].kvPairs = memtable

\* What the call at depth f has set aside, and what it has passed on: the
\* source blocks of the call below it, or the level that call has written.
Kept(f) == IF f = 0 THEN << >> ELSE frames[f].remainingBlocks
Below(f) == IF f < Len(frames) THEN frames[f + 1].sourceVec
                               ELSE levels[f + 1].recordHashes

\* The blocks of level 0 merged so far are in the source blocks; and a level
\* that was taken apart is covered by what was set aside and passed on.
CoverInv ==
  /\ pc = "compact" =>
       /\ l0Ind \in 1 .. Len(levels[0].recordHashes)
       /\ \A b \in 1 .. l0Ind : \A key \in DOMAIN levels[0].recordHashes[b].kvPairs :
            Covers(frames[1].sourceVec, key, levels[0].recordHashes[b].kvPairs[key])
  /\ pc \in {"compactHelper", "return"} =>
       \A f \in 0 .. Len(frames) :
         Pending(f) => CoveredBy(levels[f].recordHashes, Kept(f), Below(f))
  /\ pc = "return" => Len(frames) + 1 \in 1 .. numLevels - 1

LEMMA MemNext ==
  ASSUME IInv, MemInv, [Next]_vars
  PROVE  MemInv'
<1>0. numLevels \in Nat \ {0} /\ 0 \in 0 .. numLevels - 1
  BY DEF IInv, TypeInv
<1>1. CASE UNCHANGED <<numLevels, levels, pc, l0Ind, frames>> /\
           (pc # "idle" => UNCHANGED memtable)
  BY <1>1 DEF MemInv
<1>2. ASSUME NEW key \in Keys, NEW version \in Version,
             PutWriteOut(key, version) \/ PutCompact(key, version)
      PROVE  MemInv'
  <2>1. CASE PutWriteOut(key, version)
    BY <2>1 DEF PutWriteOut, call, MemInv
  <2>2. CASE PutCompact(key, version)
    <3> DEFINE block == MemtableBlock(memtable)
               blocks == levels[0].recordHashes
    <3>1. levels'[0].recordHashes = Append(blocks, block) /\ block \in GoodBlocks
      BY <1>2, WriteOutView
    <3>2. block.kvPairs = memtable /\ memtable' = memtable
      BY <2>2 DEF PutCompact, MemtableBlock
    <3>3. blocks \in Seq(GoodBlocks) /\ Len(blocks) \in Nat
      BY <1>0, SizeFacts
    <3> HIDE DEF block, blocks
    <3>4. /\ Len(Append(blocks, block)) = Len(blocks) + 1
          /\ Append(blocks, block)[Len(blocks) + 1] = block
      BY <3>1, <3>3, AppendProperties
    <3>5. Len(levels'[0].recordHashes) >= 1
      BY <3>1, <3>3, <3>4
    <3>6. levels'[0].recordHashes[Len(levels'[0].recordHashes)] = block
      BY <3>1, <3>4, Zenon
    <3> QED
      BY <3>2, <3>5, <3>6 DEF MemInv
  <2> QED
    BY <1>2, <2>1, <2>2
<1>3. CASE CompactMergeL0
  BY <1>3 DEF CompactMergeL0, index, MemInv
<1>4. CASE CompactCall \/ HelperEvict
  <2>1. Grows /\ pc # "idle" /\ UNCHANGED memtable
    BY <1>4, CompactCallView, HelperEvictView DEF CompactCall, HelperEvict
  <2>2. levels'[0] = levels[0]
    BY <1>0, <2>1 DEF Grows
  <2> QED
    BY <2>1, <2>2 DEF MemInv
<1>5. CASE HelperFits \/ HelperReturn
  <2>1. /\ pc # "idle" /\ UNCHANGED memtable /\ Depth \in 1 .. numLevels - 1
        /\ \A i \in 0 .. numLevels - 1 : i # Depth => levels'[i] = levels[i]
    BY <1>5, HelperMergeView
  <2>2. levels'[0] = levels[0]
    BY <1>0, <2>1
  <2> QED
    BY <2>1, <2>2 DEF MemInv
<1>6. CASE CompactReturn
  BY <1>6 DEF CompactReturn, MemInv
<1> QED
  BY <1>1, <1>2, <1>3, <1>4, <1>5, <1>6, StepCases

\* merge covers what its arguments cover.
LEMMA MergeCovers ==
  ASSUME NEW a \in Seq(GoodBlocks), NEW b \in Seq(GoodBlocks),
         Sorted(a), Sorted(b),
         NEW key, NEW version, version.txn_timestamp \in Int,
         Covers(a, key, version) \/ Covers(b, key, version)
  PROVE  Covers(merge(a, b), key, version)
<1> DEFINE m == merge(a, b)
<1>1. m \in Seq(GoodBlocks)
  BY MergeType
<1>2. /\ \A i \in DOMAIN a : \A k \in DOMAIN a[i].kvPairs :
           Covers(m, k, a[i].kvPairs[k])
      /\ \A i \in DOMAIN b : \A k \in DOMAIN b[i].kvPairs :
           Covers(m, k, b[i].kvPairs[k])
  BY MergeKeeps DEF Sorted
<1> HIDE DEF m
<1>3. ASSUME NEW other, other.txn_timestamp \in Int, Covers(m, key, other),
             other.txn_timestamp >= version.txn_timestamp
      PROVE  Covers(m, key, version)
  <2>1. PICK i \in DOMAIN m : /\ key \in DOMAIN m[i].kvPairs
                              /\ m[i].kvPairs[key].txn_timestamp >= other.txn_timestamp
    BY <1>3 DEF Covers
  <2>2. m[i].kvPairs[key].txn_timestamp \in Int
    BY <1>1, <2>1, BlockFacts
  <2>3. m[i].kvPairs[key].txn_timestamp >= version.txn_timestamp
    BY <1>3, <2>1, <2>2
  <2> QED
    BY <2>1, <2>3 DEF Covers
<1>4. CASE Covers(a, key, version)
  <2>1. PICK i \in DOMAIN a : /\ key \in DOMAIN a[i].kvPairs
                              /\ a[i].kvPairs[key].txn_timestamp >= version.txn_timestamp
    BY <1>4 DEF Covers
  <2>2. a[i].kvPairs[key].txn_timestamp \in Int /\ Covers(m, key, a[i].kvPairs[key])
    BY <1>2, <2>1, BlockFacts
  <2> QED
    BY <1>3, <2>1, <2>2 DEF m
<1>5. CASE Covers(b, key, version)
  <2>1. PICK i \in DOMAIN b : /\ key \in DOMAIN b[i].kvPairs
                              /\ b[i].kvPairs[key].txn_timestamp >= version.txn_timestamp
    BY <1>5 DEF Covers
  <2>2. b[i].kvPairs[key].txn_timestamp \in Int /\ Covers(m, key, b[i].kvPairs[key])
    BY <1>2, <2>1, BlockFacts
  <2> QED
    BY <1>3, <2>1, <2>2 DEF m
<1> QED
  BY <1>4, <1>5

\* A list covers itself, and its two parts cover it.
LEMMA CoversItself ==
  ASSUME NEW s \in Seq(GoodBlocks), NEW i \in DOMAIN s, NEW key \in DOMAIN s[i].kvPairs
  PROVE  Covers(s, key, s[i].kvPairs[key])
<1>1. s[i].kvPairs[key].txn_timestamp \in Int
  BY BlockFacts
<1>2. s[i].kvPairs[key].txn_timestamp >= s[i].kvPairs[key].txn_timestamp
  BY <1>1
<1> QED
  BY <1>2 DEF Covers

LEMMA PartsCover ==
  ASSUME NEW s \in Seq(GoodBlocks), NEW n \in 0 .. Len(s)
  PROVE  CoveredBy(s, SubSeq(s, n + 1, Len(s)), SubSeq(s, 1, n))
<1> DEFINE front == SubSeq(s, 1, n)
           rest == SubSeq(s, n + 1, Len(s))
           l == Len(s)
<1>1. l \in Nat /\ n \in Nat /\ n <= l /\ DOMAIN s = 1 .. l
  BY LenProperties
<1>2. /\ DOMAIN front = 1 .. n /\ \A i \in 1 .. n : front[i] = s[i]
      /\ DOMAIN rest = 1 .. (l - n) /\ \A i \in 1 .. (l - n) : rest[i] = s[n + i]
  BY PartElements
<1> HIDE DEF front, rest, l
<1>3. ASSUME NEW i \in DOMAIN s, NEW key \in DOMAIN s[i].kvPairs
      PROVE  Covers(rest, key, s[i].kvPairs[key]) \/ Covers(front, key, s[i].kvPairs[key])
  <2>1. s[i].kvPairs[key].txn_timestamp >= s[i].kvPairs[key].txn_timestamp
    <3>1. s[i].kvPairs[key].txn_timestamp \in Int
      BY BlockFacts
    <3> QED
      BY <3>1
  <2>2. CASE i <= n
    <3>1. i \in DOMAIN front /\ front[i] = s[i]
      BY <1>1, <1>2, <2>2
    <3> QED
      BY <2>1, <3>1 DEF Covers
  <2>3. CASE ~ (i <= n)
    <3>1. i - n \in 1 .. (l - n) /\ n + (i - n) = i
      BY <1>1, <2>3
    <3>2. i - n \in DOMAIN rest /\ rest[i - n] = s[i]
      <4> DEFINE j == i - n
      <4>1. j \in 1 .. (l - n) /\ n + j = i
        BY <3>1
      <4> HIDE DEF j
      <4>2. rest[j] = s[n + j]
        BY <1>2, <4>1
      <4> QED
        BY <1>2, <4>1, <4>2 DEF j
    <3> QED
      BY <2>1, <3>2 DEF Covers
  <2> QED
    BY <2>2, <2>3
<1> QED
  BY <1>3 DEF CoveredBy, front, rest, l
\* compact merges one more block of level 0.
LEMMA CoverMergeL0 ==
  ASSUME IInv, OrderInv, CoverInv, CompactMergeL0
  PROVE  CoverInv'
<1> DEFINE blocks == levels[0].recordHashes
           next == blocks[l0Ind + 1]
           source == frames[1].sourceVec
<1>1. /\ Len(frames) = 1 /\ Len(frames') = 1
      /\ l0Ind + 1 \in DOMAIN blocks /\ l0Ind' = l0Ind + 1
      /\ next \in GoodBlocks
      /\ frames'[1].sourceVec = merge(source, <<next>>)
  BY CompactMergeL0View
<1>2. pc = "compact" /\ pc' = "compact" /\ levels' = levels
  BY DEF CompactMergeL0, index
<1>3. 1 \in 1 .. Len(frames) /\ 0 \in 0 .. numLevels - 1
  BY <1>1 DEF IInv, TypeInv
<1>4. /\ source \in Seq(GoodBlocks) /\ Sorted(source)
      /\ blocks \in Seq(GoodBlocks) /\ AllBounded(blocks)
  BY <1>3, FrameFacts, SizeFacts DEF OrderInv
<1>5. /\ l0Ind \in 1 .. Len(blocks)
      /\ \A b \in 1 .. l0Ind : \A key \in DOMAIN blocks[b].kvPairs :
           Covers(source, key, blocks[b].kvPairs[key])
  BY <1>2 DEF CoverInv
<1>6. Len(blocks) \in Nat /\ DOMAIN blocks = 1 .. Len(blocks) /\ l0Ind \in Nat
  BY <1>4, <1>5, LenProperties
<1>7. <<next>> \in Seq(GoodBlocks) /\ Sorted(<<next>>)
  <2>1. Bounded(next)
    BY <1>1, <1>4 DEF AllBounded
  <2> HIDE DEF next
  <2> QED
    BY <1>1, <2>1, SmallSorted
<1>8. \A key \in DOMAIN next.kvPairs : Covers(<<next>>, key, next.kvPairs[key])
  <2> HIDE DEF next
  <2>1. 1 \in DOMAIN <<next>> /\ <<next>>[1] = next
    OBVIOUS
  <2> QED
    BY <1>7, <2>1, CoversItself
<1> HIDE DEF blocks, source
<1>9. ASSUME NEW b \in 1 .. (l0Ind + 1), NEW key \in DOMAIN blocks[b].kvPairs
      PROVE  Covers(merge(source, <<next>>), key, blocks[b].kvPairs[key])
  <2>1. b \in DOMAIN blocks
    BY <1>1, <1>6, <1>9
  <2>2. blocks[b].kvPairs[key].txn_timestamp \in Int
    BY <1>4, <2>1, BlockFacts
  <2>3. Covers(source, key, blocks[b].kvPairs[key])
        \/ Covers(<<next>>, key, blocks[b].kvPairs[key])
    <3>1. CASE b = l0Ind + 1
      BY <1>8, <1>9, <3>1
    <3>2. CASE b # l0Ind + 1
      <4>1. b \in 1 .. l0Ind
        BY <1>6, <3>2
      <4> QED
        BY <1>5, <1>9, <4>1
    <3> QED
      BY <3>1, <3>2
  <2> QED
    BY <1>4, <1>7, <2>2, <2>3, MergeCovers
<1>10. l0Ind' \in 1 .. Len(levels'[0].recordHashes)
  BY <1>1, <1>2, <1>6 DEF blocks
<1>11. \A b \in 1 .. l0Ind' : \A key \in DOMAIN levels'[0].recordHashes[b].kvPairs :
         Covers(frames'[1].sourceVec, key, levels'[0].recordHashes[b].kvPairs[key])
  BY <1>1, <1>2, <1>9 DEF blocks
<1> QED
  BY <1>2, <1>10, <1>11 DEF CoverInv

\* compact calls compactHelper: level 0 is all in the source blocks.
LEMMA CoverCall ==
  ASSUME IInv, CoverInv, CompactCall
  PROVE  CoverInv'
<1> DEFINE blocks == levels[0].recordHashes
<1>1. Grows /\ Len(frames) = 1
  BY CompactCallView
<1>2. /\ pc = "compact" /\ pc' = "compactHelper" /\ l0Ind >= Len(blocks)
      /\ frames' = frames
  BY DEF CompactCall
<1>3. 0 \in 0 .. numLevels - 1
  BY DEF IInv, TypeInv
<1>4. levels'[0] = levels[0]
  BY <1>1, <1>3 DEF Grows
<1>5. blocks \in Seq(GoodBlocks)
  BY <1>3, SizeFacts
<1>6. /\ l0Ind \in 1 .. Len(blocks)
      /\ \A b \in 1 .. l0Ind : \A key \in DOMAIN blocks[b].kvPairs :
           Covers(frames[1].sourceVec, key, blocks[b].kvPairs[key])
  BY <1>2 DEF CoverInv
<1>7. Len(blocks) \in Nat /\ DOMAIN blocks = 1 .. Len(blocks) /\ l0Ind = Len(blocks)
  BY <1>2, <1>5, <1>6, LenProperties
<1>8. \A f \in 0 .. Len(frames') : Pending(f)' => f = 0
  <2>1. Len(frames') = 1
    BY <1>1, <1>2
  <2>2. \A f \in 0 .. Len(frames') : f \in 0 .. 1
    BY <2>1
  <2>3. \A f \in 0 .. 1 : Pending(f)' => f < 1
    BY <1>2, <2>1 DEF Pending
  <2>4. \A f \in 0 .. 1 : f < 1 => f = 0
    OBVIOUS
  <2> QED
    BY <2>2, <2>3, <2>4
<1>9. Kept(0)' = << >> /\ Below(0)' = frames[1].sourceVec
  <2>1. 0 < Len(frames') /\ 0 + 1 = 1
    BY <1>1, <1>2
  <2> QED
    BY <1>2, <2>1 DEF Kept, Below
<1>10. CoveredBy(levels'[0].recordHashes, Kept(0)', Below(0)')
  BY <1>4, <1>6, <1>7, <1>9 DEF CoveredBy
<1>11. \A f \in 0 .. Len(frames') :
         Pending(f)' => CoveredBy(levels'[f].recordHashes, Kept(f)', Below(f)')
  BY <1>8, <1>10
<1> QED
  BY <1>2, <1>11 DEF CoverInv

\* compactHelper splits its level: the two parts cover it.
LEMMA CoverEvict ==
  ASSUME IInv, CoverInv, HelperEvict
  PROVE  CoverInv'
<1> DEFINE n == EvictCount(Source, Dest)
<1>1. /\ Grows /\ Depth \in 1 .. numLevels - 1
      /\ Len(frames') = Depth + 1
      /\ Dest \in Seq(GoodBlocks) /\ n \in 0 .. Len(Dest)
      /\ \A f \in 1 .. Depth - 1 : frames'[f] = frames[f]
      /\ frames'[Depth].sourceVec = Source
      /\ frames'[Depth].remainingBlocks = SubSeq(Dest, n + 1, Len(Dest))
      /\ frames'[Depth + 1].sourceVec = SubSeq(Dest, 1, n)
  BY HelperEvictView
<1> HIDE DEF n
<1>2. pc = "compactHelper" /\ pc' = "compactHelper" /\ Len(frames) = Depth
  BY DEF HelperEvict, Depth
<1>3. Depth \in Nat /\ numLevels \in Nat /\ 1 <= Depth /\ Depth <= numLevels - 1
  BY <1>1 DEF IInv, TypeInv
<1>4. ASSUME NEW f \in 0 .. Len(frames'), Pending(f)'
      PROVE  CoveredBy(levels'[f].recordHashes, Kept(f)', Below(f)')
  <2>1. f \in 0 .. Depth /\ f \in Nat /\ f < Len(frames') /\ f \in 0 .. numLevels - 1
    BY <1>1, <1>2, <1>3, <1>4 DEF Pending
  <2>2. levels'[f] = levels[f] /\ Below(f)' = frames'[f + 1].sourceVec
    BY <1>1, <2>1 DEF Grows, Below
  <2>3. CASE f = Depth
    <3>1. levels'[f].recordHashes = Dest
      BY <2>2, <2>3 DEF Dest
    <3>2. Kept(f)' = SubSeq(Dest, n + 1, Len(Dest))
      BY <1>1, <1>3, <2>3 DEF Kept
    <3>3. Below(f)' = SubSeq(Dest, 1, n)
      BY <1>1, <2>2, <2>3
    <3> QED
      BY <1>1, <3>1, <3>2, <3>3, PartsCover
  <2>4. CASE f # Depth
    <3>1. f < Len(frames) /\ f \in 0 .. Len(frames) /\ f + 1 \in 1 .. Depth
      BY <1>2, <1>3, <2>1, <2>4
    <3>2. CoveredBy(levels[f].recordHashes, Kept(f), Below(f))
      BY <1>2, <3>1 DEF CoverInv, Pending
    <3>3. Kept(f)' = Kept(f)
      <4>1. CASE f = 0
        BY <4>1 DEF Kept
      <4>2. CASE f # 0
        <5>1. f \in 1 .. Depth - 1
          BY <1>3, <2>1, <2>4, <4>2
        <5> QED
          BY <1>1, <5>1 DEF Kept
      <4> QED
        BY <4>1, <4>2
    <3>4. frames'[f + 1].sourceVec = frames[f + 1].sourceVec
      <4>1. CASE f + 1 = Depth
        BY <1>1, <4>1 DEF Source
      <4>2. CASE f + 1 # Depth
        <5>1. f + 1 \in 1 .. Depth - 1
          BY <1>3, <3>1, <4>2
        <5> QED
          BY <1>1, <5>1
      <4> QED
        BY <4>1, <4>2
    <3>5. Below(f)' = Below(f)
      BY <2>2, <3>1, <3>4 DEF Below
    <3> QED
      BY <2>2, <3>2, <3>3, <3>5
  <2> QED
    BY <2>3, <2>4
<1> QED
  BY <1>2, <1>4 DEF CoverInv

\* compactHelper merges its source blocks into its level.
LEMMA CoverMerge ==
  ASSUME IInv, OrderInv, CoverInv, HelperFits \/ HelperReturn
  PROVE  CoverInv'
<1>1. PICK kept \in Seq(GoodBlocks) :
        /\ kept = IF pc = "compactHelper" THEN Dest ELSE frames[Depth].remainingBlocks
        /\ pc \in {"compactHelper", "return"} /\ pc' = "return"
        /\ Depth \in 1 .. numLevels - 1 /\ Depth = Len(frames) /\ Depth \in Nat
        /\ Source \in Seq(GoodBlocks)
        /\ numLevels' = numLevels
        /\ levels'[Depth].recordHashes = merge(Source, kept)
        /\ \A i \in 0 .. numLevels - 1 : i # Depth => levels'[i] = levels[i]
        /\ Len(frames') = Depth - 1
        /\ \A f \in 1 .. Depth - 1 : frames'[f] = frames[f]
  BY HelperMergeView
<1>2. numLevels \in Nat /\ 1 <= Depth /\ Depth <= numLevels - 1 /\ Depth \in 1 .. Len(frames)
  BY <1>1 DEF IInv, TypeInv
<1>3. Sorted(Source) /\ Sorted(kept)
  BY <1>1, <1>2 DEF OrderInv, Source, Dest
<1>4. ASSUME NEW f \in 0 .. Len(frames')
      PROVE  CoveredBy(levels'[f].recordHashes, Kept(f)', Below(f)')
  <2>1. /\ f \in Nat /\ f <= Depth - 1 /\ f < Len(frames) /\ f \in 0 .. Len(frames)
        /\ f \in 0 .. numLevels - 1 /\ f # Depth /\ f + 1 \in 1 .. Depth
    BY <1>1, <1>2
  <2>2. CoveredBy(levels[f].recordHashes, Kept(f), frames[f + 1].sourceVec)
    BY <1>1, <2>1 DEF CoverInv, Pending, Below
  <2>3. levels'[f] = levels[f]
    BY <1>1, <2>1
  <2>4. Kept(f)' = Kept(f)
    <3>1. CASE f = 0
      BY <3>1 DEF Kept
    <3>2. CASE f # 0
      <4>1. f \in 1 .. Depth - 1
        BY <1>1, <2>1, <3>2
      <4> QED
        BY <1>1, <4>1 DEF Kept
    <3> QED
      BY <3>1, <3>2
  <2>5. CASE f + 1 = Depth
    <3>1. Below(f)' = merge(Source, kept)
      <4>1. ~ (f < Len(frames'))
        BY <1>1, <2>5
      <4>2. Below(f)' = levels'[f + 1].recordHashes
        BY <4>1 DEF Below
      <4> QED
        BY <1>1, <2>5, <4>2
    <3>2. frames[f + 1].sourceVec = Source
      BY <2>5 DEF Source
    <3>3. ASSUME NEW i \in DOMAIN levels[f].recordHashes,
                 NEW key \in DOMAIN levels[f].recordHashes[i].kvPairs
          PROVE  \/ Covers(Kept(f), key, levels[f].recordHashes[i].kvPairs[key])
                 \/ Covers(merge(Source, kept), key, levels[f].recordHashes[i].kvPairs[key])
      <4>1. levels[f].recordHashes[i].kvPairs[key].txn_timestamp \in Int
        BY <2>1, SizeFacts, BlockFacts
      <4>2. \/ Covers(Kept(f), key, levels[f].recordHashes[i].kvPairs[key])
            \/ Covers(Source, key, levels[f].recordHashes[i].kvPairs[key])
        BY <2>2, <3>2, <3>3 DEF CoveredBy
      <4> QED
        BY <1>1, <1>3, <4>1, <4>2, MergeCovers
    <3>4. CoveredBy(levels[f].recordHashes, Kept(f), merge(Source, kept))
      BY <3>3 DEF CoveredBy
    <3> QED
      BY <2>3, <2>4, <3>1, <3>4
  <2>6. CASE f + 1 # Depth
    <3>1. f < Len(frames') /\ f + 1 \in 1 .. Depth - 1
      BY <1>1, <2>1, <2>6
    <3>2. Below(f)' = frames[f + 1].sourceVec
      BY <1>1, <3>1 DEF Below
    <3> QED
      BY <2>2, <2>3, <2>4, <3>2
  <2> QED
    BY <2>5, <2>6
<1>5. Len(frames') + 1 \in 1 .. numLevels' - 1
  BY <1>1, <1>2
<1> QED
  BY <1>1, <1>4, <1>5 DEF CoverInv

LEMMA CoverNext ==
  ASSUME IInv, OrderInv, CoverInv, [Next]_vars
  PROVE  CoverInv'
<1>1. CASE UNCHANGED <<numLevels, levels, pc, l0Ind, frames>>
  BY <1>1 DEF CoverInv, Pending, Kept, Below
<1>2. ASSUME NEW key \in Keys, NEW version \in Version,
             PutWriteOut(key, version) \/ PutCompact(key, version)
      PROVE  CoverInv'
  <2>1. CASE PutWriteOut(key, version)
    BY <2>1 DEF PutWriteOut, call, CoverInv
  <2>2. CASE PutCompact(key, version)
    <3> DEFINE blocks == levels'[0].recordHashes
               first == blocks[1]
    <3>1. /\ levels'[0] = addBlock(levels[0], MemtableBlock(memtable))
          /\ blocks = Append(levels[0].recordHashes, MemtableBlock(memtable))
          /\ MemtableBlock(memtable) \in GoodBlocks
      BY <1>2, WriteOutView
    <3>2. /\ pc' = "compact" /\ l0Ind' = 1
          /\ frames' = <<[sourceVec |-> <<first>>, remainingBlocks |-> << >>]>>
      BY <2>2, <3>1 DEF PutCompact
    <3>3. levels[0].recordHashes \in Seq(GoodBlocks)
      BY SizeFacts DEF IInv, TypeInv
    <3> HIDE DEF blocks
    <3>4. blocks \in Seq(GoodBlocks) /\ Len(blocks) \in Nat /\ Len(blocks) >= 1
      BY <3>1, <3>3, AppendProperties, LenProperties
    <3>5. 1 \in 1 .. Len(blocks) /\ first \in GoodBlocks
      BY <3>4, ElementOfSeq
    <3> HIDE DEF first
    <3>6. <<first>> \in Seq(GoodBlocks) /\ 1 \in DOMAIN <<first>> /\ <<first>>[1] = first
      BY <3>5
    <3>7. \A key1 \in DOMAIN first.kvPairs : Covers(<<first>>, key1, first.kvPairs[key1])
      BY <3>6, CoversItself
    <3>8. frames'[1].sourceVec = <<first>>
      BY <3>2
    <3>9. \A b \in 1 .. l0Ind' : \A key1 \in DOMAIN blocks[b].kvPairs :
            Covers(frames'[1].sourceVec, key1, blocks[b].kvPairs[key1])
      <4>1. \A b \in 1 .. l0Ind' : b = 1
        BY <3>2
      <4> QED
        BY <3>7, <3>8, <4>1 DEF first
    <3>10. l0Ind' \in 1 .. Len(blocks)
      BY <3>2, <3>5
    <3> QED
      BY <3>2, <3>9, <3>10 DEF CoverInv, blocks
  <2> QED
    BY <1>2, <2>1, <2>2
<1>3. CASE CompactReturn
  BY <1>3 DEF CompactReturn, CoverInv
<1> QED
  BY <1>1, <1>2, <1>3, CoverMergeL0, CoverCall, CoverEvict, CoverMerge, StepCases
-----------------------------------------------------------------------------
(***************************************************************************)
(* The theorems about the data.                                            *)
(***************************************************************************)

DataInv == OrderInv /\ RangeInv /\ MemInv /\ CoverInv

\* Initially level 0 is empty and no put is in progress.
LEMMA DataInit == Init => DataInv
<1>1. Init => MemInv
  BY DEF Init, MemInv
<1>2. Init => CoverInv
  BY DEF Init, CoverInv
<1> QED
  BY <1>1, <1>2, OrderInit, RangeInit DEF DataInv

LEMMA DataNext == IInv /\ IInv' /\ DataInv /\ [Next]_vars => DataInv'
<1> SUFFICES ASSUME IInv, IInv', DataInv, [Next]_vars
             PROVE  DataInv'
  OBVIOUS
<1>1. OrderInv /\ RangeInv /\ MemInv /\ CoverInv
  BY DEF DataInv
<1>2. OrderInv' /\ RangeInv' /\ MemInv' /\ CoverInv'
  BY <1>1, OrderNext, RangeNext, MemNext, CoverNext
<1> QED
  BY <1>2 DEF DataInv

\* Levels and blocks in flight are in order, ranges cover their blocks, and a
\* level that a compaction is taking apart is covered by its parts.
THEOREM DataInvariance == Spec => []DataInv
<1> QED
  BY Invariance, DataInit, DataNext, PTL DEF Spec

\* Every level below level 0 and every list of blocks in flight is sorted and
\* has a key at most once, as merge, the block selection and getBlock expect.
THEOREM LevelsAreSorted == Spec => []LevelsSorted
<1>1. IInv /\ DataInv => LevelsSorted
  <2> SUFFICES ASSUME IInv, DataInv
               PROVE  LevelsSorted
    OBVIOUS
  <2>1. DOMAIN frames = 1 .. Len(frames)
    BY LenProperties DEF IInv, TypeInv
  <2> QED
    BY <2>1 DEF DataInv, OrderInv, Sorted, LevelsSorted
<1> QED
  BY <1>1, Invariance, DataInvariance, PTL

\* The count and the range the code keeps next to a level's blocks agree with
\* them, and no block is empty or larger than a full memtable.
THEOREM LevelsAreConsistent == Spec => []LevelConsistent
<1>1. IInv /\ DataInv => LevelConsistent
  <2> SUFFICES ASSUME IInv, DataInv, NEW i \in 0 .. numLevels - 1
               PROVE  LET blocks == levels[i].recordHashes
                      IN  /\ levels[i].numBlocks = Len(blocks)
                          /\ \A b \in DOMAIN blocks :
                               /\ DOMAIN blocks[b].kvPairs # {}
                               /\ Cardinality(DOMAIN blocks[b].kvPairs) <= BlockSize
                               /\ RangesValid => /\ levels[i].min_key <= blocks[b].minKey
                                                 /\ levels[i].max_key >= blocks[b].maxKey
    BY DEF LevelConsistent
  <2> DEFINE blocks == levels[i].recordHashes
  <2>1. blocks \in Seq(GoodBlocks)
    BY SizeFacts
  <2>2. \A b \in DOMAIN blocks : /\ DOMAIN blocks[b].kvPairs # {}
                                 /\ Cardinality(DOMAIN blocks[b].kvPairs) <= BlockSize
    <3> HIDE DEF blocks
    <3> QED
      BY <2>1, BlockFacts DEF GoodBlocks
  <2>3. i # 0 => InRange(levels[i])
    <3>1. i # 0 => i \in 1 .. numLevels - 1
      BY DEF IInv, TypeInv
    <3> QED
      BY <3>1 DEF DataInv, RangeInv
  <2>4. levels[i].numBlocks = Len(blocks)
    BY <2>3 DEF InRange, IInv, SizeInv
  <2>5. RangesValid => InRange(levels[i])
    BY <2>3 DEF DataInv, RangeInv
  <2> QED
    BY <2>2, <2>4, <2>5 DEF InRange
<1> QED
  BY <1>1, Invariance, DataInvariance, PTL

\* What a key that is stored in a level is looked up to.
LEMMA LookupFinds ==
  ASSUME NEW level \in GoodLevels, InRange(level), AllBounded(level.recordHashes),
         NEW b \in DOMAIN level.recordHashes,
         NEW key \in DOMAIN level.recordHashes[b].kvPairs, key # EmptyKey,
         \A c \in DOMAIN level.recordHashes :
           c < b => level.recordHashes[c].maxKey < key
  PROVE  Lookup(level, key) # NotFound
<1> DEFINE blocks == level.recordHashes
           covering == Covering(level, key)
<1>1. blocks \in Seq(GoodBlocks) /\ level.min_key \in Nat /\ level.max_key \in Nat
  BY DEF GoodLevels, Level
<1>2. DOMAIN blocks = 1 .. level.numBlocks /\ level.numBlocks \in Nat
  BY <1>1, LenProperties DEF InRange
<1>3. \A c \in DOMAIN blocks : /\ blocks[c].minKey \in Nat /\ blocks[c].maxKey \in Nat
                               /\ blocks[c] \in GoodBlocks
  BY <1>1, BlockFacts, BoundsInKeys DEF AllBounded
<1>4. blocks[b].minKey <= key /\ key <= blocks[b].maxKey
  BY DEF AllBounded, Bounded
<1>5. key \in Nat /\ blocks[b].kvPairs[key] \in Version
  BY <1>1, BlockFacts
<1>6. covering = {i \in DOMAIN blocks : blocks[i].minKey <= key /\ key <= blocks[i].maxKey}
  BY <1>2 DEF Covering
<1>7. b \in covering
  BY <1>4, <1>6
<1>8. covering \in SUBSET Nat
  BY <1>2, <1>6
<1> DEFINE c == Min(covering)
<1> HIDE DEF covering
<1>9. c \in covering /\ c <= b
  BY <1>7, <1>8, MinNat
<1>10. c \in DOMAIN blocks /\ key <= blocks[c].maxKey
  BY <1>6, <1>9
<1>11. c = b
  <2>1. ~ (c < b)
    <3>1. c < b => blocks[c].maxKey < key
      BY <1>10
    <3> HIDE DEF c, blocks
    <3> QED
      BY <1>3, <1>5, <1>10, <3>1
  <2>2. c \in Nat /\ b \in Nat
    BY <1>2, <1>10
  <2> HIDE DEF c
  <2> QED
    BY <1>9, <2>1, <2>2
<1>12. ~ (key < level.min_key) /\ ~ (key > level.max_key)
  <2>1. level.min_key <= blocks[b].minKey /\ level.max_key >= blocks[b].maxKey
    BY DEF InRange
  <2> QED
    BY <1>1, <1>3, <1>4, <1>5, <2>1
<1>13. covering # {}
  BY <1>7
<1>14. Lookup(level, key) = blocks[b].kvPairs[key]
  BY <1>11, <1>12, <1>13 DEF Lookup, covering
<1> QED
  BY <1>5, <1>14, NotFoundAssumption

\* A level's lookup finds every key the level stores.
LEMMA LevelFinds ==
  ASSUME IInv, DataInv, RangesValid, NEW i \in 0 .. numLevels - 1,
         NEW b \in DOMAIN levels[i].recordHashes,
         NEW key \in DOMAIN levels[i].recordHashes[b].kvPairs, key # EmptyKey,
         key \notin locklst
  PROVE  Lookup(levels[i], key) # NotFound
<1> DEFINE blocks == levels[i].recordHashes
<1>1. levels[i] \in GoodLevels /\ blocks \in Seq(GoodBlocks) /\ Len(blocks) \in Nat
  BY SizeFacts
<1>2. DOMAIN blocks = 1 .. Len(blocks)
  BY <1>1, LenProperties
<1>3. i # 0 => i \in 1 .. numLevels - 1
  BY DEF IInv, TypeInv
<1>4. InRange(levels[i]) /\ AllBounded(blocks)
  BY <1>3 DEF DataInv, RangeInv, OrderInv, Sorted
<1>5. \A c \in DOMAIN blocks : c < b => blocks[c].maxKey < key
  <2>1. CASE i = 0
    <3>1. Len(blocks) <= 2
      BY <2>1 DEF IInv, SizeInv
    <3>2. CASE b = 1
      BY <1>2, <3>2
    <3>3. CASE b # 1
      <4>1. b = 2 /\ Len(blocks) = 2
        <5> DEFINE l == Len(blocks)
        <5>1. b \in 1 .. l /\ l \in Nat /\ l <= 2
          BY <1>1, <1>2, <3>1
        <5> HIDE DEF l
        <5>2. b = 2 /\ l = 2
          BY <3>3, <5>1
        <5> QED
          BY <5>2 DEF l
      <4>2. pc # "idle"
        <5>1. pc = "idle" => Len(blocks) <= 1
          BY <2>1 DEF IInv, SizeInv
        <5> HIDE DEF blocks
        <5> QED
          BY <4>1, <5>1
      <4>3. blocks[b].kvPairs = memtable
        <5>1. blocks[Len(blocks)].kvPairs = memtable
          BY <2>1, <4>2 DEF DataInv, MemInv
        <5> HIDE DEF blocks
        <5> QED
          BY <4>1, <5>1
      <4>4. key \in locklst
        BY <4>3 DEF IInv, TypeInv
      <4> QED
        BY <4>4
    <3> QED
      BY <3>2, <3>3
  <2>2. CASE i # 0
    <3>1. InKeyOrder(blocks)
      BY <1>3, <2>2 DEF DataInv, OrderInv, Sorted
    <3> QED
      BY <1>4, <3>1 DEF AllBounded, Bounded, InKeyOrder
  <2> QED
    BY <2>1, <2>2
<1> QED
  BY <1>1, <1>4, <1>5, LookupFinds

\* Where the versions of a key are.
LEMMA StoredElements ==
  \A key : \A v : v \in Stored(key) <=>
    \/ key \in DOMAIN memtable /\ v = memtable[key]
    \/ \E i \in 0 .. numLevels - 1 : \E b \in DOMAIN levels[i].recordHashes :
         /\ key \in DOMAIN levels[i].recordHashes[b].kvPairs
         /\ v = levels[i].recordHashes[b].kvPairs[key]
<1> SUFFICES ASSUME NEW key, NEW v
             PROVE  v \in Stored(key) <=>
                      \/ key \in DOMAIN memtable /\ v = memtable[key]
                      \/ \E i \in 0 .. numLevels - 1 : \E b \in DOMAIN levels[i].recordHashes :
                           /\ key \in DOMAIN levels[i].recordHashes[b].kvPairs
                           /\ v = levels[i].recordHashes[b].kvPairs[key]
  OBVIOUS
<1> DEFINE inMemtable == {memtable[k] : k \in DOMAIN memtable \cap {key}}
           having(blocks) == {blocks[j] : j \in
                                {h \in DOMAIN blocks : key \in DOMAIN blocks[h].kvPairs}}
           inLevel(blocks) == {b.kvPairs[key] : b \in having(blocks)}
           inLevels == UNION {inLevel(blocks) :
                                blocks \in {levels[i].recordHashes : i \in 0 .. numLevels - 1}}
<1>1. Stored(key) = inMemtable \cup inLevels
  BY Zenon DEF Stored
<1>2. v \in inMemtable <=> key \in DOMAIN memtable /\ v = memtable[key]
  OBVIOUS
<1>3. \A blocks : v \in inLevel(blocks) <=>
        \E b \in DOMAIN blocks : key \in DOMAIN blocks[b].kvPairs /\ v = blocks[b].kvPairs[key]
  OBVIOUS
<1> HIDE DEF inLevel
<1>4. v \in inLevels <=> \E i \in 0 .. numLevels - 1 : v \in inLevel(levels[i].recordHashes)
  BY Zenon
<1> HIDE DEF inMemtable, inLevels
<1> QED
  BY <1>1, <1>2, <1>3, <1>4

LEMMA FoundWhenStored == IInv /\ DataInv => StoredIsFound
<1> SUFFICES ASSUME IInv, DataInv, RangesValid, NEW key \in Keys \ {EmptyKey},
                    get(key) = NotFound, NEW v \in Stored(key)
             PROVE  FALSE
  BY DEF StoredIsFound
<1>1. key \notin locklst
  <2> SUFFICES ASSUME key \in locklst
               PROVE  FALSE
    OBVIOUS
  <2>1. memtable[key] \in Version
    <3>1. memtable \in [DOMAIN memtable -> Version] /\ key \in DOMAIN memtable
      BY PairMapDomain DEF IInv, TypeInv
    <3> QED
      BY <3>1
  <2>2. get(key) = memtable[key]
    BY DEF get
  <2> QED
    BY <2>1, <2>2, NotFoundAssumption
<1>2. Hits(key) = {}
  <2> SUFFICES ASSUME Hits(key) # {}
               PROVE  FALSE
    OBVIOUS
  <2>1. Hits(key) \in SUBSET Nat
    BY DEF Hits
  <2>2. Min(Hits(key)) \in Hits(key)
    BY <2>1, MinNat
  <2>3. get(key) = Lookup(levels[Min(Hits(key))], key)
    BY <1>1 DEF get
  <2> QED
    BY <2>2, <2>3 DEF Hits
<1>3. PICK i \in 0 .. numLevels - 1 : \E b \in DOMAIN levels[i].recordHashes :
             key \in DOMAIN levels[i].recordHashes[b].kvPairs
  BY <1>1, StoredElements DEF IInv, TypeInv
<1>4. Lookup(levels[i], key) # NotFound
  BY <1>1, <1>3, LevelFinds
<1> QED
  BY <1>2, <1>4 DEF Hits

\* A get of a key that is stored somewhere, at any moment of a compaction
\* too, finds it, although getBlock reads only one block of each level.
THEOREM StoredKeysAreFound == Spec => []StoredIsFound
<1> QED
  BY FoundWhenStored, Invariance, DataInvariance, PTL

\* A version of a key at least as late as this one is stored.
StoredLater(key, version) ==
  \/ /\ key \in DOMAIN memtable
     /\ memtable[key].txn_timestamp >= version.txn_timestamp
  \/ \E i \in 0 .. numLevels - 1 : Covers(levels[i].recordHashes, key, version)

LEMMA StoredLaterIsStored ==
  \A key, version : StoredLater(key, version) =>
    \E w \in Stored(key) : w.txn_timestamp >= version.txn_timestamp
<1> SUFFICES ASSUME NEW key, NEW version, StoredLater(key, version)
             PROVE  \E w \in Stored(key) : w.txn_timestamp >= version.txn_timestamp
  OBVIOUS
<1>1. CASE /\ key \in DOMAIN memtable
           /\ memtable[key].txn_timestamp >= version.txn_timestamp
  <2>1. memtable[key] \in Stored(key)
    BY <1>1, StoredElements
  <2> QED
    BY <1>1, <2>1
<1>2. ASSUME NEW i \in 0 .. numLevels - 1, Covers(levels[i].recordHashes, key, version)
      PROVE  \E w \in Stored(key) : w.txn_timestamp >= version.txn_timestamp
  <2>1. PICK b \in DOMAIN levels[i].recordHashes :
               /\ key \in DOMAIN levels[i].recordHashes[b].kvPairs
               /\ levels[i].recordHashes[b].kvPairs[key].txn_timestamp
                    >= version.txn_timestamp
    BY <1>2 DEF Covers
  <2>2. levels[i].recordHashes[b].kvPairs[key] \in Stored(key)
    BY <2>1, StoredElements
  <2> QED
    BY <2>1, <2>2
<1> QED
  BY <1>1, <1>2 DEF StoredLater

\* The versions of the memtable, and that no version is later than itself.
LEMMA MemtableVersions ==
  ASSUME IInv
  PROVE  \A key \in DOMAIN memtable :
           /\ memtable[key] \in Version /\ memtable[key].txn_timestamp \in Int
           /\ memtable[key].txn_timestamp >= memtable[key].txn_timestamp
<1>1. memtable \in [DOMAIN memtable -> Version]
  BY PairMapDomain DEF IInv, TypeInv
<1>2. \A version \in Version : version.txn_timestamp \in Int
  BY TimestampsAssumption DEF Version
<1> QED
  BY <1>1, <1>2

\* A version in a level that a step leaves alone.
LEMMA SameLevelKeeps ==
  ASSUME IInv, NEW i \in 0 .. numLevels - 1, numLevels' \in Nat, numLevels' >= numLevels,
         levels'[i].recordHashes = levels[i].recordHashes,
         NEW key, NEW version, Covers(levels[i].recordHashes, key, version)
  PROVE  StoredLater(key, version)'
<1>1. Covers(levels'[i].recordHashes, key, version)
  BY Zenon
<1>2. i \in 0 .. numLevels' - 1
  <2>1. numLevels \in Nat
    BY DEF IInv, TypeInv
  <2>2. PICK n \in Nat : n = numLevels'
    OBVIOUS
  <2>3. i \in 0 .. n - 1
    <3>1. n >= numLevels
      BY <2>2
    <3> QED
      BY <2>1, <3>1
  <2> QED
    BY <2>2, <2>3
<1> QED
  BY <1>1, <1>2 DEF StoredLater

\* No step drops a version that is stored in a level, unless for a later one.
LEMMA LevelsKeep ==
  ASSUME IInv, DataInv, [Next]_vars,
         NEW i \in 0 .. numLevels - 1, NEW b \in DOMAIN levels[i].recordHashes,
         NEW key \in DOMAIN levels[i].recordHashes[b].kvPairs, NEW v,
         v = levels[i].recordHashes[b].kvPairs[key]
  PROVE  StoredLater(key, v)'
<1> DEFINE blocks == levels[i].recordHashes
<1>1. /\ numLevels \in Nat \ {0} /\ blocks \in Seq(GoodBlocks)
      /\ v.txn_timestamp \in Int
  <2>1. blocks \in Seq(GoodBlocks)
    BY SizeFacts
  <2>2. v.txn_timestamp \in Int
    BY <2>1, BlockFacts
  <2> QED
    BY <2>1, <2>2 DEF IInv, TypeInv
<1>2. Covers(blocks, key, v)
  BY <1>1, CoversItself
<1>3. i # 0 => i \in 1 .. numLevels - 1
  BY <1>1
<1>4. CASE UNCHANGED <<numLevels, levels>>
  BY <1>1, <1>2, <1>4, SameLevelKeeps
<1>5. ASSUME NEW k \in Keys, NEW version \in Version,
             PutWriteOut(k, version) \/ PutCompact(k, version)
      PROVE  StoredLater(key, v)'
  <2>1. /\ numLevels' = numLevels /\ MemtableBlock(memtable) \in GoodBlocks
        /\ levels'[0].recordHashes
             = Append(levels[0].recordHashes, MemtableBlock(memtable))
        /\ \A j \in 1 .. numLevels - 1 : levels'[j] = levels[j]
    BY <1>5, WriteOutView
  <2>2. CASE i # 0
    BY <1>1, <1>2, <1>3, <2>1, <2>2, SameLevelKeeps
  <2>3. CASE i = 0
    <3>1. /\ b \in DOMAIN Append(blocks, MemtableBlock(memtable))
          /\ Append(blocks, MemtableBlock(memtable))[b] = blocks[b]
      <4> HIDE DEF blocks
      <4> QED
        BY <1>1, <2>1, AppendProperties, LenProperties DEF blocks
    <3>2. Covers(levels'[0].recordHashes, key, v)
      <4>1. v.txn_timestamp >= v.txn_timestamp
        BY <1>1
      <4> QED
        BY <2>1, <2>3, <3>1, <4>1 DEF Covers
    <3>3. 0 \in 0 .. numLevels' - 1
      BY <1>1, <2>1
    <3> QED
      BY <3>2, <3>3 DEF StoredLater
  <2> QED
    BY <2>2, <2>3
<1>6. CASE CompactMergeL0
  BY <1>4, <1>6 DEF CompactMergeL0, index
<1>7. CASE CompactCall \/ HelperEvict
  <2>1. Grows
    BY <1>7, CompactCallView, HelperEvictView
  <2> QED
    BY <1>2, <2>1, SameLevelKeeps DEF Grows
<1>8. CASE HelperFits \/ HelperReturn
  <2>1. PICK kept \in Seq(GoodBlocks) :
          /\ kept = IF pc = "compactHelper" THEN Dest ELSE frames[Depth].remainingBlocks
          /\ pc \in {"compactHelper", "return"} /\ pc' = "return"
          /\ Depth \in 1 .. numLevels - 1 /\ Depth = Len(frames) /\ Depth \in Nat
          /\ Source \in Seq(GoodBlocks)
          /\ numLevels' = numLevels
          /\ levels'[Depth].recordHashes = merge(Source, kept)
          /\ \A j \in 0 .. numLevels - 1 : j # Depth => levels'[j] = levels[j]
    BY <1>8, HelperMergeView
  <2>2. CASE i # Depth
    BY <1>1, <1>2, <2>1, <2>2, SameLevelKeeps
  <2>3. CASE i = Depth
    <3>1. Depth \in 1 .. Len(frames) /\ Depth \in 0 .. Len(frames) /\ Depth # 0
      BY <2>1
    <3>2. Sorted(Source) /\ Sorted(kept)
      BY <2>1, <3>1 DEF DataInv, OrderInv, Source, Dest
    <3>3. ASSUME Covers(kept, key, v)
          PROVE  StoredLater(key, v)'
      <4>1. Covers(merge(Source, kept), key, v)
        BY <1>1, <2>1, <3>2, <3>3, MergeCovers
      <4>2. Covers(levels'[Depth].recordHashes, key, v)
        BY <2>1, <4>1, Zenon
      <4>3. Depth \in 0 .. numLevels' - 1
        BY <1>1, <2>1
      <4> QED
        BY <4>2, <4>3 DEF StoredLater
    <3>4. CASE pc = "compactHelper"
      BY <1>2, <2>1, <2>3, <3>3, <3>4 DEF Dest
    <3>5. CASE pc = "return"
      <4>1. CoveredBy(levels[Depth].recordHashes, Kept(Depth), Below(Depth))
        BY <2>1, <3>1, <3>5 DEF DataInv, CoverInv, Pending
      <4>2. /\ kept = Kept(Depth) /\ Below(Depth) = levels[Depth + 1].recordHashes
            /\ Depth + 1 \in 1 .. numLevels - 1
        BY <2>1, <3>1, <3>5 DEF DataInv, CoverInv, Kept, Below
      <4>3. Covers(kept, key, v) \/ Covers(levels[Depth + 1].recordHashes, key, v)
        BY <2>3, <4>1, <4>2 DEF CoveredBy
      <4>4. /\ Depth + 1 \in 0 .. numLevels - 1 /\ Depth + 1 # Depth
            /\ levels'[Depth + 1] = levels[Depth + 1]
        BY <1>1, <2>1, <4>2
      <4> QED
        BY <1>1, <2>1, <3>3, <4>3, <4>4, SameLevelKeeps
    <3> QED
      BY <2>1, <3>4, <3>5
  <2> QED
    BY <2>2, <2>3
<1>9. CASE CompactReturn
  <2>1. /\ pc = "return" /\ frames = << >> /\ numLevels' = numLevels
        /\ \A j \in 1 .. numLevels - 1 : levels'[j] = levels[j]
    BY <1>9, CompactReturnView
  <2>2. CASE i # 0
    BY <1>1, <1>2, <1>3, <2>1, <2>2, SameLevelKeeps
  <2>3. CASE i = 0
    <3>1. Len(frames) = 0
      BY <2>1
    <3>2. Kept(0) = << >> /\ Below(0) = levels[1].recordHashes
      BY <3>1 DEF Kept, Below
    <3>3. CoveredBy(blocks, << >>, levels[1].recordHashes)
      BY <2>1, <2>3, <3>1, <3>2 DEF DataInv, CoverInv, Pending
    <3>4. Covers(levels[1].recordHashes, key, v)
      BY <3>3 DEF CoveredBy, Covers
    <3>5. 1 \in 1 .. numLevels - 1 /\ 1 \in 0 .. numLevels - 1
      BY <1>1, <2>1, <3>1 DEF DataInv, CoverInv
    <3> QED
      BY <1>1, <2>1, <3>4, <3>5, SameLevelKeeps
  <2> QED
    BY <2>2, <2>3
<1> QED
  BY <1>4, <1>5, <1>6, <1>7, <1>8, <1>9, StepCases

\* No step drops a version that is in the memtable, unless for a later one.
LEMMA MemtableKeeps ==
  ASSUME IInv, DataInv, [Next]_vars, NEW key \in DOMAIN memtable, NEW v, v = memtable[key]
  PROVE  StoredLater(key, v)'
<1>1. v.txn_timestamp \in Int /\ v.txn_timestamp >= v.txn_timestamp
  BY MemtableVersions
<1>2. ASSUME UNCHANGED memtable
      PROVE  StoredLater(key, v)'
  BY <1>1, <1>2 DEF StoredLater
<1>3. ASSUME NEW k \in Keys, NEW version \in Version, PutLater(k, version)
      PROVE  StoredLater(key, v)'
  <2>1. /\ memtable' = [memtable EXCEPT ![k] = version]
        /\ k = key => version.txn_timestamp > v.txn_timestamp
    BY <1>3 DEF PutLater
  <2>2. DOMAIN memtable' = DOMAIN memtable
    BY <2>1
  <2>3. memtable'[key].txn_timestamp >= v.txn_timestamp
    <3>1. CASE k = key
      <4>1. memtable'[key] = version
        BY <2>1, <3>1
      <4>2. version.txn_timestamp \in Int
        BY TimestampsAssumption DEF Version
      <4> QED
        BY <1>1, <2>1, <3>1, <4>1, <4>2
    <3>2. CASE k # key
      BY <1>1, <2>1, <3>2
    <3> QED
      BY <3>1, <3>2
  <2> QED
    BY <2>2, <2>3 DEF StoredLater
<1>4. ASSUME NEW k \in Keys, NEW version \in Version, PutNew(k, version)
      PROVE  StoredLater(key, v)'
  <2>1. /\ memtable' = [j \in DOMAIN memtable \cup {k} |->
                          IF j = k THEN version ELSE memtable[j]]
        /\ k # key
    BY <1>4 DEF PutNew, IInv, TypeInv
  <2>2. key \in DOMAIN memtable' /\ memtable'[key] = v
    BY <2>1
  <2> QED
    BY <1>1, <2>2 DEF StoredLater
<1>5. ASSUME NEW k \in Keys, NEW version \in Version, PutWriteOut(k, version)
      PROVE  StoredLater(key, v)'
  <2> DEFINE block == MemtableBlock(memtable)
             blocks == levels[0].recordHashes
  <2>1. /\ numLevels' = numLevels /\ block \in GoodBlocks
        /\ levels'[0].recordHashes = Append(blocks, block)
    BY <1>5, WriteOutView
  <2>2. block.kvPairs = memtable
    BY DEF MemtableBlock
  <2>3. numLevels \in Nat \ {0} /\ 0 \in 0 .. numLevels - 1
    BY DEF IInv, TypeInv
  <2>4. blocks \in Seq(GoodBlocks)
    BY <2>3, SizeFacts
  <2> HIDE DEF block, blocks
  <2>5. /\ Len(blocks) + 1 \in DOMAIN Append(blocks, block)
        /\ Append(blocks, block)[Len(blocks) + 1] = block
    BY <2>1, <2>4, AppendProperties, LenProperties
  <2>6. Covers(Append(blocks, block), key, v)
    BY <1>1, <2>2, <2>5 DEF Covers
  <2>7. Covers(levels'[0].recordHashes, key, v) /\ 0 \in 0 .. numLevels' - 1
    BY <2>1, <2>3, <2>6
  <2> QED
    BY <2>7 DEF StoredLater
<1>6. CASE CompactReturn
  <2> DEFINE blocks == levels[0].recordHashes
  <2>1. Len(blocks) >= 1 /\ blocks[Len(blocks)].kvPairs = memtable
    BY <1>6 DEF DataInv, MemInv, CompactReturn
  <2>2. 0 \in 0 .. numLevels - 1
    BY DEF IInv, TypeInv
  <2>3. blocks \in Seq(GoodBlocks)
    BY <2>2, SizeFacts
  <2>4. Len(blocks) \in DOMAIN blocks
    <3> HIDE DEF blocks
    <3> QED
      BY <2>1, <2>3, LenProperties
  <2> QED
    BY <2>1, <2>2, <2>4, LevelsKeep
<1>7. CASE UNCHANGED vars
  BY <1>2, <1>7 DEF vars
<1>8. ASSUME NEW k \in Keys, NEW version \in Version, put(k, version)
      PROVE  StoredLater(key, v)'
  BY <1>2, <1>3, <1>4, <1>5, <1>7, <1>8 DEF put, PutEarlier, PutCompact
<1>9. CASE Compaction
  BY <1>2, <1>6, <1>9 DEF Compaction, CompactMergeL0, CompactCall, HelperEvict,
     HelperFits, HelperReturn, HelperMerge
<1> QED
  BY <1>7, <1>8, <1>9 DEF Next

\* A step keeps every version or one at least as late.
LEMMA StepKeeps ==
  IInv /\ DataInv /\ [Next]_vars =>
    \A key \in Keys : \A v \in Stored(key) :
      \E w \in Stored(key)' : w.txn_timestamp >= v.txn_timestamp
<1>1. (\A key, version : StoredLater(key, version) =>
         \E w \in Stored(key) : w.txn_timestamp >= version.txn_timestamp)'
  BY StoredLaterIsStored, PTL
<1> SUFFICES ASSUME IInv, DataInv, [Next]_vars, NEW key \in Keys, NEW v \in Stored(key)
             PROVE  \E w \in Stored(key)' : w.txn_timestamp >= v.txn_timestamp
  OBVIOUS
<1>2. CASE key \in DOMAIN memtable /\ v = memtable[key]
  BY <1>1, <1>2, MemtableKeeps
<1>3. CASE ~ (key \in DOMAIN memtable /\ v = memtable[key])
  <2>1. PICK i \in 0 .. numLevels - 1 : \E b \in DOMAIN levels[i].recordHashes :
               /\ key \in DOMAIN levels[i].recordHashes[b].kvPairs
               /\ v = levels[i].recordHashes[b].kvPairs[key]
    BY <1>3, StoredElements
  <2> QED
    BY <1>1, <2>1, LevelsKeep
<1> QED
  BY <1>2, <1>3

\* Whatever the order of the timestamps, no put, write-out or step of a
\* compaction drops the latest version of a key that is stored.
THEOREM LatestIsNeverLost == Spec => LatestNeverLost
<1>1. Spec => [][IInv /\ DataInv /\ [Next]_vars]_vars
  BY Invariance, DataInvariance, PTL DEF Spec
<1> QED
  BY <1>1, StepKeeps, PTL DEF LatestNeverLost

-----------------------------------------------------------------------------
(***************************************************************************)
(* Newer versions are above older ones.                                    *)
(***************************************************************************)

\* A list of blocks holds this version of a key.
Holds(blocks, key, v) ==
  \E b \in DOMAIN blocks : key \in DOMAIN blocks[b].kvPairs /\ v = blocks[b].kvPairs[key]

InLevel(i, key, v) == Holds(levels[i].recordHashes, key, v)

\* A version is at least as late as another.
Newer(v, w) == v.txn_timestamp >= w.txn_timestamp

SourceInv ==
  \A f \in 1 .. Len(frames) : \A key \in Keys, v \in Version :
    /\ Holds(frames[f].sourceVec, key, v) => InLevel(f - 1, key, v)
    /\ Pending(f) /\ Holds(frames[f].remainingBlocks, key, v) => InLevel(f, key, v)

\* In level 0 the versions of the memtable's keys do not count: while compact
\* runs there may be two of them.
ShadowInv ==
  \A key \in Keys : \A v, w \in Version : \A i, j \in 0 .. numLevels - 1 :
    /\ i < j
    /\ i = 0 => key \notin DOMAIN memtable
    /\ InLevel(i, key, v)
    /\ InLevel(j, key, w)
    => Newer(v, w)

MemtableNewest ==
  \A key \in DOMAIN memtable : \A w \in Stored(key) : Newer(memtable[key], w)

ReadInv == SourceInv /\ ShadowInv /\ MemtableNewest

-----------------------------------------------------------------------------
(***************************************************************************)
(* Lists of blocks and levels.                                             *)
(***************************************************************************)

LEMMA NewerItself ==
  \A v \in Version : Newer(v, v)
<1>1. \A v \in Version : v.txn_timestamp \in Int
  BY TimestampsAssumption DEF Version
<1> QED
  BY <1>1 DEF Newer

LEMMA NewerTransitive ==
  \A u, v, w \in Version : Newer(u, v) /\ Newer(v, w) => Newer(u, w)
<1>1. \A v \in Version : v.txn_timestamp \in Int
  BY TimestampsAssumption DEF Version
<1> QED
  BY <1>1 DEF Newer

\* A version that a list of blocks holds.
LEMMA HoldsFacts ==
  ASSUME NEW blocks \in Seq(GoodBlocks), NEW key, NEW v, Holds(blocks, key, v)
  PROVE  key \in Keys /\ v \in Version /\ v.txn_timestamp \in Int
<1>1. PICK b \in DOMAIN blocks : key \in DOMAIN blocks[b].kvPairs /\ v = blocks[b].kvPairs[key]
  BY DEF Holds
<1> QED
  BY <1>1, BlockFacts

\* merge makes no versions up.
LEMMA MergeHolds ==
  ASSUME NEW a \in Seq(GoodBlocks), NEW b \in Seq(GoodBlocks), NEW key, NEW v,
         Holds(merge(a, b), key, v)
  PROVE  Holds(a, key, v) \/ Holds(b, key, v)
<1> DEFINE K == KeysOf(a) \cup KeysOf(b)
<1>1. \A i \in DOMAIN merge(a, b) :
        merge(a, b)[i].kvPairs = [k \in Chunk(K, i) |-> Survivor(a, b, k)]
  BY MergedChunk
<1>2. PICK i \in DOMAIN merge(a, b) :
        key \in DOMAIN merge(a, b)[i].kvPairs /\ v = merge(a, b)[i].kvPairs[key]
  BY DEF Holds
<1> HIDE DEF K
<1>3. key \in K /\ v = Survivor(a, b, key)
  BY <1>1, <1>2 DEF Chunk
<1>4. ASSUME NEW c \in Seq(GoodBlocks), key \in KeysOf(c)
      PROVE  Holds(c, key, VersionIn(c, key))
  <2> DEFINE j == CHOOSE h \in DOMAIN c : key \in DOMAIN c[h].kvPairs
  <2>1. \E h \in DOMAIN c : key \in DOMAIN c[h].kvPairs
    BY <1>4 DEF KeysOf
  <2>2. j \in DOMAIN c /\ key \in DOMAIN c[j].kvPairs
    BY <2>1
  <2>3. VersionIn(c, key) = c[j].kvPairs[key]
    BY DEF VersionIn
  <2> HIDE DEF j
  <2> QED
    BY <2>2, <2>3 DEF Holds
<1>5. \/ key \in KeysOf(a) /\ v = VersionIn(a, key)
      \/ key \in KeysOf(b) /\ v = VersionIn(b, key)
  BY <1>3 DEF Survivor, K
<1> QED
  BY <1>4, <1>5

\* A sorted list has one version of a key.
LEMMA SortedHoldsOne ==
  ASSUME NEW blocks \in Seq(GoodBlocks), Sorted(blocks), NEW key, NEW v, NEW w,
         Holds(blocks, key, v), Holds(blocks, key, w)
  PROVE  v = w
<1>1. PICK b \in DOMAIN blocks : key \in DOMAIN blocks[b].kvPairs /\ v = blocks[b].kvPairs[key]
  BY DEF Holds
<1>2. PICK c \in DOMAIN blocks : key \in DOMAIN blocks[c].kvPairs /\ w = blocks[c].kvPairs[key]
  BY DEF Holds
<1>3. key \in Nat /\ b \in Nat /\ c \in Nat
  BY <1>1, <1>2, BlockFacts, LenProperties
<1>4. b = c
  BY <1>1, <1>2, <1>3 DEF Sorted, InKeyOrder
<1> QED
  BY <1>1, <1>2, <1>4

\* The parts of a list hold what the list holds.
LEMMA PartsHold ==
  ASSUME NEW s \in Seq(GoodBlocks), NEW n \in 0 .. Len(s), NEW key, NEW v,
         Holds(SubSeq(s, 1, n), key, v) \/ Holds(SubSeq(s, n + 1, Len(s)), key, v)
  PROVE  Holds(s, key, v)
<1> DEFINE front == SubSeq(s, 1, n)
           rest == SubSeq(s, n + 1, Len(s))
<1>1. /\ DOMAIN front = 1 .. n /\ \A i \in 1 .. n : front[i] = s[i] /\ i \in DOMAIN s
      /\ DOMAIN rest = 1 .. (Len(s) - n)
      /\ \A i \in 1 .. (Len(s) - n) : rest[i] = s[n + i] /\ n + i \in DOMAIN s
  BY PartElements
<1> HIDE DEF front, rest
<1>2. CASE Holds(front, key, v)
  BY <1>1, <1>2 DEF Holds
<1>3. CASE Holds(rest, key, v)
  <2>1. PICK i \in DOMAIN rest : key \in DOMAIN rest[i].kvPairs /\ v = rest[i].kvPairs[key]
    BY <1>3 DEF Holds
  <2>2. n + i \in DOMAIN s /\ rest[i] = s[n + i]
    BY <1>1, <2>1
  <2> QED
    BY <2>1, <2>2 DEF Holds
<1> QED
  BY <1>2, <1>3 DEF front, rest

\* A list covers what it holds.
LEMMA HoldsCovers ==
  ASSUME NEW blocks \in Seq(GoodBlocks), NEW key, NEW v, v.txn_timestamp \in Int
  PROVE  Covers(blocks, key, v) <=>
           \E w : Holds(blocks, key, w) /\ w.txn_timestamp >= v.txn_timestamp
BY DEF Holds, Covers

\* Where the versions of a key are.
LEMMA StoredHolds ==
  \A key : \A v : v \in Stored(key) <=>
    \/ key \in DOMAIN memtable /\ v = memtable[key]
    \/ \E i \in 0 .. numLevels - 1 : InLevel(i, key, v)
BY StoredElements, Zenon DEF InLevel, Holds

\* A stored version is a version.
LEMMA StoredFacts ==
  ASSUME IInv, NEW key, NEW v \in Stored(key)
  PROVE  key \in Keys /\ v \in Version /\ v.txn_timestamp \in Int
<1>1. CASE key \in DOMAIN memtable /\ v = memtable[key]
  <2>1. DOMAIN memtable \in SUBSET Keys
    BY PairMapDomain DEF IInv, TypeInv
  <2> QED
    BY <1>1, <2>1, MemtableVersions
<1>2. ASSUME NEW i \in 0 .. numLevels - 1, InLevel(i, key, v)
      PROVE  key \in Keys /\ v \in Version /\ v.txn_timestamp \in Int
  BY <1>2, SizeFacts, HoldsFacts DEF InLevel
<1> QED
  BY <1>1, <1>2, StoredHolds

\* Level 0 has one version of a key, if the memtable does not have the key.
LEMMA LevelHoldsOne ==
  ASSUME IInv, DataInv, NEW i \in 0 .. numLevels - 1, NEW key, NEW v, NEW w,
         i = 0 => key \notin DOMAIN memtable,
         InLevel(i, key, v), InLevel(i, key, w)
  PROVE  v = w
<1> DEFINE blocks == levels[i].recordHashes
<1>1. blocks \in Seq(GoodBlocks) /\ Len(blocks) \in Nat /\ DOMAIN blocks = 1 .. Len(blocks)
  BY SizeFacts, LenProperties
<1>2. CASE i # 0
  <2>1. i \in 1 .. numLevels - 1
    BY <1>2 DEF IInv, TypeInv
  <2>2. Sorted(blocks)
    BY <2>1 DEF DataInv, OrderInv
  <2> QED
    BY <1>1, <2>2, SortedHoldsOne DEF InLevel
<1>3. CASE i = 0
  <2>1. ASSUME NEW b \in DOMAIN blocks, key \in DOMAIN blocks[b].kvPairs
        PROVE  b = 1
    <3>1. Len(blocks) <= IF pc = "idle" THEN 1 ELSE 2
      BY <1>3 DEF IInv, SizeInv
    <3>2. pc # "idle" => blocks[Len(blocks)].kvPairs = memtable
      BY <1>3 DEF DataInv, MemInv
    <3>3. pc # "idle" => b # Len(blocks)
      BY <1>3, <2>1, <3>2
    <3> DEFINE l == Len(blocks)
    <3>4. /\ b \in 1 .. l /\ l \in Nat /\ l <= IF pc = "idle" THEN 1 ELSE 2
          /\ pc # "idle" => b # l
      BY <1>1, <3>1, <3>3
    <3> HIDE DEF l, blocks
    <3> QED
      BY <3>4
  <2>2. PICK b \in DOMAIN blocks : key \in DOMAIN blocks[b].kvPairs /\ v = blocks[b].kvPairs[key]
    BY DEF InLevel, Holds
  <2>3. PICK c \in DOMAIN blocks : key \in DOMAIN blocks[c].kvPairs /\ w = blocks[c].kvPairs[key]
    BY DEF InLevel, Holds
  <2> HIDE DEF blocks
  <2> QED
    BY <2>1, <2>2, <2>3
<1> QED
  BY <1>2, <1>3

-----------------------------------------------------------------------------
(***************************************************************************)
(* What get returns.                                                       *)
(***************************************************************************)

\* A level answers with a version it holds.
LEMMA LookupHolds ==
  ASSUME NEW level \in GoodLevels, level.numBlocks = Len(level.recordHashes), NEW key,
         Lookup(level, key) # NotFound
  PROVE  Holds(level.recordHashes, key, Lookup(level, key))
<1> DEFINE covering == Covering(level, key)
           i == Min(covering)
<1>1. level.recordHashes \in Seq(GoodBlocks)
  BY DEF GoodLevels, Level
<1>2. DOMAIN level.recordHashes = 1 .. level.numBlocks /\ level.numBlocks \in Nat
  BY <1>1, LenProperties
<1>3. covering \in SUBSET (1 .. level.numBlocks)
  BY DEF Covering
<1>4. /\ covering # {} /\ key \in DOMAIN level.recordHashes[i].kvPairs
      /\ Lookup(level, key) = level.recordHashes[i].kvPairs[key]
  BY DEF Lookup
<1> HIDE DEF covering
<1>5. i \in covering
  BY <1>2, <1>3, <1>4, MinNat
<1> HIDE DEF i
<1>6. i \in DOMAIN level.recordHashes
  BY <1>2, <1>3, <1>5
<1> QED
  BY <1>4, <1>6 DEF Holds

\* get returns the newest version of a key that is stored.
LEMMA GetIsNewest ==
  EmptyKey \notin Keys /\ IInv /\ DataInv /\ ReadInv =>
    \A key \in Keys :
      /\ Stored(key) = {} => get(key) = NotFound
      /\ Stored(key) # {} => /\ get(key) \in Stored(key)
                             /\ \A w \in Stored(key) : Newer(get(key), w)
<1> SUFFICES ASSUME EmptyKey \notin Keys, IInv, DataInv, ReadInv, NEW key \in Keys
             PROVE  /\ Stored(key) = {} => get(key) = NotFound
                    /\ Stored(key) # {} => /\ get(key) \in Stored(key)
                                           /\ \A w \in Stored(key) : Newer(get(key), w)
  OBVIOUS
<1>1. key # EmptyKey /\ RangesValid /\ locklst = DOMAIN memtable
  BY DEF RangesValid, IInv, TypeInv
<1>2. CASE key \in DOMAIN memtable
  <2>1. get(key) = memtable[key]
    BY <1>1, <1>2 DEF get
  <2>2. memtable[key] \in Stored(key)
    BY <1>2, StoredHolds
  <2> QED
    BY <1>2, <2>1, <2>2 DEF ReadInv, MemtableNewest
<1>3. CASE key \notin DOMAIN memtable /\ Hits(key) = {}
  <2>1. get(key) = NotFound
    BY <1>1, <1>3 DEF get
  <2>2. Stored(key) = {}
    BY <1>1, <2>1, FoundWhenStored DEF StoredIsFound
  <2> QED
    BY <2>1, <2>2
<1>4. CASE key \notin DOMAIN memtable /\ Hits(key) # {}
  <2> DEFINE i == Min(Hits(key))
             v == Lookup(levels[i], key)
  <2>1. Hits(key) \in SUBSET Nat /\ Hits(key) \in SUBSET (0 .. numLevels - 1)
    BY DEF Hits
  <2>2. i \in Hits(key) /\ \A h \in Hits(key) : i <= h
    BY <1>4, <2>1, MinNat
  <2>3. get(key) = v
    BY <1>1, <1>4 DEF get
  <2> HIDE DEF i
  <2>4. i \in 0 .. numLevels - 1 /\ v # NotFound
    BY <2>1, <2>2 DEF Hits
  <2>5. levels[i] \in GoodLevels /\ levels[i].numBlocks = Len(levels[i].recordHashes)
    <3>1. i = 0 \/ i \in 1 .. numLevels - 1
      BY <2>4 DEF IInv, TypeInv
    <3> QED
      BY <2>4, <3>1, SizeFacts DEF DataInv, RangeInv, InRange, IInv, SizeInv
  <2>6. InLevel(i, key, v)
    BY <2>4, <2>5, LookupHolds DEF InLevel
  <2>7. v \in Stored(key) /\ v \in Version
    BY <2>4, <2>6, StoredHolds, StoredFacts
  <2> HIDE DEF v
  <2>8. ASSUME NEW w \in Stored(key)
        PROVE  Newer(v, w)
    <3>1. PICK j \in 0 .. numLevels - 1 : InLevel(j, key, w)
      BY <1>4, <2>8, StoredHolds
    <3>2. w \in Version
      BY <2>8, StoredFacts
    <3>3. Lookup(levels[j], key) # NotFound
      <4>1. PICK b \in DOMAIN levels[j].recordHashes :
              key \in DOMAIN levels[j].recordHashes[b].kvPairs
        BY <3>1 DEF InLevel, Holds
      <4> QED
        BY <1>1, <1>4, <4>1, LevelFinds
    <3>4. i <= j
      BY <2>2, <3>3 DEF Hits
    <3>5. CASE i = j
      <4>1. v = w
        BY <1>4, <2>4, <2>6, <3>1, <3>5, LevelHoldsOne
      <4> QED
        BY <3>2, <4>1, NewerItself
    <3>6. CASE i # j
      <4>1. i < j
        BY <2>1, <2>2, <3>4, <3>6
      <4> QED
        BY <1>4, <2>4, <2>6, <2>7, <3>1, <3>2, <4>1 DEF ReadInv, ShadowInv
    <3> QED
      BY <3>5, <3>6
  <2> QED
    BY <2>3, <2>7, <2>8 DEF v
<1> QED
  BY <1>2, <1>3, <1>4

-----------------------------------------------------------------------------
(***************************************************************************)
(* Where the versions that a step leaves behind come from.                 *)
(***************************************************************************)

\* A version of a key of the memtable in the source blocks of the outermost
\* call is as late as that of the memtable: merge has let the newest through.
LEMMA SourceOfMemtable ==
  ASSUME IInv, DataInv,
         pc \in {"compactHelper", "return"}, Len(frames) >= 1,
         NEW key \in DOMAIN memtable, NEW v, Holds(frames[1].sourceVec, key, v)
  PROVE  Newer(v, memtable[key])
<1> DEFINE source == frames[1].sourceVec
           blocks == levels[0].recordHashes
           m == memtable[key]
<1>1. /\ 1 \in 1 .. Len(frames) /\ 0 \in 0 .. Len(frames) /\ 0 < Len(frames)
      /\ 0 \in 0 .. numLevels - 1
  BY FrameFacts DEF IInv, TypeInv
<1>2. source \in Seq(GoodBlocks) /\ Sorted(source)
      /\ blocks \in Seq(GoodBlocks) /\ Len(blocks) \in Nat
  BY <1>1, FrameFacts, SizeFacts DEF DataInv, OrderInv
<1>3. Len(blocks) >= 1 /\ blocks[Len(blocks)].kvPairs = memtable
  BY DEF DataInv, MemInv
<1>4. Len(blocks) \in DOMAIN blocks
  <2> HIDE DEF blocks
  <2> QED
    BY <1>2, <1>3, LenProperties
<1>5. Kept(0) = << >> /\ Below(0) = source
  BY <1>1 DEF Kept, Below
<1>6. CoveredBy(blocks, << >>, source)
  BY <1>1, <1>5 DEF DataInv, CoverInv, Pending
<1>7. Covers(source, key, m)
  <2> HIDE DEF source, blocks
  <2>1. ~ Covers(<< >>, key, m)
    BY DEF Covers
  <2> QED
    BY <1>3, <1>4, <1>6, <2>1 DEF CoveredBy
<1>8. m \in Version /\ m.txn_timestamp \in Int
  BY MemtableVersions
<1>9. PICK u : Holds(source, key, u) /\ u.txn_timestamp >= m.txn_timestamp
  BY <1>2, <1>7, <1>8, HoldsCovers
<1>10. u = v /\ key \in Keys /\ v \in Version /\ v.txn_timestamp \in Int
  BY <1>2, <1>9, SortedHoldsOne, HoldsFacts
<1> QED
  BY <1>9, <1>10 DEF Newer

\* The put of this version inserts it into the memtable in this step.
Inserts(k, version) ==
  \/ PutLater(k, version)
  \/ PutNew(k, version)
  \/ PutWriteOut(k, version)
  \/ CompactReturn /\ k = payload.key /\ version = payload.version

Quiet == \A k \in Keys, version \in Version : ~ Inserts(k, version)

\* A step that inserts nothing leaves the memtable alone; one that does
\* changes no other key of the memtable, unless it starts it over.
LEMMA InsertFacts ==
  ASSUME IInv, [Next]_vars
  PROVE  /\ Quiet => UNCHANGED memtable
         /\ \A k \in Keys, version \in Version : Inserts(k, version) =>
              /\ k \in DOMAIN memtable' /\ memtable'[k] = version
              /\ \A x \in DOMAIN memtable' : x # k =>
                   x \in DOMAIN memtable /\ memtable'[x] = memtable[x]
<1>1. locklst = DOMAIN memtable
  BY DEF IInv, TypeInv
<1>2. ASSUME Quiet
      PROVE  UNCHANGED memtable
  <2>1. ~ CompactReturn
    <3>1. CompactReturn => payload.key \in Keys /\ payload.version \in Version
      BY DEF CompactReturn, IInv, TypeInv, Payload
    <3> QED
      BY <1>2, <3>1 DEF Quiet, Inserts
  <2>2. ASSUME NEW k \in Keys, NEW version \in Version, put(k, version)
        PROVE  UNCHANGED memtable
    BY <1>2, <2>2 DEF put, Quiet, Inserts, PutEarlier, PutCompact, vars
  <2> QED
    BY <2>1, <2>2 DEF Next, Compaction, vars, CompactMergeL0, CompactCall, HelperEvict,
       HelperFits, HelperReturn, HelperMerge
<1>3. ASSUME NEW k \in Keys, NEW version \in Version, Inserts(k, version)
      PROVE  /\ k \in DOMAIN memtable' /\ memtable'[k] = version
             /\ \A x \in DOMAIN memtable' : x # k =>
                  x \in DOMAIN memtable /\ memtable'[x] = memtable[x]
  <2>1. CASE PutLater(k, version)
    <3>1. /\ memtable' = [memtable EXCEPT ![k] = version]
          /\ k \in DOMAIN memtable
      BY <1>1, <2>1 DEF PutLater
    <3> QED
      BY <3>1
  <2>2. CASE PutNew(k, version)
    <3>1. memtable' = [x \in DOMAIN memtable \cup {k} |->
                         IF x = k THEN version ELSE memtable[x]]
      BY <2>2 DEF PutNew
    <3> QED
      BY <3>1
  <2>3. CASE \/ PutWriteOut(k, version)
             \/ CompactReturn /\ k = payload.key /\ version = payload.version
    <3>1. memtable' = [x \in {k} |-> version]
      BY <2>3 DEF PutWriteOut, CompactReturn, StartOver
    <3> QED
      BY <3>1
  <2> QED
    BY <1>3, <2>1, <2>2, <2>3 DEF Inserts
<1> QED
  BY <1>2, <1>3

\* A write-out that starts no compaction finds level 0 empty.
LEMMA WriteOutRoom ==
  ASSUME IInv, NEW k \in Keys, NEW version \in Version, PutWriteOut(k, version)
  PROVE  levels[0].recordHashes = << >>
<1> DEFINE blocks == levels[0].recordHashes
           block == MemtableBlock(memtable)
<1>1. levels'[0].recordHashes = Append(blocks, block) /\ block \in GoodBlocks
  BY WriteOutView
<1>2. Len(levels'[0].recordHashes) <= 1
  BY PutWriteOutStep DEF IInv, SizeInv, PutWriteOut, call
<1>3. 0 \in 0 .. numLevels - 1
  BY DEF IInv, TypeInv
<1>4. blocks \in Seq(GoodBlocks) /\ Len(blocks) \in Nat
  BY <1>3, SizeFacts
<1> HIDE DEF blocks, block
<1>5. Len(Append(blocks, block)) = Len(blocks) + 1
  BY <1>1, <1>4, AppendProperties
<1>6. Len(blocks) = 0
  BY <1>1, <1>2, <1>4, <1>5
<1> QED
  BY <1>4, <1>6, EmptySeq DEF blocks

\* Only a write-out takes keys out of the memtable.
LEMMA MemtableGrows ==
  ASSUME IInv, [Next]_vars, ~ CompactReturn,
         \A k \in Keys, version \in Version : ~ PutWriteOut(k, version)
  PROVE  DOMAIN memtable \subseteq DOMAIN memtable'
<1>1. CASE Quiet
  BY <1>1, InsertFacts
<1>2. ASSUME NEW k \in Keys, NEW version \in Version, PutLater(k, version) \/ PutNew(k, version)
      PROVE  DOMAIN memtable \subseteq DOMAIN memtable'
  <2>1. CASE PutLater(k, version)
    <3>1. memtable' = [memtable EXCEPT ![k] = version]
      BY <2>1 DEF PutLater
    <3> QED
      BY <3>1
  <2>2. CASE PutNew(k, version)
    <3>1. memtable' = [x \in DOMAIN memtable \cup {k} |->
                         IF x = k THEN version ELSE memtable[x]]
      BY <2>2 DEF PutNew
    <3> QED
      BY <3>1
  <2> QED
    BY <1>2, <2>1, <2>2
<1> QED
  BY <1>1, <1>2 DEF Quiet, Inserts

\* compactHelper merges its source blocks into its level.
MergeStep ==
  /\ pc \in {"compactHelper", "return"} /\ pc' = "return"
  /\ Depth \in 1 .. numLevels - 1 /\ Depth = Len(frames) /\ Depth \in 1 .. Len(frames)
  /\ numLevels' = numLevels
  /\ \A i \in 0 .. numLevels - 1 : i # Depth => levels'[i] = levels[i]
  /\ UNCHANGED memtable

\* A version in a level has been there before, or comes from the memtable or
\* from the source blocks of a call.
LEMMA Origin ==
  ASSUME IInv, SourceInv, [Next]_vars,
         NEW j \in 0 .. numLevels' - 1, NEW key, NEW v, InLevel(j, key, v)'
  PROVE  \/ /\ j \in 0 .. numLevels - 1 /\ InLevel(j, key, v)
            /\ j = 0 /\ key \in DOMAIN memtable => key \in DOMAIN memtable'
         \/ j = 0 /\ key \in DOMAIN memtable /\ v = memtable[key]
         \/ MergeStep /\ j = Depth /\ Holds(Source, key, v)
<1> DEFINE Old == /\ j \in 0 .. numLevels - 1 /\ InLevel(j, key, v)
                  /\ j = 0 /\ key \in DOMAIN memtable => key \in DOMAIN memtable'
           Written == j = 0 /\ key \in DOMAIN memtable /\ v = memtable[key]
           Merged == MergeStep /\ j = Depth /\ Holds(Source, key, v)
<1>0. numLevels \in Nat \ {0} /\ 0 \in 0 .. numLevels - 1
  BY DEF IInv, TypeInv
<1>1. Holds(levels'[j].recordHashes, key, v)
  BY DEF InLevel
<1>2. ASSUME levels' = levels, numLevels' = numLevels, ~ CompactReturn,
             \A k \in Keys, version \in Version : ~ PutWriteOut(k, version)
      PROVE  Old
  BY <1>1, <1>2, MemtableGrows DEF InLevel
<1>3. ASSUME NEW k \in Keys, NEW version \in Version,
             PutWriteOut(k, version) \/ PutCompact(k, version)
      PROVE  Old \/ Written
  <2> DEFINE blocks == levels[0].recordHashes
             block == MemtableBlock(memtable)
  <2>1. /\ numLevels' = numLevels /\ block \in GoodBlocks
        /\ levels'[0].recordHashes = Append(blocks, block)
        /\ \A i \in 1 .. numLevels - 1 : levels'[i] = levels[i]
    BY <1>3, WriteOutView
  <2>2. CASE j # 0
    <3>1. j \in 1 .. numLevels - 1
      BY <1>0, <2>1, <2>2
    <3> QED
      BY <1>1, <2>1, <2>2, <3>1 DEF InLevel
  <2>3. CASE j = 0
    <3>1. blocks \in Seq(GoodBlocks) /\ Len(blocks) \in Nat
      BY <1>0, SizeFacts
    <3>2. block.kvPairs = memtable
      BY DEF MemtableBlock
    <3>3. PutWriteOut(k, version) => blocks = << >>
      BY WriteOutRoom
    <3>4. PutCompact(k, version) => memtable' = memtable
      BY DEF PutCompact
    <3>5. Holds(Append(blocks, block), key, v)
      BY <1>1, <2>1, <2>3
    <3> HIDE DEF blocks, block
    <3>6. PICK b \in DOMAIN Append(blocks, block) :
            /\ key \in DOMAIN Append(blocks, block)[b].kvPairs
            /\ v = Append(blocks, block)[b].kvPairs[key]
      BY <3>5 DEF Holds
    <3>7. /\ b \in 1 .. Len(blocks) + 1 /\ DOMAIN blocks = 1 .. Len(blocks)
          /\ b \in 1 .. Len(blocks) => Append(blocks, block)[b] = blocks[b]
          /\ b = Len(blocks) + 1 => Append(blocks, block)[b] = block
      BY <2>1, <3>1, <3>6, AppendProperties, LenProperties
    <3>8. CASE b = Len(blocks) + 1
      BY <2>3, <3>2, <3>6, <3>7, <3>8
    <3>9. CASE b # Len(blocks) + 1
      <4>1. b \in DOMAIN blocks
        BY <3>1, <3>7, <3>9
      <4>2. Holds(blocks, key, v)
        BY <3>6, <3>7, <4>1 DEF Holds
      <4>3. ~ PutWriteOut(k, version)
        BY <3>3, <4>2 DEF Holds
      <4> QED
        BY <1>0, <1>3, <2>3, <3>4, <4>2, <4>3 DEF InLevel, blocks
    <3> QED
      BY <3>8, <3>9
  <2> QED
    BY <2>2, <2>3
<1>4. CASE CompactCall \/ HelperEvict
  <2>1. Grows /\ memtable' = memtable
    BY <1>4, CompactCallView, HelperEvictView DEF CompactCall, HelperEvict
  <2>2. CASE j \in 0 .. numLevels - 1
    BY <1>1, <2>1, <2>2 DEF InLevel, Grows
  <2>3. CASE j \notin 0 .. numLevels - 1
    <3>1. PICK n \in Nat : n = numLevels'
      BY <2>1 DEF Grows
    <3>2. j \in 0 .. n - 1
      BY <3>1
    <3>3. j \in numLevels .. n - 1
      BY <1>0, <2>3, <3>2
    <3>4. levels'[j].recordHashes = << >>
      BY <2>1, <3>1, <3>3 DEF Grows
    <3> QED
      BY <1>1, <3>4 DEF Holds
  <2> QED
    BY <2>2, <2>3
<1>5. CASE HelperFits \/ HelperReturn
  <2>1. PICK kept \in Seq(GoodBlocks) :
          /\ kept = IF pc = "compactHelper" THEN Dest ELSE frames[Depth].remainingBlocks
          /\ pc \in {"compactHelper", "return"} /\ pc' = "return"
          /\ Depth \in 1 .. numLevels - 1 /\ Depth = Len(frames) /\ Depth \in Nat
          /\ Source \in Seq(GoodBlocks)
          /\ numLevels' = numLevels
          /\ levels'[Depth].recordHashes = merge(Source, kept)
          /\ \A i \in 0 .. numLevels - 1 : i # Depth => levels'[i] = levels[i]
          /\ UNCHANGED memtable
    BY <1>5, HelperMergeView
  <2>2. Depth \in 1 .. Len(frames) /\ MergeStep
    <3>1. Depth \in 1 .. Len(frames)
      BY <2>1
    <3> QED
      BY <2>1, <3>1 DEF MergeStep
  <2>3. CASE j # Depth
    BY <1>1, <2>1, <2>3 DEF InLevel
  <2>4. CASE j = Depth
    <3>1. Holds(merge(Source, kept), key, v)
      BY <1>1, <2>1, <2>4
    <3>2. CASE Holds(Source, key, v)
      BY <2>2, <2>4, <3>2
    <3>3. CASE Holds(kept, key, v)
      <4>1. key \in Keys /\ v \in Version
        BY <3>3, HoldsFacts
      <4>2. InLevel(Depth, key, v)
        BY <2>1, <2>2, <3>3, <4>1 DEF SourceInv, Pending, InLevel, Dest
      <4> QED
        BY <1>0, <2>1, <2>4, <4>2
    <3> QED
      BY <2>1, <3>1, <3>2, <3>3, MergeHolds
  <2> QED
    BY <2>3, <2>4
<1>6. CASE CompactReturn
  <2>1. /\ numLevels' = numLevels /\ levels'[0].recordHashes = << >>
        /\ \A i \in 1 .. numLevels - 1 : levels'[i] = levels[i]
    BY <1>6, CompactReturnView
  <2>2. j # 0
    BY <1>1, <2>1 DEF Holds
  <2>3. j \in 1 .. numLevels - 1
    BY <1>0, <2>1, <2>2
  <2> QED
    BY <1>1, <2>1, <2>2, <2>3 DEF InLevel
<1>7. UNCHANGED <<levels, numLevels>> \/ CompactCall \/ HelperEvict \/ HelperFits
      \/ HelperReturn \/ CompactReturn
      \/ \E k \in Keys, version \in Version : PutWriteOut(k, version) \/ PutCompact(k, version)
  BY StepCases DEF CompactMergeL0, index
<1>8. Old \/ Written \/ Merged
  <2>1. CASE CompactReturn \/ \E k \in Keys, version \in Version : PutWriteOut(k, version)
    BY <1>3, <1>6, <2>1
  <2>2. CASE ~ CompactReturn /\ \A k \in Keys, version \in Version : ~ PutWriteOut(k, version)
    BY <1>2, <1>3, <1>4, <1>5, <1>7, <2>2
  <2> QED
    BY <2>1, <2>2
<1> QED
  BY <1>8

\* The version that a step merges into a level was in the level above.
LEMMA MergedFromAbove ==
  ASSUME IInv, SourceInv, MergeStep, NEW key, NEW v, Holds(Source, key, v)
  PROVE  /\ key \in Keys /\ v \in Version
         /\ Depth \in Nat /\ Depth - 1 \in 0 .. numLevels - 1
         /\ InLevel(Depth - 1, key, v)
<1>1. Depth \in 1 .. numLevels - 1 /\ Depth \in 1 .. Len(frames) /\ numLevels \in Nat
  BY DEF MergeStep, IInv, TypeInv
<1>2. Source \in Seq(GoodBlocks) /\ Source = frames[Depth].sourceVec
  BY <1>1, FrameFacts DEF Source
<1>3. key \in Keys /\ v \in Version
  BY <1>2, HoldsFacts
<1>4. InLevel(Depth - 1, key, v)
  BY <1>1, <1>2, <1>3 DEF SourceInv
<1> QED
  BY <1>1, <1>3, <1>4

\* A step leaves no version in a level that was not stored.
LEMMA OriginStored ==
  IInv /\ SourceInv /\ [Next]_vars =>
    \A j \in 0 .. numLevels' - 1 : \A key, v : InLevel(j, key, v)' => v \in Stored(key)
<1> SUFFICES ASSUME IInv, SourceInv, [Next]_vars,
                    NEW j \in 0 .. numLevels' - 1, NEW key, NEW v, InLevel(j, key, v)'
             PROVE  v \in Stored(key)
  OBVIOUS
<1>1. CASE j \in 0 .. numLevels - 1 /\ InLevel(j, key, v)
  BY <1>1, StoredHolds
<1>2. CASE key \in DOMAIN memtable /\ v = memtable[key]
  BY <1>2, StoredHolds
<1>3. CASE MergeStep /\ Holds(Source, key, v)
  BY <1>3, MergedFromAbove, StoredHolds
<1> QED
  BY <1>1, <1>2, <1>3, Origin

\* Newer versions go on shadowing older ones: a merge moves a version down by
\* one level only.
LEMMA ShadowNext ==
  ASSUME IInv, DataInv, ReadInv, [Next]_vars
  PROVE  ShadowInv'
<1> SUFFICES ASSUME NEW key \in Keys, NEW v \in Version, NEW w \in Version,
                    NEW i \in 0 .. numLevels' - 1, NEW j \in 0 .. numLevels' - 1,
                    i < j, i = 0 => key \notin DOMAIN memtable',
                    InLevel(i, key, v)', InLevel(j, key, w)'
             PROVE  Newer(v, w)
  BY DEF ShadowInv
<1>1. SourceInv /\ ShadowInv /\ MemtableNewest
  BY DEF ReadInv
<1>2. i \in Int /\ j \in Int
  OBVIOUS
<1>3. w \in Stored(key)
  BY <1>1, OriginStored
<1>4. CASE key \in DOMAIN memtable /\ v = memtable[key]
  BY <1>1, <1>3, <1>4 DEF MemtableNewest
<1>5. CASE MergeStep /\ i = Depth /\ Holds(Source, key, v)
  <2>1. /\ Depth \in Nat /\ Depth - 1 \in 0 .. numLevels - 1
        /\ InLevel(Depth - 1, key, v)
    BY <1>1, <1>5, MergedFromAbove
  <2>2. j \in 0 .. numLevels - 1 /\ InLevel(j, key, w)
    <3>1. numLevels' = numLevels /\ levels'[j] = levels[j]
      BY <1>2, <1>5 DEF MergeStep
    <3> QED
      BY <3>1 DEF InLevel
  <2>3. CASE Depth = 1 /\ key \in DOMAIN memtable
    <3>1. /\ Len(frames) >= 1 /\ pc \in {"compactHelper", "return"}
          /\ Holds(frames[1].sourceVec, key, v)
      BY <1>5, <2>3 DEF MergeStep, Source
    <3>2. Newer(v, memtable[key])
      BY <1>1, <2>3, <3>1, SourceOfMemtable
    <3>3. Newer(memtable[key], w) /\ memtable[key] \in Version
      BY <1>1, <1>3, <2>3, MemtableVersions DEF MemtableNewest
    <3> QED
      BY <3>2, <3>3, NewerTransitive
  <2>4. CASE ~ (Depth = 1 /\ key \in DOMAIN memtable)
    <3>1. Depth - 1 < j /\ (Depth - 1 = 0 => key \notin DOMAIN memtable)
      BY <1>2, <1>5, <2>1, <2>4
    <3> HIDE DEF Depth
    <3> QED
      BY <1>1, <2>1, <2>2, <3>1 DEF ShadowInv
  <2> QED
    BY <2>3, <2>4
<1>6. CASE /\ i \in 0 .. numLevels - 1 /\ InLevel(i, key, v)
           /\ i = 0 /\ key \in DOMAIN memtable => key \in DOMAIN memtable'
  <2>1. i = 0 => key \notin DOMAIN memtable
    BY <1>6
  <2>2. CASE j \in 0 .. numLevels - 1 /\ InLevel(j, key, w)
    BY <1>1, <1>6, <2>1, <2>2 DEF ShadowInv
  <2>3. CASE MergeStep /\ j = Depth /\ Holds(Source, key, w)
    <3>1. /\ Depth \in Nat /\ Depth - 1 \in 0 .. numLevels - 1
          /\ InLevel(Depth - 1, key, w)
      BY <1>1, <2>3, MergedFromAbove
    <3>2. CASE i = Depth - 1
      <4>1. v = w
        BY <1>6, <2>1, <3>1, <3>2, LevelHoldsOne
      <4> QED
        BY <4>1, NewerItself
    <3>3. CASE i # Depth - 1
      <4>1. i < Depth - 1
        BY <1>2, <2>3, <3>1, <3>3
      <4> HIDE DEF Depth
      <4> QED
        BY <1>1, <1>6, <2>1, <3>1, <4>1 DEF ShadowInv
    <3> QED
      BY <3>2, <3>3
  <2>4. j # 0
    BY <1>2
  <2> QED
    BY <1>1, <2>2, <2>3, <2>4, Origin
<1> QED
  BY <1>1, <1>4, <1>5, <1>6, Origin

\* What a call holds stays in the level it was taken from until the call that
\* took it has returned.
LEMMA SourceNext ==
  ASSUME IInv, SourceInv, [Next]_vars
  PROVE  SourceInv'
<1>0. numLevels \in Nat \ {0} /\ 0 \in 0 .. numLevels - 1
  BY DEF IInv, TypeInv
<1>1. CASE UNCHANGED <<numLevels, levels, pc, l0Ind, frames>>
  BY <1>1 DEF SourceInv, Pending, InLevel
<1>2. ASSUME NEW k \in Keys, NEW version \in Version, PutWriteOut(k, version)
      PROVE  SourceInv'
  <2>1. frames' = << >>
    BY <1>2 DEF PutWriteOut, call, IInv, CallInv
  <2>2. Len(frames') = 0 /\ 1 .. 0 = {}
    BY <2>1
  <2> QED
    BY <2>2 DEF SourceInv
<1>3. ASSUME NEW k \in Keys, NEW version \in Version, PutCompact(k, version)
      PROVE  SourceInv'
  <2> DEFINE blocks == levels'[0].recordHashes
             first == blocks[1]
  <2>1. /\ levels'[0] = addBlock(levels[0], MemtableBlock(memtable))
        /\ blocks = Append(levels[0].recordHashes, MemtableBlock(memtable))
        /\ MemtableBlock(memtable) \in GoodBlocks
    BY <1>3, WriteOutView
  <2>2. frames' = <<[sourceVec |-> <<first>>, remainingBlocks |-> << >>]>>
    BY <1>3, <2>1 DEF PutCompact
  <2>3. levels[0].recordHashes \in Seq(GoodBlocks)
    BY <1>0, SizeFacts
  <2> HIDE DEF blocks
  <2>4. blocks \in Seq(GoodBlocks) /\ Len(blocks) \in Nat /\ Len(blocks) >= 1
    BY <2>1, <2>3, AppendProperties, LenProperties
  <2>5. 1 \in DOMAIN blocks
    BY <2>4, LenProperties
  <2> HIDE DEF first
  <2>6. ASSUME NEW f \in 1 .. Len(frames')
        PROVE  f = 1 /\ frames'[f].sourceVec = <<first>> /\ ~ Pending(f)'
    <3>1. Len(frames') = 1 /\ pc' = "compact"
      BY <1>3, <2>2 DEF PutCompact
    <3>2. f = 1
      BY <3>1
    <3> QED
      BY <2>2, <3>1, <3>2 DEF Pending
  <2>8. ASSUME NEW key, NEW v, Holds(<<first>>, key, v)
        PROVE  Holds(blocks, key, v)
    <3>1. key \in DOMAIN first.kvPairs /\ v = first.kvPairs[key]
      <4>1. DOMAIN <<first>> = {1} /\ <<first>>[1] = first
        OBVIOUS
      <4> QED
        BY <2>8, <4>1 DEF Holds
    <3> QED
      BY <2>5, <3>1 DEF Holds, first
  <2>9. ASSUME NEW f \in 1 .. Len(frames'), NEW key, NEW v
        PROVE  /\ Holds(frames'[f].sourceVec, key, v) => InLevel(f - 1, key, v)'
               /\ Pending(f)' /\ Holds(frames'[f].remainingBlocks, key, v) => InLevel(f, key, v)'
    <3>1. f - 1 = 0
      BY <2>6
    <3> QED
      BY <2>6, <2>8, <3>1 DEF InLevel, blocks
  <2> QED
    BY <2>9 DEF SourceInv
<1>4. CASE CompactMergeL0
  <2> DEFINE blocks == levels[0].recordHashes
             next == blocks[l0Ind + 1]
             source == frames[1].sourceVec
  <2>1. /\ Len(frames) = 1 /\ Len(frames') = 1
        /\ l0Ind + 1 \in DOMAIN blocks /\ next \in GoodBlocks
        /\ frames'[1].sourceVec = merge(source, <<next>>)
        /\ frames'[1].remainingBlocks = frames[1].remainingBlocks
    BY <1>4, CompactMergeL0View
  <2>2. levels' = levels
    BY <1>4 DEF CompactMergeL0, index
  <2>3. 1 \in 1 .. Len(frames) /\ source \in Seq(GoodBlocks)
    BY <2>1, FrameFacts
  <2> HIDE DEF source
  <2>4. <<next>> \in Seq(GoodBlocks)
    BY <2>1
  <2>5. ASSUME NEW key, NEW v, Holds(<<next>>, key, v)
        PROVE  Holds(blocks, key, v)
    <3>1. key \in DOMAIN next.kvPairs /\ v = next.kvPairs[key]
      <4> HIDE DEF next
      <4>1. DOMAIN <<next>> = {1} /\ <<next>>[1] = next
        OBVIOUS
      <4> QED
        BY <2>5, <4>1 DEF Holds
    <3> QED
      BY <2>1, <3>1 DEF Holds
  <2> HIDE DEF blocks, next
  <2>6. ASSUME NEW f \in 1 .. Len(frames'), NEW key \in Keys, NEW v \in Version
        PROVE  /\ Holds(frames'[f].sourceVec, key, v) => InLevel(f - 1, key, v)'
               /\ Pending(f)' /\ Holds(frames'[f].remainingBlocks, key, v) => InLevel(f, key, v)'
    <3>1. f = 1 /\ f - 1 = 0
      BY <2>1
    <3>2. ~ Pending(f)'
      BY <1>4, <2>1, <3>1 DEF Pending, CompactMergeL0
    <3>3. Holds(source, key, v) => InLevel(0, key, v)
      <4>1. Holds(source, key, v) => InLevel(1 - 1, key, v)
        BY <2>3 DEF SourceInv, source
      <4> QED
        BY <4>1
    <3>4. Holds(merge(source, <<next>>), key, v) => InLevel(0, key, v)
      BY <2>3, <2>4, <2>5, <3>3, MergeHolds DEF InLevel, blocks
    <3> QED
      BY <2>1, <2>2, <3>1, <3>2, <3>4 DEF InLevel
  <2> QED
    BY <2>6 DEF SourceInv
<1>5. CASE CompactCall
  <2>1. /\ Grows /\ frames' = frames /\ pc' = "compactHelper"
        /\ Len(frames) = 1 /\ 1 \in 1 .. Len(frames)
    <3>1. Grows /\ Len(frames) = 1
      BY <1>5, CompactCallView
    <3>2. frames' = frames /\ pc' = "compactHelper"
      BY <1>5 DEF CompactCall
    <3> QED
      BY <3>1, <3>2
  <2>2. ASSUME NEW f \in 1 .. Len(frames'), NEW key \in Keys, NEW v \in Version
        PROVE  /\ Holds(frames'[f].sourceVec, key, v) => InLevel(f - 1, key, v)'
               /\ Pending(f)' /\ Holds(frames'[f].remainingBlocks, key, v) => InLevel(f, key, v)'
    <3>1. f = 1 /\ f - 1 = 0 /\ ~ Pending(f)'
      <4>1. f = 1
        BY <2>1
      <4> QED
        BY <2>1, <4>1 DEF Pending
    <3>2. levels'[f - 1] = levels[f - 1]
      BY <1>0, <2>1, <3>1 DEF Grows
    <3>3. f \in 1 .. Len(frames)
      BY <2>1
    <3>4. Holds(frames[f].sourceVec, key, v) => InLevel(f - 1, key, v)
      BY <3>3 DEF SourceInv
    <3> QED
      BY <2>1, <3>1, <3>2, <3>4 DEF InLevel
  <2> QED
    BY <2>2 DEF SourceInv
<1>6. CASE HelperEvict
  <2> DEFINE n == EvictCount(Source, Dest)
  <2>1. /\ Grows /\ Depth \in 1 .. numLevels - 1
        /\ Len(frames') = Depth + 1
        /\ Dest \in Seq(GoodBlocks) /\ n \in 0 .. Len(Dest)
        /\ \A f \in 1 .. Depth - 1 : frames'[f] = frames[f]
        /\ frames'[Depth].sourceVec = Source
        /\ frames'[Depth].remainingBlocks = SubSeq(Dest, n + 1, Len(Dest))
        /\ frames'[Depth + 1].sourceVec = SubSeq(Dest, 1, n)
        /\ frames'[Depth + 1].remainingBlocks = << >>
    BY <1>6, HelperEvictView
  <2> HIDE DEF n
  <2>2. Depth \in Nat /\ Len(frames) = Depth
    BY <2>1 DEF Depth
  <2> DEFINE d == Depth
  <2>3. /\ d \in Nat /\ d >= 1 /\ d \in 1 .. numLevels - 1 /\ Len(frames) = d
        /\ Len(frames') = d + 1
        /\ levels[d].recordHashes = Dest /\ frames[d].sourceVec = Source
    BY <2>1, <2>2 DEF Dest, Source
  <2> HIDE DEF d
  <2>4. \A h \in 0 .. d : levels'[h] = levels[h]
    BY <1>0, <2>1, <2>3 DEF Grows
  <2>5. \A key, v : ~ Holds(<< >>, key, v)
    BY DEF Holds
  <2>6. ASSUME NEW f \in 1 .. Len(frames'), NEW key \in Keys, NEW v \in Version
        PROVE  /\ Holds(frames'[f].sourceVec, key, v) => InLevel(f - 1, key, v)'
               /\ Pending(f)' /\ Holds(frames'[f].remainingBlocks, key, v) => InLevel(f, key, v)'
    <3>1. CASE f = d + 1
      <4>1. f - 1 = d /\ d \in 0 .. d
        BY <2>3, <3>1
      <4>2. Holds(SubSeq(Dest, 1, n), key, v) => Holds(Dest, key, v)
        BY <2>1, PartsHold
      <4>3. /\ frames'[f].sourceVec = SubSeq(Dest, 1, n)
            /\ frames'[f].remainingBlocks = << >>
        BY <2>1, <3>1 DEF d
      <4> QED
        BY <2>3, <2>4, <2>5, <4>1, <4>2, <4>3 DEF InLevel
    <3>2. CASE f = d
      <4>1. f \in 1 .. Len(frames) /\ f - 1 \in 0 .. d /\ f \in 0 .. d
        BY <2>3, <3>2
      <4>2. Holds(SubSeq(Dest, n + 1, Len(Dest)), key, v) => Holds(Dest, key, v)
        BY <2>1, PartsHold
      <4>3. /\ frames'[f].sourceVec = frames[f].sourceVec
            /\ frames'[f].remainingBlocks = SubSeq(Dest, n + 1, Len(Dest))
        BY <2>1, <2>3, <3>2 DEF d
      <4>4. Holds(frames[f].sourceVec, key, v) => InLevel(f - 1, key, v)
        BY <4>1 DEF SourceInv
      <4> QED
        BY <2>3, <2>4, <3>2, <4>1, <4>2, <4>3, <4>4 DEF InLevel
    <3>3. CASE f # d + 1 /\ f # d
      <4>1. /\ f \in 1 .. Len(frames) /\ f - 1 \in 0 .. d /\ f \in 0 .. d
            /\ f \in 1 .. d - 1 /\ f < Len(frames)
        BY <2>3, <3>3
      <4>2. frames'[f] = frames[f]
        BY <2>1, <4>1 DEF d
      <4>3. /\ Holds(frames[f].sourceVec, key, v) => InLevel(f - 1, key, v)
            /\ Holds(frames[f].remainingBlocks, key, v) => InLevel(f, key, v)
        BY <4>1 DEF SourceInv, Pending
      <4> QED
        BY <2>4, <4>1, <4>2, <4>3 DEF InLevel
    <3> QED
      BY <3>1, <3>2, <3>3
  <2> QED
    BY <2>6 DEF SourceInv
<1>7. CASE HelperFits \/ HelperReturn
  <2>1. /\ Depth \in 1 .. numLevels - 1 /\ Depth = Len(frames) /\ Depth \in Nat
        /\ numLevels' = numLevels
        /\ \A i \in 0 .. numLevels - 1 : i # Depth => levels'[i] = levels[i]
        /\ Len(frames') = Depth - 1
        /\ \A f \in 1 .. Depth - 1 : frames'[f] = frames[f]
    BY <1>7, HelperMergeView
  <2>2. ASSUME NEW f \in 1 .. Len(frames'), NEW key \in Keys, NEW v \in Version
        PROVE  /\ Holds(frames'[f].sourceVec, key, v) => InLevel(f - 1, key, v)'
               /\ Pending(f)' /\ Holds(frames'[f].remainingBlocks, key, v) => InLevel(f, key, v)'
    <3>1. /\ f \in 1 .. Depth - 1 /\ f \in 1 .. Len(frames) /\ f < Len(frames)
          /\ f \in 0 .. numLevels - 1 /\ f - 1 \in 0 .. numLevels - 1
          /\ f # Depth /\ f - 1 # Depth
      BY <1>0, <2>1
    <3>2. frames'[f] = frames[f] /\ levels'[f] = levels[f] /\ levels'[f - 1] = levels[f - 1]
      BY <2>1, <3>1
    <3>3. /\ Holds(frames[f].sourceVec, key, v) => InLevel(f - 1, key, v)
          /\ Holds(frames[f].remainingBlocks, key, v) => InLevel(f, key, v)
      BY <3>1 DEF SourceInv, Pending
    <3> QED
      BY <3>2, <3>3 DEF InLevel
  <2> QED
    BY <2>2 DEF SourceInv
<1>8. CASE CompactReturn
  <2>1. frames' = << >>
    BY <1>8, CompactReturnView
  <2>2. Len(frames') = 0 /\ 1 .. 0 = {}
    BY <2>1
  <2> QED
    BY <2>2 DEF SourceInv
<1> QED
  BY <1>1, <1>2, <1>3, <1>4, <1>5, <1>6, <1>7, <1>8, StepCases

-----------------------------------------------------------------------------
(***************************************************************************)
(* Steps that insert fresh versions.                                       *)
(***************************************************************************)

\* What a step leaves stored was stored, but for the version it inserts.
LEMMA StoredAfter ==
  IInv /\ SourceInv /\ [Next]_vars =>
    /\ UNCHANGED memtable => \A key : Stored(key)' \subseteq Stored(key)
    /\ \A k \in Keys, version \in Version : Inserts(k, version) =>
         /\ Stored(k)' \subseteq Stored(k) \cup {version}
         /\ \A key : key # k => Stored(key)' \subseteq Stored(key)
<1>1. (\A key : \A v : v \in Stored(key) <=>
         \/ key \in DOMAIN memtable /\ v = memtable[key]
         \/ \E i \in 0 .. numLevels - 1 : InLevel(i, key, v))'
  BY StoredHolds, PTL
<1> SUFFICES ASSUME IInv, SourceInv, [Next]_vars
             PROVE  /\ UNCHANGED memtable => \A key : Stored(key)' \subseteq Stored(key)
                    /\ \A k \in Keys, version \in Version : Inserts(k, version) =>
                         /\ Stored(k)' \subseteq Stored(k) \cup {version}
                         /\ \A key : key # k => Stored(key)' \subseteq Stored(key)
  OBVIOUS
<1>2. ASSUME NEW key, NEW v, v \in Stored(key)'
      PROVE  v \in Stored(key) \/ (key \in DOMAIN memtable' /\ v = memtable'[key])
  BY <1>1, <1>2, OriginStored
<1>3. UNCHANGED memtable => \A key : Stored(key)' \subseteq Stored(key)
  BY <1>2, StoredHolds
<1>4. ASSUME NEW k \in Keys, NEW version \in Version, Inserts(k, version)
      PROVE  /\ Stored(k)' \subseteq Stored(k) \cup {version}
             /\ \A key : key # k => Stored(key)' \subseteq Stored(key)
  <2>1. /\ k \in DOMAIN memtable' /\ memtable'[k] = version
        /\ \A x \in DOMAIN memtable' : x # k =>
             x \in DOMAIN memtable /\ memtable'[x] = memtable[x]
    BY <1>4, InsertFacts
  <2>2. Stored(k)' \subseteq Stored(k) \cup {version}
    BY <1>2, <2>1
  <2>3. ASSUME NEW key, key # k
        PROVE  Stored(key)' \subseteq Stored(key)
    BY <1>2, <2>1, <2>3, StoredHolds
  <2> QED
    BY <2>2, <2>3
<1> QED
  BY <1>3, <1>4

\* The version is at least as late as all those stored of its key.
Fresh(key, version) == \A v \in Stored(key) : Newer(version, v)

\* A step inserts nothing, or a fresh version.
OrderedStep ==
  \/ UNCHANGED memtable
  \/ \E k \in Keys, version \in Version : Inserts(k, version) /\ Fresh(k, version)

\* The memtable has the newest version of each of its keys.
LEMMA MemtableNewestNext ==
  IInv /\ ReadInv /\ [Next]_vars /\ OrderedStep => MemtableNewest'
<1> SUFFICES ASSUME IInv, ReadInv, [Next]_vars, OrderedStep,
                    NEW key \in DOMAIN memtable', NEW w \in Stored(key)'
             PROVE  Newer(memtable'[key], w)
  BY DEF MemtableNewest
<1>1. SourceInv /\ MemtableNewest
  BY DEF ReadInv
<1>2. CASE UNCHANGED memtable
  BY <1>1, <1>2, StoredAfter DEF MemtableNewest
<1>3. ASSUME NEW k \in Keys, NEW version \in Version, Inserts(k, version), Fresh(k, version)
      PROVE  Newer(memtable'[key], w)
  <2>1. /\ memtable'[k] = version
        /\ key # k => key \in DOMAIN memtable /\ memtable'[key] = memtable[key]
    BY <1>3, InsertFacts
  <2>2. CASE key = k
    <3>1. w \in Stored(k) \cup {version}
      BY <1>1, <1>3, <2>2, StoredAfter
    <3> QED
      BY <1>3, <2>1, <2>2, <3>1, NewerItself DEF Fresh
  <2>3. CASE key # k
    BY <1>1, <1>3, <2>1, <2>3, StoredAfter DEF MemtableNewest
  <2> QED
    BY <2>2, <2>3
<1> QED
  BY <1>2, <1>3 DEF OrderedStep

\* The parts of ReadInv together.
LEMMA ReadNext ==
  IInv /\ DataInv /\ ReadInv /\ [Next]_vars /\ OrderedStep => ReadInv'
BY SourceNext, ShadowNext, MemtableNewestNext DEF ReadInv

\* A new database is empty.
LEMMA NothingStored ==
  Init => \A key : Stored(key) = {}
<1> SUFFICES ASSUME Init, NEW key, NEW v \in Stored(key)
             PROVE  FALSE
  OBVIOUS
<1>1. DOMAIN memtable = {}
  BY DEF Init
<1>2. PICK i \in 0 .. numLevels - 1 : InLevel(i, key, v)
  BY <1>1, StoredHolds
<1>3. numLevels = 1 /\ levels[0].recordHashes = << >>
  BY DEF Init, NewLevel
<1>4. i = 0
  BY <1>2, <1>3
<1> QED
  BY <1>2, <1>3, <1>4 DEF InLevel, Holds

LEMMA ReadInit ==
  Init => ReadInv
<1> SUFFICES ASSUME Init
             PROVE  ReadInv
  OBVIOUS
<1>1. Len(frames) = 0 /\ 1 .. 0 = {} /\ DOMAIN memtable = {} /\ numLevels = 1
  BY DEF Init
<1>2. \A i, j \in 0 .. numLevels - 1 : ~ i < j
  BY <1>1
<1> QED
  BY <1>1, <1>2 DEF ReadInv, SourceInv, ShadowInv, MemtableNewest
=============================================================================
