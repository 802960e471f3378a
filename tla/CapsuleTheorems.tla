---------------------------- MODULE CapsuleTheorems ----------------------------
(***************************************************************************)
(* The capsule reads back what was written, and is a store of blocks that  *)
(* never change, for every number of writes and restarts, although its     *)
(* hash covers only the beginning of a block and its counter starts again. *)
(***************************************************************************)
EXTENDS Capsule, CapsuleBlocksTheorems

Directories == UNION {[hashes -> Message \cup {Torn}] : hashes \in SUBSET HashType}

\* A hash the process holds was given out by this process, for a counter
\* that it will not use again, and its file is whole.
Held(hash) ==
  /\ hash \in DOMAIN files
  /\ files[hash] \in Message
  /\ Hash(files[hash]) = hash
  /\ hash.counter < counter
  /\ writing # Torn => hash.counter < writing.counter
  /\ files[hash].kvPairs = index[hash].kvPairs
  /\ files[hash].startKey = index[hash].minKey
  /\ files[hash].endKey = index[hash].maxKey
  /\ index[hash].kvPairs \in Contents

IInv ==
  /\ TypeOK
  /\ writing # Torn => writing.counter < counter /\ writing.kvPairs \in Contents
  /\ \A hash \in DOMAIN index : Held(hash)

\* A content is a map over the keys, and not empty.
LEMMA ContentsFacts ==
  ASSUME NEW pairs \in Contents
  PROVE  /\ pairs \in PairMap(Keys) /\ DOMAIN pairs # {}
         /\ MergedBlock(pairs) \in Block(Keys)
         /\ MemtableBlock(pairs) \in Block(Keys)
         /\ Min(DOMAIN pairs) \in Keys /\ Max(DOMAIN pairs) \in Keys
         /\ StartKey(DOMAIN pairs) \in Keys \cup {EmptyKey}
<1>1. pairs \in PairMap(Keys) /\ Cardinality(DOMAIN pairs) \in 1 .. BlockSize
  BY DEF Contents
<1>2. DOMAIN pairs # {}
  BY <1>1, FS_EmptySet
<1>3. Cardinality(DOMAIN pairs) <= BlockSize
  BY <1>1, BlockSizeAssumption
<1>4. PICK ks : ks = DOMAIN pairs
  OBVIOUS
<1>5. ks \in SUBSET Nat /\ IsFiniteSet(ks) /\ ks # {} /\ ks \subseteq Keys
  BY <1>1, <1>2, <1>4, PairMapDomain
<1>6. Min(ks) \in ks /\ Max(ks) \in ks
  BY <1>5, MinNat, MaxNat
<1>7. StartKey(ks) \in Keys \cup {EmptyKey}
  <2>1. CASE ks \subseteq {EmptyKey}
    BY <2>1 DEF StartKey
  <2>2. CASE ~ (ks \subseteq {EmptyKey})
    <3>1. ks \ {EmptyKey} \in SUBSET Nat /\ ks \ {EmptyKey} # {}
      BY <1>5, <2>2
    <3>2. Min(ks \ {EmptyKey}) \in ks \ {EmptyKey}
      BY <3>1, MinNat
    <3> QED
      BY <1>5, <2>2, <3>2 DEF StartKey
  <2> QED
    BY <2>1, <2>2
<1>8. MergedBlock(pairs) \in Block(Keys) /\ MemtableBlock(pairs) \in Block(Keys)
  BY <1>1, <1>2, <1>3, MergedBlockType, MemtableBlockType DEF GoodBlocks
<1> QED
  BY <1>1, <1>2, <1>4, <1>5, <1>6, <1>7, <1>8

\* The bounds of a message are natural numbers.
LEMMA MessageFacts ==
  ASSUME NEW message \in Message
  PROVE  /\ message.counter \in 0 .. MaxCounter /\ message.level \in Levels
         /\ message.startKey \in Keys \cup {EmptyKey} /\ message.startKey \in Nat
         /\ message.endKey \in Keys \cup {EmptyKey} /\ message.endKey \in Nat
         /\ message.kvPairs \in PairMap(Keys)
<1>1. Keys \cup {EmptyKey} \subseteq Nat
  BY KeysAssumption DEF EmptyKey
<1> QED
  BY <1>1 DEF Message

\* The pairs that a hash covers are some of the message's.
LEMMA HashedPairsType ==
  ASSUME NEW pairs \in PairMap(Keys)
  PROVE  HashedPairs(pairs) \in PairMap(Keys)
<1> DEFINE ks == {k \in DOMAIN pairs \ {EmptyKey} :
                    \A j \in DOMAIN pairs : j < k => ~HasZero(j, pairs[j])}
<1>1. PICK K \in SUBSET Keys : pairs \in [K -> Version]
  BY DEF PairMap
<1>2. HashedPairs(pairs) = [key \in ks |-> pairs[key]]
  BY DEF HashedPairs
<1>3. ks \subseteq K
  BY <1>1
<1> HIDE DEF ks
<1>4. [key \in ks |-> pairs[key]] \in [ks -> Version] /\ ks \in SUBSET Keys
  BY <1>1, <1>3
<1> QED
  BY <1>2, <1>4 DEF PairMap

\* The hash of a message keeps its counter.
LEMMA HashFacts ==
  ASSUME NEW message \in Message
  PROVE  Hash(message) \in HashType /\ Hash(message).counter = message.counter
<1>1. << >> \in PairMap(Keys)
  <2>1. << >> \in UNION {[ks -> Version] : ks \in SUBSET Keys}
    BY EmptyMap
  <2> QED
    BY <2>1 DEF PairMap
<1>2. HashedPairs(message.kvPairs) \in PairMap(Keys)
  BY MessageFacts, HashedPairsType
<1> QED
  BY <1>1, <1>2, MessageFacts, LevelsAssumption DEF Message, Hash, HashType

\* The files are a map from hashes to contents.
LEMMA FilesWith ==
  ASSUME TypeOK, NEW hash \in HashType, NEW content \in Message \cup {Torn}
  PROVE  /\ With(files, hash, content) \in Directories
         /\ DOMAIN With(files, hash, content) = DOMAIN files \cup {hash}
         /\ With(files, hash, content)[hash] = content
         /\ \A h \in DOMAIN files : h # hash => With(files, hash, content)[h] = files[h]
<1>1. With(files, hash, content) \in Directories
  <2> DEFINE T == Message \cup {Torn}
  <2>1. files \in UNION {[hashes -> T] : hashes \in SUBSET HashType} /\ content \in T
    BY DEF TypeOK
  <2> HIDE DEF T
  <2>2. With(files, hash, content) \in UNION {[hashes -> T] : hashes \in SUBSET HashType}
    BY <2>1, WithFacts
  <2> QED
    BY <2>2 DEF T, Directories
<1> QED
  BY <1>1 DEF With

\* A process starts with an empty directory.
LEMMA IInvInit == Init => IInv
<1> SUFFICES ASSUME Init
             PROVE  IInv
  OBVIOUS
<1>1. \A K, T : << >> \in UNION {[ks -> T] : ks \in SUBSET K}
  BY EmptyMap
<1>2. DOMAIN index = {}
  BY EmptyMap DEF Init
<1>3. counter \in 0 .. MaxCounter
  BY MaxCounterAssumption DEF Init
<1> QED
  BY <1>1, <1>2, <1>3 DEF Init, IInv, TypeOK

\* putCapsuleBlock empties a file of an earlier process at most: every hash
\* held has an earlier counter.
LEMMA OpenStep ==
  ASSUME IInv, NEW level \in Levels, NEW pairs \in Contents, NEW block,
         block \in {MergedBlock(pairs), MemtableBlock(pairs)}, Open(level, block)
  PROVE  IInv'
<1> DEFINE message == [counter |-> counter, level |-> level, startKey |-> block.minKey,
                       endKey |-> block.maxKey, kvPairs |-> block.kvPairs]
<1>1. /\ block \in Block(Keys) /\ block.kvPairs = pairs
      /\ block.minKey \in Keys \cup {EmptyKey} /\ block.maxKey \in Keys \cup {EmptyKey}
  <2>1. CASE block = MergedBlock(pairs)
    BY <2>1, ContentsFacts DEF MergedBlock
  <2>2. CASE block = MemtableBlock(pairs)
    BY <2>2, ContentsFacts DEF MemtableBlock
  <2> QED
    BY <2>1, <2>2
<1>2. counter \in 0 .. MaxCounter /\ MaxCounter \in Nat
  BY MaxCounterAssumption DEF IInv, TypeOK
<1>3. message \in Message /\ message # Torn
  BY <1>1, <1>2, TornAssumption DEF Message, Block
<1>4. /\ writing = Torn /\ counter < MaxCounter /\ counter' = counter + 1
      /\ files' = With(files, Hash(message), Torn)
      /\ writing' = message /\ index' = index
  BY DEF Open
<1>5. message.counter = counter /\ message.kvPairs = pairs
  BY <1>1
<1> HIDE DEF message
<1>6. Hash(message) \in HashType /\ Hash(message).counter = counter
  BY <1>3, <1>5, HashFacts
<1>7. /\ files' \in Directories
      /\ DOMAIN files' = DOMAIN files \cup {Hash(message)}
      /\ \A h \in DOMAIN files : h # Hash(message) => files'[h] = files[h]
  <2>1. TypeOK /\ Torn \in Message \cup {Torn}
    BY DEF IInv
  <2> QED
    BY <1>4, <1>6, <2>1, FilesWith
<1>8. TypeOK'
  <2>1. counter' \in 0 .. MaxCounter
    BY <1>2, <1>4
  <2> QED
    BY <1>3, <1>4, <1>7, <2>1 DEF IInv, TypeOK, Directories
<1>9. ASSUME NEW hash \in DOMAIN index
      PROVE  Held(hash)'
  <2>1. Held(hash) /\ hash \in HashType
    BY DEF IInv, TypeOK
  <2>2. hash.counter \in Nat
    BY <2>1, MessageFacts, MaxCounterAssumption DEF HashType
  <2>3. hash # Hash(message)
    BY <1>2, <1>6, <2>1, <2>2 DEF Held
  <2> QED
    BY <1>2, <1>4, <1>5, <1>7, <2>1, <2>2, <2>3 DEF Held
<1> QED
  BY <1>2, <1>4, <1>5, <1>8, <1>9 DEF IInv

\* What Close writes and returns is new.
LEMMA CloseFacts ==
  ASSUME IInv, Close
  PROVE  /\ writing \in Message
         /\ Hash(writing) \in HashType
         /\ Hash(writing).counter = writing.counter
         /\ Hash(writing) \notin DOMAIN index
         /\ writing.counter \in Nat
<1>1. writing \in Message
  BY DEF Close, IInv, TypeOK
<1>2. Hash(writing) \in HashType /\ Hash(writing).counter = writing.counter
  BY <1>1, HashFacts
<1>3. writing.counter \in Nat
  BY <1>1, MaxCounterAssumption DEF Message
<1>4. \A hash \in DOMAIN index : hash.counter < writing.counter
  BY DEF IInv, Held, Close
<1> QED
  BY <1>1, <1>2, <1>3, <1>4

\* putCapsuleBlock returns the hash of a file that is whole.
LEMMA CloseStep ==
  ASSUME IInv, Close
  PROVE  IInv'
<1> DEFINE block == [minKey |-> writing.startKey, maxKey |-> writing.endKey,
                     kvPairs |-> writing.kvPairs]
<1>0. PICK hash : hash = Hash(writing)
  OBVIOUS
<1>1. /\ writing \in Message /\ hash \in HashType /\ hash.counter = writing.counter
      /\ hash \notin DOMAIN index /\ writing.counter \in Nat
  BY <1>0, CloseFacts
<1>2. block \in Block(Keys)
  BY <1>1, MessageFacts DEF Block
<1>3. /\ writing # Torn /\ writing' = Torn /\ counter' = counter
      /\ files' = With(files, hash, writing)
      /\ index' = With(index, hash, block)
  BY <1>0 DEF Close
<1>4. /\ block.minKey = writing.startKey /\ block.maxKey = writing.endKey
      /\ block.kvPairs = writing.kvPairs
  OBVIOUS
<1> HIDE DEF block
<1>5. /\ files' \in Directories
      /\ DOMAIN files' = DOMAIN files \cup {hash} /\ files'[hash] = writing
      /\ \A h \in DOMAIN files : h # hash => files'[h] = files[h]
  <2>1. TypeOK /\ writing \in Message \cup {Torn}
    BY <1>1 DEF IInv
  <2> QED
    BY <1>1, <1>3, <2>1, FilesWith
<1>6. /\ DOMAIN index' = DOMAIN index \cup {hash} /\ index'[hash] = block
      /\ \A h \in DOMAIN index : h # hash => index'[h] = index[h]
  BY <1>3 DEF With
<1>7. index' \in UNION {[hashes -> Block(Keys)] : hashes \in SUBSET HashType}
  <2>1. index \in UNION {[hashes -> Block(Keys)] : hashes \in SUBSET HashType}
    BY DEF IInv, TypeOK
  <2>2. With(index, hash, block)
          \in UNION {[hashes -> Block(Keys)] : hashes \in SUBSET HashType}
    BY <1>1, <1>2, <2>1, WithFacts
  <2> QED
    BY <1>3, <2>2
<1>8. TypeOK'
  BY <1>3, <1>5, <1>7 DEF IInv, TypeOK, Directories
<1>9. writing.counter < counter /\ writing.kvPairs \in Contents
  BY <1>3 DEF IInv
<1>10. Held(hash)'
  BY <1>0, <1>1, <1>3, <1>4, <1>5, <1>6, <1>9 DEF Held
<1>11. ASSUME NEW h \in DOMAIN index
       PROVE  Held(h)'
  <2>1. Held(h) /\ h # hash
    BY <1>1 DEF IInv
  <2> QED
    BY <1>3, <1>5, <1>6, <2>1 DEF Held
<1> QED
  BY <1>3, <1>6, <1>8, <1>10, <1>11 DEF IInv

\* Drop forgets hashes, and nothing else.
LEMMA DropStep ==
  ASSUME IInv, NEW hashes, Drop(hashes)
  PROVE  IInv'
<1>1. /\ DOMAIN index' = DOMAIN index \ hashes
      /\ index' = [h \in DOMAIN index' |-> index'[h]]
      /\ \A h \in DOMAIN index' : index'[h] = index[h]
      /\ UNCHANGED <<counter, files, writing>>
  BY DEF Drop
<1>2. index \in UNION {[hs -> Block(Keys)] : hs \in SUBSET HashType}
  BY DEF IInv, TypeOK
<1>3. index' \in UNION {[hs -> Block(Keys)] : hs \in SUBSET HashType}
  <2>1. DOMAIN index' \in SUBSET HashType /\ \A h \in DOMAIN index' : index'[h] \in Block(Keys)
    BY <1>1, <1>2
  <2> QED
    BY <1>1, <2>1
<1> QED
  BY <1>1, <1>3 DEF IInv, TypeOK, Held

\* A process that starts holds no hash.
LEMMA RestartStep ==
  ASSUME IInv, Restart
  PROVE  IInv'
<1>1. << >> \in UNION {[hs -> Block(Keys)] : hs \in SUBSET HashType} /\ DOMAIN index' = {}
  BY EmptyMap DEF Restart
<1> QED
  BY <1>1, MaxCounterAssumption DEF IInv, TypeOK, Restart

\* Every step preserves the invariant.
LEMMA IInvNext == IInv /\ [Next]_vars => IInv'
<1> SUFFICES ASSUME IInv, [Next]_vars
             PROVE  IInv'
  OBVIOUS
<1>1. ASSUME NEW pairs \in Contents, Open(0, MemtableBlock(pairs))
      PROVE  IInv'
  BY <1>1, OpenStep, LevelsAssumption
<1>2. ASSUME NEW pairs \in Contents, NEW level \in Levels, Open(level, MergedBlock(pairs))
      PROVE  IInv'
  BY <1>2, OpenStep
<1>3. CASE Close
  BY <1>3, CloseStep
<1>4. ASSUME NEW hash \in DOMAIN index, Drop({hash})
      PROVE  IInv'
  BY <1>4, DropStep
<1>5. CASE Restart
  BY <1>5, RestartStep
<1>6. CASE UNCHANGED vars
  BY <1>6 DEF vars, IInv, TypeOK, Held
<1> QED
  BY <1>1, <1>2, <1>3, <1>4, <1>5, <1>6 DEF Next

\* IInv is an invariant of the capsule.
THEOREM Invariance == Spec => []IInv
BY IInvInit, IInvNext, PTL DEF Spec

-----------------------------------------------------------------------------
(***************************************************************************)
(* What follows from it.                                                   *)
(***************************************************************************)

\* What getCapsuleBlock returns for a hash that is held.
LEMMA Reads ==
  ASSUME IInv, NEW hash \in DOMAIN index
  PROVE  /\ getCapsuleBlock(hash) # Throws
         /\ getCapsuleBlock(hash).kvPairs = index[hash].kvPairs
         /\ getCapsuleBlock(hash).maxKey = index[hash].maxKey
         /\ index[hash].minKey # EmptyKey =>
              getCapsuleBlock(hash).minKey = index[hash].minKey
         /\ index[hash].kvPairs \in Contents
<1>1. Held(hash)
  BY DEF IInv
<1>2. PICK message \in Message : message = files[hash]
  BY <1>1 DEF Held
<1>3. message # Torn
  BY TornAssumption
<1>4. message.kvPairs \in Contents /\ message.startKey \in Nat /\ message.endKey \in Nat
  BY <1>1, <1>2, MessageFacts DEF Held
<1>5. message.kvPairs \in PairMap(Keys) /\ StartKey(DOMAIN message.kvPairs) \in Nat
  <2>1. message.kvPairs \in PairMap(Keys) /\ MergedBlock(message.kvPairs) \in Block(Keys)
    BY <1>4, ContentsFacts
  <2> QED
    BY <2>1 DEF MergedBlock, Block
<1> DEFINE block == [minKey |-> IF message.startKey = EmptyKey
                                  THEN StartKey(DOMAIN message.kvPairs)
                                  ELSE message.startKey,
                     maxKey |-> message.endKey,
                     kvPairs |-> message.kvPairs]
<1>6. getCapsuleBlock(hash) = block
  BY <1>1, <1>2, <1>3 DEF Held, getCapsuleBlock
<1>7. block \in Block(Keys)
  BY <1>4, <1>5 DEF Block
<1>8. block # Throws
  <2> HIDE DEF block
  <2> QED
    BY <1>7, ThrowsAssumption
<1>9. /\ block.kvPairs = message.kvPairs /\ block.maxKey = message.endKey
      /\ message.startKey # EmptyKey => block.minKey = message.startKey
  OBVIOUS
<1> HIDE DEF block
<1> QED
  BY <1>1, <1>2, <1>6, <1>8, <1>9 DEF Held

\* getCapsuleBlock returns what putCapsuleBlock was given for every hash the
\* process holds, and never throws.
THEOREM CapsuleReadsBack == Spec => []ReadsBack
<1>1. IInv => ReadsBack
  BY Reads DEF ReadsBack
<1> QED
  BY <1>1, Invariance, PTL

-----------------------------------------------------------------------------
(***************************************************************************)
(* The refinement.                                                         *)
(***************************************************************************)

\* What the hashes read back: the mapping of BlockStore's variable.
Held_content == [hash \in DOMAIN index |-> PairsRead(hash)]

\* It is the pairs the process wrote.
LEMMA ContentIsIndex ==
  ASSUME IInv
  PROVE  Held_content = [hash \in DOMAIN index |-> index[hash].kvPairs]
<1>1. \A hash \in DOMAIN index : PairsRead(hash) = index[hash].kvPairs
  BY Reads DEF PairsRead
<1> QED
  BY <1>1 DEF Held_content

\* A step of the capsule writes a new block, forgets some, or changes no
\* block.
LEMMA RefinementStep ==
  ASSUME IInv, [Next]_vars, IInv'
  PROVE  [Store!Next]_Held_content
<1>1. Held_content = [hash \in DOMAIN index |-> index[hash].kvPairs]
  BY ContentIsIndex
<1>2. Held_content' = [hash \in DOMAIN index' |-> index'[hash].kvPairs]
  <2>1. (IInv => Held_content = [hash \in DOMAIN index |-> index[hash].kvPairs])'
    BY ContentIsIndex, PTL
  <2> QED
    BY <2>1
<1>3. CASE UNCHANGED index
  BY <1>1, <1>2, <1>3
<1>4. CASE Close
  <2>1. PICK hash \in HashType : hash = Hash(writing) /\ hash \notin DOMAIN index
    BY <1>4, CloseFacts
  <2>2. PICK pairs \in Contents : pairs = writing.kvPairs
    BY <1>4 DEF Close, IInv
  <2>3. /\ DOMAIN index' = DOMAIN index \cup {hash} /\ index'[hash].kvPairs = pairs
        /\ \A h \in DOMAIN index : h # hash => index'[h] = index[h]
    BY <1>4, <2>1, <2>2 DEF Close, With
  <2>4. DOMAIN Held_content = DOMAIN index
    BY <1>1
  <2>5. Held_content' = [h \in DOMAIN index \cup {hash} |->
                           IF h = hash THEN pairs ELSE Held_content[h]]
    BY <1>1, <1>2, <2>1, <2>3
  <2>6. Store!Write(hash, pairs)
    BY <2>1, <2>4, <2>5 DEF Store!Write, Held_content
  <2> QED
    BY <2>6 DEF Store!Next
<1>5. ASSUME NEW names \in SUBSET DOMAIN index, DOMAIN index' = names,
             \A h \in names : index'[h] = index[h]
      PROVE  Store!Next
  <2>1. Held_content' = [h \in names |-> Held_content[h]] /\ DOMAIN Held_content = DOMAIN index
    BY <1>1, <1>2, <1>5
  <2>2. Store!Keep(names)
    BY <2>1 DEF Store!Keep, Held_content
  <2> QED
    BY <2>1, <2>2 DEF Store!Next, Held_content
<1>6. ASSUME NEW hash \in DOMAIN index, Drop({hash})
      PROVE  Store!Next
  BY <1>5, <1>6 DEF Drop
<1>7. CASE Restart
  <2>1. DOMAIN index' = {}
    BY <1>7, EmptyMap DEF Restart
  <2> QED
    BY <1>5, <2>1
<1>8. ASSUME NEW level, NEW block, Open(level, block)
      PROVE  UNCHANGED index
  BY <1>8 DEF Open
<1> QED
  BY <1>3, <1>4, <1>6, <1>7, <1>8 DEF Next, vars

\* The capsule implements BlockStore: no block read through a hash that the
\* process holds ever changes.
THEOREM CapsuleImplementsBlockStore == Spec => ImplementsBlockStore
<1>1. Init => Store!Init
  BY EmptyMap DEF Init, Store!Init
<1>2. IInv /\ [Next]_vars /\ IInv' => [Store!Next]_Held_content
  BY RefinementStep
<1> QED
  BY <1>1, <1>2, Invariance, PTL DEF Spec, ImplementsBlockStore, Store!Spec, Held_content
=============================================================================
