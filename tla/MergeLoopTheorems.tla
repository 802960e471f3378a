-------------------------- MODULE MergeLoopTheorems --------------------------
(***************************************************************************)
(* The two-pointer loop of CapsuleIndex::merge computes the operator merge *)
(* of CapsuleBlocks, for lists of any number of blocks of any size.        *)
(***************************************************************************)
EXTENDS MergeLoop, CapsuleBlocksTheorems

\* The two indices point at a pair of the list, or past its end.
InList(blocks, i, j) ==
  /\ i \in 0 .. Len(blocks) /\ j \in Nat
  /\ i < Len(blocks) => j < Cardinality(DOMAIN blocks[i + 1].kvPairs)

\* The key of that pair.
NextKey(blocks, i, j) == PairAt(blocks[i + 1], j).key

\* The keys that the loop has yet to take from the list.
Left(blocks, i, j) ==
  IF i < Len(blocks) THEN {key \in KeysOf(blocks) : key >= NextKey(blocks, i, j)} ELSE {}

LeftA == Left(a, aa, aaa)
LeftB == Left(b, bb, bbb)
Taken == (KeysOf(a) \ LeftA) \cup (KeysOf(b) \ LeftB)

\* The blocks that a merge of two lists has filled once it has taken a set
\* of keys: those written out are full, the last one is not.
Filled(one, two, taken, cb, blocks) ==
  LET keys == KeysOf(one) \cup KeysOf(two)
      open == taken \cap Chunk(keys, Len(blocks) + 1)
  IN  /\ blocks \in Seq(GoodBlocks)
      /\ \A i \in 1 .. Len(blocks) :
           blocks[i] = MergedBlock([key \in Chunk(keys, i) |-> Survivor(one, two, key)])
      /\ cb = IF open = {} THEN EmptyBlock
              ELSE MergedBlock([key \in open |-> Survivor(one, two, key)])
      /\ Cardinality(taken) = BlockSize * Len(blocks) + Cardinality(open)
      /\ Cardinality(open) < BlockSize

ListsInv ==
  /\ a \in Seq(GoodBlocks) /\ InKeyOrder(a)
  /\ b \in Seq(GoodBlocks) /\ InKeyOrder(b)

IndicesInv == InList(a, aa, aaa) /\ InList(b, bb, bbb)

\* The loop takes the keys in ascending order.
TakenFirst == \A x \in Taken : \A y \in LeftA \cup LeftB : x < y

\* The inductive invariant.
MergeInv ==
  /\ ListsInv
  /\ IndicesInv
  /\ TakenFirst
  /\ done \in BOOLEAN
  /\ done => ~MoreA /\ ~MoreB
  /\ ~done => Filled(a, b, Taken, next_cb, output)
  /\ ComputesMerge

-----------------------------------------------------------------------------
(***************************************************************************)
(* The lists merge is called with.                                         *)
(***************************************************************************)

LEMMA MinIs ==
  ASSUME NEW S \in SUBSET Nat, NEW x \in S, \A y \in S : x <= y
  PROVE  Min(S) = x
<1>1. Min(S) \in S /\ Min(S) <= x
  BY MinNat
<1>2. Min(S) \in Nat /\ x \in Nat /\ x <= Min(S)
  BY <1>1
<1> QED
  BY <1>1, <1>2

LEMMA MaxIs ==
  ASSUME NEW S \in SUBSET Nat, IsFiniteSet(S), NEW x \in S, \A y \in S : y <= x
  PROVE  Max(S) = x
<1>1. Max(S) \in S /\ Max(S) >= x
  BY MaxNat
<1>2. Max(S) \in Nat /\ x \in Nat /\ Max(S) <= x
  BY <1>1
<1> QED
  BY <1>1, <1>2

\* How many of the starts are not beyond a key grows with the key, and the
\* starts themselves have all numbers from 1.
LEMMA StartsCount ==
  ASSUME NEW starts \in SUBSET Nat, IsFiniteSet(starts)
  PROVE  /\ Cardinality(starts) \in Nat
         /\ \A k \in Nat : Cardinality({s \in starts : s <= k}) \in Nat
         /\ \A j, k \in Nat :
              j <= k => Cardinality({s \in starts : s <= j}) <= Cardinality({s \in starts : s <= k})
         /\ \A i \in 1 .. Cardinality(starts) :
              \E k \in starts : Cardinality({s \in starts : s <= k}) = i
<1> DEFINE UpTo(k) == {s \in starts : s <= k}
<1>1. \A k \in Nat : IsFiniteSet(UpTo(k)) /\ Cardinality(UpTo(k)) \in Nat
  BY FS_Subset, FS_CardinalityType
<1>2. ASSUME NEW j \in Nat, NEW k \in Nat, j <= k
      PROVE  Cardinality(UpTo(j)) <= Cardinality(UpTo(k))
  <2>1. UpTo(j) \in SUBSET UpTo(k)
    <3>1. \A s \in starts : s \in Nat
      OBVIOUS
    <3>2. \A s \in starts : s <= j => s <= k
      BY <1>2, <3>1
    <3> QED
      BY <3>2
  <2> HIDE DEF UpTo
  <2> QED
    BY <1>1, <2>1, FS_Subset
<1>3. ASSUME NEW i \in 1 .. Cardinality(starts)
      PROVE  \E k \in starts : Cardinality(UpTo(k)) = i
  <2>1. /\ Cardinality(starts) \in Nat
        /\ \A r \in 0 .. Cardinality(starts) - 1 : \E k \in starts : Rank(starts)[k] = r
    BY RankBijection
  <2>2. i - 1 \in 0 .. Cardinality(starts) - 1 /\ i \in Nat
    BY <2>1
  <2>3. PICK k \in starts : Rank(starts)[k] = i - 1
    BY <2>1, <2>2
  <2> DEFINE Below == {s \in starts : s < k}
  <2>4. Cardinality(Below) = i - 1 /\ IsFiniteSet(Below)
    BY <2>3, FS_Subset DEF Rank
  <2>5. UpTo(k) = Below \cup {k} /\ k \notin Below
    <3>1. \A s \in starts : s <= k <=> (s < k \/ s = k)
      OBVIOUS
    <3>2. ~ (k < k)
      OBVIOUS
    <3> QED
      BY <3>1, <3>2
  <2>6. Cardinality(UpTo(k)) = (i - 1) + 1
    <3> HIDE DEF Below, UpTo
    <3> QED
      BY <2>4, <2>5, FS_AddElement
  <2>7. Cardinality(UpTo(k)) = i
    <3> HIDE DEF UpTo
    <3> QED
      BY <2>2, <2>6
  <2> HIDE DEF UpTo
  <2> QED
    BY <2>7
<1> QED
  BY <1>1, <1>2, <1>3, FS_CardinalityType

\* A map that is cut into blocks of at most BlockSize pairs is a sorted list
\* of well-formed blocks.
LEMMA SplitSorted ==
  ASSUME NEW pairs \in PairMap(Keys), NEW starts \in SUBSET DOMAIN pairs,
         NEW blocks, blocks = Split(pairs, starts),
         \A i \in DOMAIN blocks : Cardinality(DOMAIN blocks[i].kvPairs) <= BlockSize
  PROVE  blocks \in Seq(GoodBlocks) /\ InKeyOrder(blocks)
<1> DEFINE Nth(key) == Cardinality({s \in starts : s <= key})
           Part(i) == {k \in DOMAIN pairs : Nth(k) = i}
           part(i) == [key \in Part(i) |-> pairs[key]]
           n == Cardinality(starts)
<1>1. /\ DOMAIN pairs \in SUBSET Nat /\ IsFiniteSet(DOMAIN pairs)
      /\ DOMAIN pairs \in SUBSET Keys /\ pairs \in [DOMAIN pairs -> Version]
  BY PairMapDomain
<1>2. starts \in SUBSET Nat /\ IsFiniteSet(starts)
  BY <1>1, FS_Subset
<1>3. /\ n \in Nat
      /\ \A k \in Nat : Nth(k) \in Nat
      /\ \A j, k \in Nat : j <= k => Nth(j) <= Nth(k)
      /\ \A i \in 1 .. n : \E k \in starts : Nth(k) = i
  BY <1>2, StartsCount
<1>4. blocks = [i \in 1 .. n |-> MergedBlock(part(i))]
  BY DEF Split
<1> HIDE DEF Nth, n
<1>5. \A i \in 1 .. n : blocks[i].kvPairs = part(i) /\ DOMAIN blocks[i].kvPairs = Part(i)
  BY <1>4 DEF MergedBlock
<1>6. ASSUME NEW i \in 1 .. n
      PROVE  blocks[i] \in GoodBlocks
  <2>1. Part(i) # {}
    BY <1>3
  <2>2. part(i) \in PairMap(Keys)
    <3>1. Part(i) \in SUBSET Keys /\ part(i) \in [Part(i) -> Version]
      BY <1>1
    <3> HIDE DEF Part, part
    <3> QED
      BY <3>1 DEF PairMap
  <2>3. Cardinality(Part(i)) <= BlockSize /\ DOMAIN part(i) = Part(i)
    BY <1>4, <1>5
  <2> HIDE DEF Part, part
  <2>4. MergedBlock(part(i)) \in GoodBlocks
    BY <2>1, <2>2, <2>3, MergedBlockType
  <2> QED
    BY <1>4, <2>4
<1>7. blocks \in Seq(GoodBlocks) /\ DOMAIN blocks = 1 .. n
  <2> HIDE DEF part
  <2> QED
    BY <1>3, <1>4, <1>6
<1>8. InKeyOrder(blocks)
  <2>1. ASSUME NEW x \in 1 .. n, NEW y \in 1 .. n, x < y,
               NEW j \in Part(x), NEW k \in Part(y)
        PROVE  j < k
    <3>1. j \in Nat /\ k \in Nat /\ Nth(j) = x /\ Nth(k) = y
      BY <1>1
    <3>2. ~ (k <= j)
      BY <1>3, <2>1, <3>1
    <3> QED
      BY <3>1, <3>2
  <2>2. \A i \in 1 .. n : DOMAIN blocks[i].kvPairs = Part(i)
    BY <1>5
  <2> HIDE DEF Part
  <2> QED
    BY <1>7, <2>1, <2>2 DEF InKeyOrder
<1> QED
  BY <1>7, <1>8

LEMMA BlockListsSorted ==
  ASSUME NEW blocks \in BlockLists
  PROVE  blocks \in Seq(GoodBlocks) /\ InKeyOrder(blocks)
<1>1. PICK pairs \in UNION {[ks -> Version] : ks \in (SUBSET Keys) \ {{}}} :
        \E starts \in SUBSET DOMAIN pairs : blocks = Split(pairs, {Min(DOMAIN pairs)} \cup starts)
  BY DEF BlockLists
<1>2. PICK starts \in SUBSET DOMAIN pairs :
        blocks = Split(pairs, {Min(DOMAIN pairs)} \cup starts)
  BY <1>1
<1>3. PICK ks \in (SUBSET Keys) \ {{}} : pairs \in [ks -> Version]
  BY <1>1
<1>4. DOMAIN pairs = ks
  BY <1>3
<1>5. pairs \in PairMap(Keys)
  BY <1>3, <1>4 DEF PairMap
<1>6. Min(DOMAIN pairs) \in DOMAIN pairs
  <2>1. ks \in SUBSET Nat /\ ks # {}
    BY KeysAssumption
  <2> QED
    BY <1>4, <2>1, MinNat
<1>7. {Min(DOMAIN pairs)} \cup starts \in SUBSET DOMAIN pairs
  BY <1>6
<1>8. \A i \in DOMAIN blocks : Cardinality(DOMAIN blocks[i].kvPairs) <= BlockSize
  BY DEF BlockLists
<1> QED
  BY <1>2, <1>5, <1>7, <1>8, SplitSorted

-----------------------------------------------------------------------------
(***************************************************************************)
(* The indices.                                                            *)
(***************************************************************************)

\* Indices within a list point at one of its pairs.
LEMMA PairFacts ==
  ASSUME NEW blocks \in Seq(GoodBlocks), InKeyOrder(blocks),
         NEW i, NEW j, InList(blocks, i, j), i < Len(blocks)
  PROVE  LET keys == DOMAIN blocks[i + 1].kvPairs
             key == NextKey(blocks, i, j)
         IN  /\ i + 1 \in DOMAIN blocks
             /\ keys \in SUBSET Nat /\ IsFiniteSet(keys) /\ keys \in SUBSET KeysOf(blocks)
             /\ key \in keys /\ key \in Nat /\ Rank(keys)[key] = j
             /\ PairAt(blocks[i + 1], j) = [key |-> key, version |-> VersionIn(blocks, key)]
<1> DEFINE keys == DOMAIN blocks[i + 1].kvPairs
           key == NextKey(blocks, i, j)
<1>1. i + 1 \in DOMAIN blocks /\ j \in Nat /\ j < Cardinality(keys)
  BY LenProperties DEF InList
<1>2. blocks[i + 1] \in GoodBlocks
  BY <1>1, BlockFacts
<1>3. keys \in SUBSET Nat /\ IsFiniteSet(keys) /\ Cardinality(keys) \in Nat
  <2>1. blocks[i + 1].kvPairs \in PairMap(Keys)
    BY <1>2 DEF GoodBlocks, Block
  <2> QED
    BY <2>1, PairMapDomain
<1>4. key = CHOOSE k \in keys : Rank(keys)[k] = j
  BY DEF NextKey, PairAt
<1>5. \E k \in keys : Rank(keys)[k] = j
  <2> HIDE DEF keys
  <2>1. j \in 0 .. Cardinality(keys) - 1
    BY <1>1, <1>3
  <2> QED
    BY <1>3, <2>1, RankBijection
<1>6. key \in keys /\ Rank(keys)[key] = j
  <2> HIDE DEF keys, key
  <2> QED
    BY <1>4, <1>5
<1>7. VersionIn(blocks, key) = blocks[i + 1].kvPairs[key]
  <2> HIDE DEF key
  <2> QED
    BY <1>1, <1>6, VersionInOrder
<1>8. PairAt(blocks[i + 1], j) = [key |-> key, version |-> blocks[i + 1].kvPairs[key]]
  BY DEF NextKey, PairAt
<1>9. keys \in SUBSET KeysOf(blocks)
  BY <1>1 DEF KeysOf
<1> HIDE DEF key, keys
<1> QED
  BY <1>1, <1>3, <1>6, <1>7, <1>8, <1>9 DEF key, keys

\* At the beginning the whole list is left.
LEMMA LeftAtStart ==
  ASSUME NEW blocks \in Seq(GoodBlocks), InKeyOrder(blocks)
  PROVE  InList(blocks, 0, 0) /\ Left(blocks, 0, 0) = KeysOf(blocks)
<1>1. Len(blocks) \in Nat /\ DOMAIN blocks = 1 .. Len(blocks)
  BY LenProperties
<1>2. CASE Len(blocks) = 0
  <2>1. KeysOf(blocks) = {}
    BY <1>1, <1>2 DEF KeysOf
  <2> QED
    BY <1>2, <2>1 DEF InList, Left
<1>3. CASE Len(blocks) # 0
  <2>1. 1 \in DOMAIN blocks /\ 0 + 1 = 1 /\ 0 < Len(blocks)
    BY <1>1, <1>3
  <2> DEFINE D == DOMAIN blocks[1].kvPairs
  <2>2. D # {} /\ D \in SUBSET Nat /\ IsFiniteSet(D) /\ Cardinality(D) \in Nat
    <3>1. blocks[1].kvPairs \in PairMap(Keys) /\ D # {}
      BY <2>1, BlockFacts DEF GoodBlocks, Block
    <3> QED
      BY <3>1, PairMapDomain
  <2>3. 0 < Cardinality(D)
    <3>1. Cardinality(D) # 0
      <4> HIDE DEF D
      <4> QED
        BY <2>2, FS_EmptySet
    <3> HIDE DEF D
    <3> QED
      BY <2>2, <3>1
  <2>4. InList(blocks, 0, 0)
    BY <1>1, <2>1, <2>3 DEF InList
  <2> DEFINE first == NextKey(blocks, 0, 0)
  <2>5. first \in D /\ first \in Nat /\ Rank(D)[first] = 0
    <3>1. LET keys == DOMAIN blocks[0 + 1].kvPairs
          IN  first \in keys /\ first \in Nat /\ Rank(keys)[first] = 0
      BY <2>1, <2>4, PairFacts
    <3> QED
      BY <2>1, <3>1
  <2> HIDE DEF first
  <2>6. ASSUME NEW k \in KeysOf(blocks)
        PROVE  k >= first
    <3>1. PICK h \in 1 .. Len(blocks) : k \in DOMAIN blocks[h].kvPairs
      BY <1>1 DEF KeysOf
    <3>2. k \in Nat
      BY <1>1, <3>1, BlockFacts
    <3>3. CASE h = 1
      <4>1. k \in D
        BY <3>1, <3>3
      <4> HIDE DEF D
      <4>2. Rank(D)[k] \in Nat /\ (k < first => Rank(D)[k] < Rank(D)[first])
        BY <2>2, <2>5, <4>1, RankBijection
      <4> QED
        BY <2>5, <3>2, <4>2
    <3>4. CASE h # 1
      <4>1. 1 < h
        BY <1>1, <3>4
      <4>2. first < k
        BY <1>1, <2>1, <2>5, <3>1, <4>1 DEF InKeyOrder
      <4> QED
        BY <2>5, <3>2, <4>2
    <3> QED
      BY <3>3, <3>4
  <2> QED
    BY <2>1, <2>4, <2>6 DEF Left, first
<1> QED
  BY <1>2, <1>3

\* Past the indices: where AdvanceA and AdvanceB move to.
Step(blocks, i, j) == IF LastOf(blocks[i + 1], j) THEN <<i + 1, 0>> ELSE <<i, j + 1>>

\* Advancing takes the smallest key that is left.
LEMMA Advance ==
  ASSUME NEW blocks \in Seq(GoodBlocks), InKeyOrder(blocks),
         NEW i, NEW j, InList(blocks, i, j), i < Len(blocks),
         NEW i2, NEW j2, <<i2, j2>> = Step(blocks, i, j)
  PROVE  LET key == NextKey(blocks, i, j)
         IN  /\ InList(blocks, i2, j2)
             /\ key \in Left(blocks, i, j)
             /\ \A k \in Left(blocks, i, j) : key <= k
             /\ Left(blocks, i2, j2) = Left(blocks, i, j) \ {key}
<1> DEFINE D == DOMAIN blocks[i + 1].kvPairs
           key == NextKey(blocks, i, j)
           K == KeysOf(blocks)
           l == Len(blocks)
<1>1. /\ l \in Nat /\ DOMAIN blocks = 1 .. l
      /\ i \in Nat /\ i + 1 \in 1 .. l /\ j \in Nat
      /\ j < Cardinality(D)
  BY LenProperties DEF InList
<1>2. /\ D \in SUBSET Nat /\ IsFiniteSet(D) /\ D \in SUBSET K
      /\ key \in D /\ key \in Nat /\ Rank(D)[key] = j
  BY PairFacts
<1>3. K \in SUBSET Nat
  BY KeysOfCount, KeysAssumption
<1>4. Left(blocks, i, j) = {k \in K : k >= key}
  BY DEF Left
<1>5. /\ Cardinality(D) \in Nat
      /\ \A k \in D : Rank(D)[k] \in Nat /\ Rank(D)[k] <= Cardinality(D) - 1
      /\ \A g, k \in D : g < k => Rank(D)[g] < Rank(D)[k]
  <2> HIDE DEF D
  <2>1. /\ Cardinality(D) \in Nat
        /\ Rank(D) \in [D -> 0 .. Cardinality(D) - 1]
        /\ \A g, k \in D : g < k => Rank(D)[g] < Rank(D)[k]
    BY <1>2, RankBijection
  <2> QED
    BY <2>1
<1>6. ASSUME NEW k \in K
      PROVE  \E h \in 1 .. l : k \in DOMAIN blocks[h].kvPairs
  BY <1>1 DEF KeysOf
<1>7. \A g, h \in 1 .. l : g < h =>
        \A x \in DOMAIN blocks[g].kvPairs, y \in DOMAIN blocks[h].kvPairs : x < y
  BY <1>1 DEF InKeyOrder
<1> HIDE DEF key, K, l
<1>8. InList(blocks, i2, j2) /\ Left(blocks, i2, j2) = {k \in K : k > key}
  <2>1. CASE LastOf(blocks[i + 1], j)
    <3>1. i2 = i + 1 /\ j2 = 0 /\ j + 1 = Cardinality(D)
      BY <2>1 DEF Step, LastOf
    <3>2. ASSUME NEW k \in K, NEW h \in 1 .. l, k \in DOMAIN blocks[h].kvPairs
          PROVE  k > key <=> h > i + 1
      <4>1. k \in Nat /\ h \in Nat
        BY <1>1, <1>3
      <4>2. CASE h = i + 1
        <5>1. k \in D
          BY <3>2, <4>2
        <5> HIDE DEF D
        <5>2. Rank(D)[k] <= j /\ Rank(D)[k] \in Nat
          BY <1>1, <1>5, <3>1, <5>1
        <5>3. ~ (key < k)
          BY <1>1, <1>2, <1>5, <5>1, <5>2
        <5> QED
          BY <1>1, <1>2, <4>1, <4>2, <5>3
      <4>3. CASE h < i + 1
        <5>1. k < key
          BY <1>1, <1>2, <1>7, <3>2, <4>3
        <5> QED
          BY <1>1, <1>2, <4>1, <4>3, <5>1
      <4>4. CASE h > i + 1
        <5>1. key < k
          BY <1>1, <1>2, <1>7, <3>2, <4>4
        <5> QED
          BY <1>2, <4>1, <4>4, <5>1
      <4> QED
        BY <1>1, <4>1, <4>2, <4>3, <4>4
    <3>3. CASE i + 1 = l
      <4>1. {k \in K : k > key} = {}
        <5> SUFFICES ASSUME NEW k \in K, k > key
                     PROVE  FALSE
          OBVIOUS
        <5>1. PICK h \in 1 .. l : k \in DOMAIN blocks[h].kvPairs
          BY <1>6
        <5>2. h > i + 1
          BY <3>2, <5>1
        <5> QED
          BY <1>1, <3>3, <5>2
      <4>2. ~ (i2 < Len(blocks)) /\ i2 \in 0 .. Len(blocks)
        BY <1>1, <3>1, <3>3 DEF l
      <4> QED
        BY <3>1, <4>1, <4>2 DEF InList, Left
    <3>4. CASE i + 1 # l
      <4> DEFINE E == DOMAIN blocks[i2 + 1].kvPairs
                 first == NextKey(blocks, i2, j2)
      <4>1. i2 \in Nat /\ i2 < l /\ i2 + 1 \in 1 .. l /\ i2 \in 0 .. l
        BY <1>1, <3>1, <3>4
      <4>2. E # {} /\ E \in SUBSET Nat /\ IsFiniteSet(E) /\ Cardinality(E) \in Nat
        <5>1. blocks[i2 + 1].kvPairs \in PairMap(Keys) /\ E # {}
          BY <1>1, <4>1, BlockFacts DEF GoodBlocks, Block
        <5> QED
          BY <5>1, PairMapDomain
      <4>3. 0 < Cardinality(E)
        <5>1. Cardinality(E) # 0
          <6> HIDE DEF E
          <6> QED
            BY <4>2, FS_EmptySet
        <5> HIDE DEF E
        <5> QED
          BY <4>2, <5>1
      <4>4. InList(blocks, i2, j2)
        BY <3>1, <4>1, <4>3 DEF InList, l
      <4>5. first \in E /\ first \in Nat /\ Rank(E)[first] = 0
        BY <3>1, <4>1, <4>4, PairFacts DEF l
      <4> HIDE DEF first
      <4>6. ASSUME NEW k \in K
            PROVE  k >= first <=> k > key
        <5>1. PICK h \in 1 .. l : k \in DOMAIN blocks[h].kvPairs
          BY <1>6
        <5>2. k > key <=> h > i + 1
          BY <3>2, <5>1
        <5>3. k \in Nat /\ h \in Nat
          BY <1>1, <1>3
        <5>4. CASE h = i2 + 1
          <6>1. k \in E
            BY <5>1, <5>4
          <6> HIDE DEF E
          <6>2. Rank(E)[k] \in Nat /\ (k < first => Rank(E)[k] < Rank(E)[first])
            BY <4>2, <4>5, <6>1, RankBijection
          <6> QED
            BY <1>1, <3>1, <4>5, <5>2, <5>3, <5>4, <6>2
        <5>5. CASE h > i2 + 1
          <6>1. first < k
            BY <1>7, <4>1, <4>5, <5>1, <5>5
          <6> QED
            BY <1>1, <3>1, <4>5, <5>2, <5>3, <5>5, <6>1
        <5>6. CASE h < i2 + 1
          <6>1. k < first
            BY <1>7, <4>1, <4>5, <5>1, <5>6
          <6> QED
            BY <1>1, <3>1, <4>5, <5>2, <5>3, <5>6, <6>1
        <5> QED
          BY <1>1, <4>1, <5>3, <5>4, <5>5, <5>6
      <4>7. Left(blocks, i2, j2) = {k \in K : k >= first}
        BY <4>1 DEF Left, first, K, l
      <4> QED
        BY <4>4, <4>6, <4>7
    <3> QED
      BY <3>3, <3>4
  <2>2. CASE ~LastOf(blocks[i + 1], j)
    <3>1. i2 = i /\ j2 = j + 1 /\ j + 1 # Cardinality(D)
      BY <2>2 DEF Step, LastOf
    <3>2. j2 \in Nat /\ j2 < Cardinality(D) /\ i2 < l /\ i2 \in 0 .. l
      <4> HIDE DEF D
      <4> QED
        BY <1>1, <1>5, <3>1
    <3>3. InList(blocks, i2, j2)
      BY <3>1, <3>2 DEF InList, l
    <3> DEFINE next == NextKey(blocks, i2, j2)
    <3>4. next \in D /\ next \in Nat /\ Rank(D)[next] = j + 1
      BY <3>1, <3>2, <3>3, PairFacts DEF l
    <3> HIDE DEF next
    <3>5. key < next
      <4> HIDE DEF D
      <4> QED
        BY <1>1, <1>2, <1>5, <3>4
    <3>6. ASSUME NEW k \in K
          PROVE  k >= next <=> k > key
      <4>1. PICK h \in 1 .. l : k \in DOMAIN blocks[h].kvPairs
        BY <1>6
      <4>2. k \in Nat /\ h \in Nat
        BY <1>1, <1>3
      <4>3. CASE h = i + 1
        <5>1. k \in D
          BY <4>1, <4>3
        <5> HIDE DEF D
        <5>2. /\ k < next => Rank(D)[k] < j + 1
              /\ key < k => j < Rank(D)[k]
              /\ Rank(D)[k] \in Nat
          BY <1>2, <1>5, <3>4, <5>1
        <5> QED
          BY <1>1, <1>2, <3>4, <3>5, <4>2, <5>2
      <4>4. CASE h < i + 1
        <5>1. k < key
          BY <1>1, <1>2, <1>7, <4>1, <4>4
        <5> QED
          BY <1>2, <3>4, <3>5, <4>2, <5>1
      <4>5. CASE h > i + 1
        <5>1. next < k
          BY <1>1, <1>7, <3>4, <4>1, <4>5
        <5> QED
          BY <1>2, <3>4, <3>5, <4>2, <5>1
      <4> QED
        BY <1>1, <4>2, <4>3, <4>4, <4>5
    <3>7. Left(blocks, i2, j2) = {k \in K : k >= next}
      BY <3>2 DEF Left, next, K, l
    <3> QED
      BY <3>3, <3>6, <3>7
  <2> QED
    BY <2>1, <2>2
<1>9. \A k \in K : (k > key <=> k >= key /\ k # key) /\ (k >= key => key <= k)
  BY <1>2, <1>3
<1>10. key \in K /\ key >= key
  BY <1>2
<1>11. /\ key \in Left(blocks, i, j)
       /\ \A k \in Left(blocks, i, j) : key <= k
       /\ {k \in K : k > key} = Left(blocks, i, j) \ {key}
  BY <1>4, <1>9, <1>10
<1> QED
  BY <1>8, <1>11 DEF key

-----------------------------------------------------------------------------
(***************************************************************************)
(* The block that is being filled.                                         *)
(***************************************************************************)

\* addKVPair with a key beyond those of the block, which a merge has filled:
\* the result is what MergedBlock says, though an empty key reads as unset.
LEMMA AddLargest ==
  ASSUME NEW N \in SUBSET Nat, IsFiniteSet(N),
         NEW f, DOMAIN f = N,
         NEW p \in Nat, \A x \in N : x < p,
         NEW v,
         NEW cb, cb = IF N = {} THEN EmptyBlock ELSE MergedBlock(f),
         NEW g, g = [k \in N \cup {p} |-> g[k]], g[p] = v, \A k \in N : g[k] = f[k]
  PROVE  addKVPair(cb, p, v) = MergedBlock(g)
<1> DEFINE M == N \cup {p}
           Old(bound) == IF bound = EmptyKey THEN p ELSE bound
<1>1. M \in SUBSET Nat /\ IsFiniteSet(M) /\ M # {} /\ p \in M
  BY FS_AddElement
<1>2. {p} \in SUBSET Nat /\ IsFiniteSet({p})
  BY FS_Singleton
<1>3. Min({p}) = p /\ Max({p}) = p
  <2>1. \A y \in {p} : p <= y /\ y <= p
    OBVIOUS
  <2> QED
    BY <1>2, <2>1, MinIs, MaxIs
<1>4. Max(M) = p
  <2>1. \A y \in M : y <= p
    OBVIOUS
  <2> HIDE DEF M
  <2> QED
    BY <1>1, <2>1, MaxIs
<1>5. DOMAIN cb.kvPairs = N /\ \A k \in N : cb.kvPairs[k] = f[k]
  <2>1. CASE N = {}
    BY <2>1 DEF EmptyBlock
  <2>2. CASE N # {}
    BY <2>2 DEF MergedBlock
  <2> QED
    BY <2>1, <2>2
<1>6. [k \in DOMAIN cb.kvPairs \cup {p} |-> IF k = p THEN v ELSE cb.kvPairs[k]] = g
  <2>1. DOMAIN cb.kvPairs \cup {p} = M /\ g = [k \in M |-> g[k]]
    BY <1>5
  <2>2. \A k \in M : (IF k = p THEN v ELSE cb.kvPairs[k]) = g[k]
    BY <1>5
  <2> HIDE DEF M
  <2> QED
    BY <2>1, <2>2
<1>7. Min({Old(cb.minKey), p}) = StartKey(M)
  <2>1. CASE N \subseteq {EmptyKey}
    <3>1. cb.minKey = EmptyKey
      <4>1. CASE N = {}
        BY <4>1 DEF EmptyBlock
      <4>2. CASE N # {}
        BY <2>1, <4>2 DEF MergedBlock, StartKey
      <4> QED
        BY <4>1, <4>2
    <3>2. {Old(cb.minKey), p} = {p}
      BY <3>1
    <3>3. StartKey(M) = p
      <4>1. CASE p = EmptyKey
        BY <2>1, <4>1 DEF StartKey
      <4>2. CASE p # EmptyKey
        <5>1. M \ {EmptyKey} = {p} /\ ~ (M \subseteq {EmptyKey})
          <6>1. \A x \in M : x = p \/ x = EmptyKey
            BY <2>1
          <6>2. p \in M \ {EmptyKey}
            BY <1>1, <4>2
          <6> HIDE DEF M
          <6> QED
            BY <6>1, <6>2
        <5> QED
          BY <1>3, <5>1 DEF StartKey
      <4> QED
        BY <4>1, <4>2
    <3> QED
      BY <1>3, <3>2, <3>3
  <2>2. CASE ~ (N \subseteq {EmptyKey})
    <3> DEFINE R == N \ {EmptyKey}
               m == Min(R)
    <3>1. R \in SUBSET Nat /\ R # {}
      BY <2>2
    <3>2. m \in R /\ \A x \in R : m <= x
      <4> HIDE DEF R
      <4> QED
        BY <3>1, MinNat
    <3>3. cb.minKey = m
      BY <2>2 DEF MergedBlock, StartKey
    <3> HIDE DEF m
    <3>4. m \in Nat /\ m # EmptyKey /\ m < p
      BY <3>2
    <3>5. Old(cb.minKey) = m
      BY <3>3, <3>4
    <3>6. Min({m, p}) = m
      <4>1. {m, p} \in SUBSET Nat /\ m \in {m, p} /\ \A y \in {m, p} : m <= y
        BY <3>4
      <4> QED
        BY <4>1, MinIs
    <3>7. Min(M \ {EmptyKey}) = m
      <4>1. /\ M \ {EmptyKey} \in SUBSET Nat /\ m \in M \ {EmptyKey}
            /\ \A y \in M \ {EmptyKey} : m <= y
        <5>1. m \in M
          BY <3>2
        <5>2. \A y \in M \ {EmptyKey} : y = p \/ y \in R
          OBVIOUS
        <5>3. m <= p
          BY <3>4
        <5> HIDE DEF M, R
        <5> QED
          BY <1>1, <3>2, <3>4, <5>1, <5>2, <5>3
      <4> HIDE DEF M
      <4> QED
        BY <4>1, MinIs
    <3>8. StartKey(M) = m
      BY <2>2, <3>7 DEF StartKey
    <3> QED
      BY <3>5, <3>6, <3>8
  <2> QED
    BY <2>1, <2>2
<1>8. Max({Old(cb.maxKey), p}) = p
  <2>1. Old(cb.maxKey) \in Nat /\ Old(cb.maxKey) <= p
    <3>1. CASE N = {}
      BY <3>1 DEF EmptyBlock
    <3>2. CASE N # {}
      <4>1. cb.maxKey = Max(N)
        BY <3>2 DEF MergedBlock
      <4>2. Max(N) \in N
        BY <3>2, MaxNat
      <4>3. cb.maxKey \in Nat /\ cb.maxKey < p
        BY <4>1, <4>2
      <4> QED
        BY <4>3
    <3> QED
      BY <3>1, <3>2
  <2> HIDE DEF Old
  <2> DEFINE o == Old(cb.maxKey)
  <2>2. o \in Nat /\ o <= p
    BY <2>1
  <2> HIDE DEF o
  <2>3. {o, p} \in SUBSET Nat /\ p \in {o, p} /\ \A y \in {o, p} : y <= p
    BY <2>2
  <2>4. IsFiniteSet({o} \cup {p}) /\ {o} \cup {p} = {o, p}
    BY FS_Singleton, FS_AddElement
  <2>5. Max({o, p}) = p
    BY <2>3, <2>4, MaxIs
  <2> QED
    BY <2>5 DEF o
<1>9. addKVPair(cb, p, v)
        = [minKey |-> Min({Old(cb.minKey), p}), maxKey |-> Max({Old(cb.maxKey), p}),
           kvPairs |-> [k \in DOMAIN cb.kvPairs \cup {p} |-> IF k = p THEN v ELSE cb.kvPairs[k]]]
  BY DEF addKVPair
<1>10. DOMAIN g = M
  OBVIOUS
<1> HIDE DEF M, Old
<1>11. addKVPair(cb, p, v) = [minKey |-> StartKey(M), maxKey |-> p, kvPairs |-> g]
  BY <1>6, <1>7, <1>8, <1>9, Zenon
<1>12. MergedBlock(g) = [minKey |-> StartKey(M), maxKey |-> p, kvPairs |-> g]
  BY <1>4, <1>10, Zenon DEF MergedBlock
<1> QED
  BY <1>11, <1>12

\* A key that follows all those taken and precedes all others has the rank
\* that counts those taken.
LEMMA RankOfNext ==
  ASSUME NEW K \in SUBSET Nat, IsFiniteSet(K), NEW D \in SUBSET K, NEW p \in K,
         p \notin D, \A d \in D : d < p, \A r \in K \ D : p <= r
  PROVE  /\ Rank(K)[p] = Cardinality(D) /\ Cardinality(D) \in Nat
         /\ IsFiniteSet(D) /\ IsFiniteSet(D \cup {p})
         /\ Cardinality(D \cup {p}) = Cardinality(D) + 1
         /\ \A d \in D \cup {p} : Rank(K)[d] \in Nat /\ Rank(K)[d] <= Cardinality(D)
<1>1. {k \in K : k < p} = D
  <2>1. \A k \in K : k < p <=> k \in D
    OBVIOUS
  <2> QED
    BY <2>1
<1>2. Rank(K)[p] = Cardinality(D)
  BY <1>1 DEF Rank
<1>3. IsFiniteSet(D) /\ Cardinality(D) \in Nat
  BY FS_Subset, FS_CardinalityType
<1>4. IsFiniteSet(D \cup {p}) /\ Cardinality(D \cup {p}) = Cardinality(D) + 1
  BY <1>3, FS_AddElement
<1>5. ASSUME NEW d \in D \cup {p}
      PROVE  Rank(K)[d] \in Nat /\ Rank(K)[d] <= Cardinality(D)
  <2>1. d \in K /\ (d < p \/ d = p)
    OBVIOUS
  <2>2. Rank(K)[d] \in Nat /\ (d < p => Rank(K)[d] < Rank(K)[p])
    BY <2>1, RankBijection
  <2> QED
    BY <1>2, <1>3, <2>1, <2>2
<1> QED
  BY <1>2, <1>3, <1>4, <1>5

\* BlockSize times a number, and a remainder: the quotient.
LEMMA Quotient ==
  ASSUME NEW q \in Nat, NEW c \in Nat, c < BlockSize
  PROVE  (BlockSize * q + c) \div BlockSize = q
<1> DEFINE n == BlockSize * q + c
           e == n \div BlockSize
<1>1. BlockSize \in Nat \ {0} /\ BlockSize * q \in Nat
  BY BlockSizeAssumption, MulMono
<1>2. n \in Nat
  BY <1>1
<1>3. e \in Nat /\ BlockSize * e <= n /\ n < BlockSize * e + BlockSize
  <2> HIDE DEF n
  <2> QED
    BY <1>1, <1>2, DivNat
<1> HIDE DEF e
<1>4. ~ (e + 1 <= q)
  <2> SUFFICES ASSUME e + 1 <= q
               PROVE  FALSE
    OBVIOUS
  <2>1. BlockSize * (e + 1) <= BlockSize * q
    BY <1>1, <1>3, MulMono
  <2>2. BlockSize * (e + 1) = BlockSize * e + BlockSize
    BY <1>1, <1>3
  <2>3. BlockSize * e \in Nat
    BY <1>1, <1>3, MulMono
  <2> QED
    BY <1>1, <1>3, <2>1, <2>2, <2>3
<1>5. ~ (q + 1 <= e)
  <2> SUFFICES ASSUME q + 1 <= e
               PROVE  FALSE
    OBVIOUS
  <2>1. BlockSize * (q + 1) <= BlockSize * e
    BY <1>1, <1>3, MulMono
  <2>2. BlockSize * (q + 1) = BlockSize * q + BlockSize
    BY <1>1
  <2>3. BlockSize * e \in Nat
    BY <1>1, <1>3, MulMono
  <2> QED
    BY <1>1, <1>3, <2>1, <2>2, <2>3
<1> QED
  BY <1>3, <1>4, <1>5 DEF e

\* The end of an iteration: the blocks remain filled with what is taken.
LEMMA PushFills ==
  ASSUME ListsInv,
         NEW D \in SUBSET (KeysOf(a) \cup KeysOf(b)),
         NEW p \in KeysOf(a) \cup KeysOf(b), p \notin D,
         \A d \in D : d < p,
         \A r \in (KeysOf(a) \cup KeysOf(b)) \ D : p <= r,
         Filled(a, b, D, next_cb, output),
         NEW pair, pair.key = p, pair.version = Survivor(a, b, p),
         Push(pair)
  PROVE  Filled(a, b, D \cup {p}, next_cb', output')
<1> DEFINE K == KeysOf(a) \cup KeysOf(b)
           o == Len(output)
           N == D \cap Chunk(K, o + 1)
           S(key) == Survivor(a, b, key)
           f == [key \in N |-> S(key)]
           M == N \cup {p}
           g == [key \in M |-> S(key)]
           E == D \cup {p}
           cb == addKVPair(next_cb, p, S(p))
<1>1. K \in SUBSET Nat /\ IsFiniteSet(K) /\ K \in SUBSET Keys /\ Cardinality(K) \in Nat
  <2>1. K \in SUBSET Keys
    BY KeysOfCount DEF ListsInv
  <2>2. K \in SUBSET Nat /\ IsFiniteSet(K)
    BY <2>1, KeysAssumption, FS_Subset
  <2> QED
    BY <2>1, <2>2, FS_CardinalityType
<1>2. /\ output \in Seq(GoodBlocks)
      /\ \A i \in 1 .. o : output[i] = MergedBlock([key \in Chunk(K, i) |-> S(key)])
      /\ next_cb = IF N = {} THEN EmptyBlock ELSE MergedBlock(f)
      /\ Cardinality(D) = BlockSize * o + Cardinality(N)
      /\ Cardinality(N) < BlockSize
  BY DEF Filled
<1>3. o \in Nat /\ BlockSize \in Nat \ {0} /\ BlockSize * o \in Nat
  <2>1. o \in Nat
    BY <1>2, LenProperties
  <2> HIDE DEF o
  <2> QED
    BY <2>1, BlockSizeAssumption, MulMono
<1>4. /\ Rank(K)[p] = Cardinality(D) /\ Cardinality(D) \in Nat
      /\ IsFiniteSet(D) /\ IsFiniteSet(E)
      /\ Cardinality(E) = Cardinality(D) + 1
      /\ \A d \in E : Rank(K)[d] \in Nat /\ Rank(K)[d] <= Cardinality(D)
  <2>1. D \in SUBSET K /\ p \in K /\ \A r \in K \ D : p <= r
    OBVIOUS
  <2> HIDE DEF K
  <2> QED
    BY <1>1, <2>1, RankOfNext
<1>5. N \in SUBSET D /\ IsFiniteSet(N) /\ Cardinality(N) \in Nat /\ p \notin N /\ N \in SUBSET Nat
  <2>1. N \in SUBSET D
    OBVIOUS
  <2> HIDE DEF N
  <2> QED
    BY <1>1, <1>4, <2>1, FS_Subset, FS_CardinalityType
<1>6. p \in Chunk(K, o + 1)
  <2> DEFINE c == Cardinality(N)
  <2>1. c \in Nat /\ c < BlockSize
    BY <1>2, <1>5
  <2> HIDE DEF c, o
  <2>2. (BlockSize * o + c) \div BlockSize = o
    BY <1>3, <2>1, Quotient
  <2>3. Rank(K)[p] = BlockSize * o + c
    BY <1>2, <1>4 DEF c
  <2>4. (o + 1) - 1 = o
    BY <1>3
  <2>5. Rank(K)[p] \div BlockSize = (o + 1) - 1
    BY <2>2, <2>3, <2>4
  <2> QED
    BY <2>5 DEF Chunk
<1>7. M = E \cap Chunk(K, o + 1) /\ M \in SUBSET Chunk(K, o + 1)
  <2> HIDE DEF o, K
  <2> QED
    BY <1>6
<1>8. /\ IsFiniteSet(M) /\ M # {} /\ Cardinality(M) = Cardinality(N) + 1
      /\ M \in SUBSET Keys
  <2>1. M \in SUBSET Keys /\ M # {}
    BY <1>1
  <2> HIDE DEF N
  <2>2. IsFiniteSet(M) /\ Cardinality(M) = Cardinality(N) + 1
    BY <1>5, FS_AddElement
  <2> QED
    BY <2>1, <2>2
<1>9. cb = MergedBlock(g)
  <2>1. DOMAIN f = N /\ \A x \in N : x < p
    OBVIOUS
  <2>2. p \in Nat
    BY <1>1
  <2>3. /\ g = [k \in N \cup {p} |-> g[k]] /\ g[p] = S(p)
        /\ \A k \in N : g[k] = f[k]
    <3> HIDE DEF N, S
    <3> QED
      OBVIOUS
  <2>4. next_cb = IF N = {} THEN EmptyBlock ELSE MergedBlock(f)
    BY <1>2
  <2> DEFINE v == S(p)
  <2> HIDE DEF N, f, g, S
  <2>5. g[p] = v
    BY <2>3
  <2> HIDE DEF v
  <2>6. addKVPair(next_cb, p, v) = MergedBlock(g)
    BY <1>5, <2>1, <2>2, <2>3, <2>4, <2>5, AddLargest
  <2> QED
    BY <2>6 DEF v
<1>10. DOMAIN cb.kvPairs = M /\ DOMAIN g = M
  <2>1. DOMAIN g = M
    OBVIOUS
  <2> HIDE DEF g, cb, M
  <2> QED
    BY <1>9, <2>1 DEF MergedBlock
<1>11. cb \in GoodBlocks
  <2>1. \A key \in M : S(key) \in Version
    BY SurvivorType DEF ListsInv
  <2>2. g \in PairMap(Keys)
    <3> HIDE DEF M, S
    <3> QED
      BY <1>8, <2>1 DEF PairMap
  <2>3. Cardinality(M) <= BlockSize
    <3> HIDE DEF M, N
    <3> QED
      BY <1>2, <1>3, <1>5, <1>8
  <2> HIDE DEF cb, g, M
  <2> QED
    BY <1>8, <1>9, <1>10, <2>2, <2>3, MergedBlockType
<1>12. IF Cardinality(DOMAIN cb.kvPairs) = BlockSize
       THEN output' = Append(output, cb) /\ next_cb' = EmptyBlock
       ELSE next_cb' = cb /\ output' = output
  BY DEF Push
<1>13. CASE Cardinality(M) = BlockSize
  <2>1. output' = Append(output, cb) /\ next_cb' = EmptyBlock
    <3> HIDE DEF cb, M
    <3> QED
      BY <1>10, <1>12, <1>13
  <2>2. /\ output' \in Seq(GoodBlocks) /\ Len(output') = o + 1
        /\ \A i \in 1 .. o : output'[i] = output[i]
        /\ output'[o + 1] = cb
    <3> HIDE DEF cb
    <3> QED
      BY <1>2, <1>11, <2>1, AppendProperties
  <2>3. M = Chunk(K, o + 1)
    <3>1. PICK i \in 1 .. ((Cardinality(K) + BlockSize - 1) \div BlockSize) : p \in Chunk(K, i)
      <4> HIDE DEF K
      <4> QED
        BY <1>1, ChunkOfKey DEF K
    <3>2. i = o + 1
      <4>1. Rank(K)[p] \div BlockSize = i - 1 /\ Rank(K)[p] \div BlockSize = (o + 1) - 1
        BY <1>6, <3>1 DEF Chunk
      <4>2. i \in Int
        OBVIOUS
      <4> HIDE DEF o
      <4> QED
        BY <1>3, <4>1, <4>2
    <3> DEFINE C == Chunk(K, o + 1)
    <3>3. IsFiniteSet(C) /\ Cardinality(C) <= BlockSize
      <4> HIDE DEF K
      <4> QED
        BY <1>1, <3>2, ChunkSize
    <3>4. M \in SUBSET C
      BY <1>7
    <3> HIDE DEF C, M
    <3>5. Cardinality(C) \in Nat /\ Cardinality(M) <= Cardinality(C)
          /\ (Cardinality(C) = Cardinality(M) => C = M)
      BY <3>3, <3>4, FS_Subset, FS_CardinalityType
    <3>6. C = M
      BY <1>3, <1>13, <3>3, <3>5
    <3> QED
      BY <3>6 DEF C
  <2>4. E \cap Chunk(K, (o + 1) + 1) = {}
    <3> SUFFICES ASSUME NEW d \in E, d \in Chunk(K, (o + 1) + 1)
                 PROVE  FALSE
      OBVIOUS
    <3> DEFINE r == Rank(K)[d]
    <3>1. r \in Nat /\ r <= Cardinality(D) /\ r \div BlockSize = ((o + 1) + 1) - 1
      BY <1>4 DEF Chunk
    <3>2. Cardinality(D) = BlockSize * o + (BlockSize - 1)
      <4> HIDE DEF o, N, M
      <4> QED
        BY <1>2, <1>3, <1>5, <1>8, <1>13
    <3> HIDE DEF r, o
    <3> DEFINE e == BlockSize - 1
    <3>3. (BlockSize * o + e) \div BlockSize = o
      <4>1. e \in Nat /\ e < BlockSize
        BY <1>3
      <4> HIDE DEF e
      <4> QED
        BY <1>3, <4>1, Quotient
    <3> DEFINE m == BlockSize * o + e
    <3>4. m \in Nat /\ r <= m /\ r \in Nat
      BY <1>3, <3>1, <3>2
    <3>5. m \div BlockSize = o
      BY <3>3
    <3> HIDE DEF m
    <3>6. r \div BlockSize <= o
      BY <1>3, <3>4, <3>5, DivMono
    <3> QED
      BY <1>3, <3>1, <3>6
  <2>5. \A i \in 1 .. o + 1 : output'[i] = MergedBlock([key \in Chunk(K, i) |-> S(key)])
    <3> SUFFICES ASSUME NEW i \in 1 .. o + 1
                 PROVE  output'[i] = MergedBlock([key \in Chunk(K, i) |-> S(key)])
      OBVIOUS
    <3>1. CASE i = o + 1
      <4>1. g = [key \in Chunk(K, i) |-> S(key)]
        <5> HIDE DEF M, K
        <5> QED
          BY <2>3, <3>1
      <4> HIDE DEF g, cb
      <4> QED
        BY <1>9, <2>2, <3>1, <4>1
    <3>2. CASE i # o + 1
      <4>1. i \in 1 .. o
        <5> HIDE DEF o
        <5> QED
          BY <1>3, <3>2
      <4> QED
        BY <1>2, <2>2, <4>1, Zenon
    <3> QED
      BY <3>1, <3>2
  <2>6. Cardinality(E) = BlockSize * (o + 1) + 0 /\ 0 < BlockSize
    <3>1. BlockSize * (o + 1) = BlockSize * o + BlockSize
      <4> HIDE DEF o
      <4> QED
        BY <1>3
    <3> HIDE DEF E, M, N, o
    <3> QED
      BY <1>2, <1>3, <1>4, <1>5, <1>8, <1>13, <3>1
  <2>7. Cardinality({}) = 0
    BY FS_EmptySet
  <2>8. /\ output' \in Seq(GoodBlocks)
        /\ \A i \in 1 .. Len(output') : output'[i] = MergedBlock([key \in Chunk(K, i) |-> S(key)])
        /\ E \cap Chunk(K, Len(output') + 1) = {}
        /\ next_cb' = EmptyBlock
        /\ Cardinality(E) = BlockSize * Len(output') + Cardinality(E \cap Chunk(K, Len(output') + 1))
        /\ Cardinality(E \cap Chunk(K, Len(output') + 1)) < BlockSize
    <3> HIDE DEF E, K, S, o
    <3> QED
      BY <2>1, <2>2, <2>4, <2>5, <2>6, <2>7
  <2> QED
    BY <2>8 DEF Filled
<1>14. CASE Cardinality(M) # BlockSize
  <2>1. next_cb' = cb /\ output' = output
    <3> HIDE DEF cb, M
    <3> QED
      BY <1>10, <1>12, <1>14
  <2>2. Cardinality(E) = BlockSize * o + Cardinality(M) /\ Cardinality(M) < BlockSize
    <3> DEFINE z == BlockSize * o
    <3>1. z \in Nat /\ Cardinality(D) = z + Cardinality(N) /\ Cardinality(N) < BlockSize
      BY <1>2, <1>3
    <3> HIDE DEF E, M, N, z
    <3>2. Cardinality(E) = z + Cardinality(M) /\ Cardinality(M) < BlockSize
      BY <1>3, <1>4, <1>5, <1>8, <1>14, <3>1
    <3> QED
      BY <3>2 DEF z
  <2>3. /\ output' \in Seq(GoodBlocks) /\ Len(output') = o
        /\ \A i \in 1 .. o : output'[i] = MergedBlock([key \in Chunk(K, i) |-> S(key)])
        /\ E \cap Chunk(K, o + 1) = M /\ M # {}
        /\ next_cb' = MergedBlock(g)
    <3> HIDE DEF cb, M, g
    <3> QED
      BY <1>2, <1>7, <1>8, <1>9, <2>1
  <2>4. LET open == E \cap Chunk(K, Len(output') + 1)
        IN  /\ next_cb' = IF open = {} THEN EmptyBlock ELSE MergedBlock([key \in open |-> S(key)])
            /\ Cardinality(E) = BlockSize * Len(output') + Cardinality(open)
            /\ Cardinality(open) < BlockSize
    <3> HIDE DEF M, E, K, o, S
    <3> QED
      BY <2>2, <2>3, Zenon
  <2>5. /\ output' \in Seq(GoodBlocks)
        /\ \A i \in 1 .. Len(output') : output'[i] = MergedBlock([key \in Chunk(K, i) |-> S(key)])
    BY <2>3
  <2> QED
    BY <2>4, <2>5, Zenon DEF Filled
<1> QED
  BY <1>13, <1>14

\* When nothing is left, the blocks are those of merge: the last one is
\* written out unless it is empty.
LEMMA FilledAtEnd ==
  ASSUME ListsInv, Filled(a, b, KeysOf(a) \cup KeysOf(b), next_cb, output)
  PROVE  (IF next_cb = EmptyBlock THEN output ELSE Append(output, next_cb)) = merge(a, b)
<1> DEFINE K == KeysOf(a) \cup KeysOf(b)
           o == Len(output)
           N == K \cap Chunk(K, o + 1)
           S(key) == Survivor(a, b, key)
           f == [key \in N |-> S(key)]
           c == Cardinality(N)
           m == merge(a, b)
           n == (Cardinality(K) + BlockSize - 1) \div BlockSize
           result == IF next_cb = EmptyBlock THEN output ELSE Append(output, next_cb)
<1>1. /\ K \in SUBSET Nat /\ IsFiniteSet(K) /\ Cardinality(K) \in Nat
      /\ Len(m) = n /\ n \in Nat
      /\ \A i \in 1 .. n : m[i] = MergedBlock([key \in Chunk(K, i) |-> S(key)])
      /\ m \in Seq(GoodBlocks)
  <2>1. a \in Seq(GoodBlocks) /\ b \in Seq(GoodBlocks)
    BY DEF ListsInv
  <2>2. m \in Seq(GoodBlocks)
    BY <2>1, MergeType
  <2>3. /\ K \in SUBSET Nat /\ IsFiniteSet(K) /\ Cardinality(K) \in Nat
        /\ Len(m) = n /\ Len(m) \in Nat /\ DOMAIN m = 1 .. Len(m)
        /\ \A i \in DOMAIN m : m[i] = MergedBlock([key \in Chunk(K, i) |-> S(key)])
    BY <2>1, MergedChunk
  <2> HIDE DEF m, n, K, S
  <2> QED
    BY <2>2, <2>3
<1>2. /\ output \in Seq(GoodBlocks)
      /\ \A i \in 1 .. o : output[i] = MergedBlock([key \in Chunk(K, i) |-> S(key)])
      /\ next_cb = IF N = {} THEN EmptyBlock ELSE MergedBlock(f)
      /\ Cardinality(K) = BlockSize * o + c
      /\ c < BlockSize
  BY DEF Filled
<1>3. o \in Nat /\ BlockSize \in Nat \ {0} /\ BlockSize * o \in Nat
  <2>1. o \in Nat
    BY <1>2, LenProperties
  <2> HIDE DEF o
  <2> QED
    BY <2>1, BlockSizeAssumption, MulMono
<1>4. N = Chunk(K, o + 1) /\ IsFiniteSet(N) /\ c \in Nat /\ (c = 0 <=> N = {})
  <2>1. N = Chunk(K, o + 1)
    BY DEF Chunk
  <2>2. N \in SUBSET K
    OBVIOUS
  <2> HIDE DEF N, K
  <2>3. IsFiniteSet(N)
    BY <1>1, <2>2, FS_Subset
  <2> QED
    BY <2>1, <2>3, FS_CardinalityType, FS_EmptySet
<1>5. CASE N = {}
  <2>1. n = o
    <3> DEFINE e == BlockSize - 1
    <3>1. e \in Nat /\ e < BlockSize
      BY <1>3
    <3>2. Cardinality(K) + BlockSize - 1 = BlockSize * o + e
      <4> DEFINE z == BlockSize * o
      <4>1. z \in Nat /\ Cardinality(K) = z + c /\ c = 0
        BY <1>2, <1>3, <1>4, <1>5
      <4> HIDE DEF z, K, c
      <4>2. Cardinality(K) + BlockSize - 1 = z + (BlockSize - 1)
        BY <1>3, <4>1
      <4> QED
        BY <4>2 DEF z
    <3> HIDE DEF e, o
    <3>3. (BlockSize * o + e) \div BlockSize = o
      BY <1>3, <3>1, Quotient
    <3> QED
      BY <3>2, <3>3
  <2>2. result = output
    BY <1>2, <1>5
  <2>3. \A i \in 1 .. o : output[i] = m[i]
    <3> HIDE DEF m, n, K, S, o
    <3> QED
      BY <1>1, <1>2, <2>1
  <2>4. output = m
    <3> HIDE DEF m, n
    <3> QED
      BY <1>1, <1>2, <2>1, <2>3, SeqEqual
  <2> QED
    BY <2>2, <2>4
<1>6. CASE N # {}
  <2>1. n = o + 1
    <3> DEFINE e == c - 1
    <3>1. e \in Nat /\ e < BlockSize
      <4>1. c \in Nat /\ c # 0 /\ c < BlockSize
        BY <1>2, <1>4, <1>6
      <4> HIDE DEF c
      <4> QED
        BY <1>3, <4>1
    <3>2. Cardinality(K) + BlockSize - 1 = BlockSize * (o + 1) + e
      <4> DEFINE z == BlockSize * o
      <4>1. z \in Nat /\ Cardinality(K) = z + c /\ c \in Nat
        BY <1>2, <1>3, <1>4
      <4>2. BlockSize * (o + 1) = z + BlockSize
        <5> HIDE DEF o
        <5> QED
          BY <1>3
      <4> HIDE DEF z, K, c
      <4>3. Cardinality(K) + BlockSize - 1 = (z + BlockSize) + (c - 1)
        BY <1>3, <4>1
      <4> QED
        BY <4>2, <4>3
    <3> DEFINE q == o + 1
    <3>3. q \in Nat
      BY <1>3
    <3> HIDE DEF e, q
    <3>4. (BlockSize * q + e) \div BlockSize = q
      BY <3>1, <3>3, Quotient
    <3> QED
      BY <3>2, <3>4 DEF q
  <2>2. next_cb = MergedBlock(f) /\ next_cb # EmptyBlock
    <3>1. next_cb = MergedBlock(f)
      BY <1>2, <1>6
    <3>2. DOMAIN next_cb.kvPairs = N
      <4>1. DOMAIN f = N
        OBVIOUS
      <4> HIDE DEF f, N
      <4> QED
        BY <3>1, <4>1 DEF MergedBlock
    <3>3. DOMAIN EmptyBlock.kvPairs = {}
      BY DEF EmptyBlock
    <3> HIDE DEF N, f
    <3> QED
      BY <1>6, <3>1, <3>2, <3>3
  <2>3. f = [key \in Chunk(K, o + 1) |-> S(key)]
    <3> HIDE DEF N, S, K, o
    <3> QED
      BY <1>4
  <2>4. next_cb = m[o + 1] /\ next_cb \in GoodBlocks
    <3>1. o + 1 \in 1 .. n
      <4> HIDE DEF o, n
      <4> QED
        BY <1>3, <2>1
    <3>2. m[o + 1] = MergedBlock(f)
      <4> HIDE DEF m, n, f
      <4> QED
        BY <1>1, <2>3, <3>1
    <3>3. m[o + 1] \in GoodBlocks
      <4> HIDE DEF m, n, o
      <4> QED
        BY <1>1, <3>1, ElementOfSeq
    <3> HIDE DEF m, f
    <3> QED
      BY <2>2, <3>2, <3>3
  <2>5. /\ result = Append(output, next_cb)
        /\ result \in Seq(GoodBlocks) /\ Len(result) = o + 1
        /\ \A i \in 1 .. o : result[i] = output[i]
        /\ result[o + 1] = next_cb
    <3>1. result = Append(output, next_cb)
      BY <2>2
    <3>2. output \in Seq(GoodBlocks) /\ next_cb \in GoodBlocks
      BY <1>2, <2>4
    <3> HIDE DEF result
    <3> QED
      BY <3>1, <3>2, AppendProperties
  <2>6. \A i \in 1 .. o + 1 : result[i] = m[i]
    <3> SUFFICES ASSUME NEW i \in 1 .. o + 1
                 PROVE  result[i] = m[i]
      OBVIOUS
    <3> HIDE DEF result, m, o, n, K, S
    <3>1. CASE i = o + 1
      BY <2>4, <2>5, <3>1
    <3>2. CASE i # o + 1
      <4>1. i \in 1 .. o /\ i \in 1 .. n
        BY <1>3, <2>1, <3>2
      <4> QED
        BY <1>1, <1>2, <2>5, <4>1
    <3> QED
      BY <3>1, <3>2
  <2>7. result = m
    <3> HIDE DEF result, m, n, o
    <3> QED
      BY <1>1, <2>1, <2>5, <2>6, SeqEqual
  <2> QED
    BY <2>7
<1> QED
  BY <1>5, <1>6

-----------------------------------------------------------------------------
(***************************************************************************)
(* The invariant.                                                          *)
(***************************************************************************)

LEMMA KeysAreNat ==
  ASSUME ListsInv
  PROVE  KeysOf(a) \in SUBSET Nat /\ KeysOf(b) \in SUBSET Nat
BY KeysOfCount, KeysAssumption DEF ListsInv

\* The keys that are left are keys of the list.
LEMMA LeftOfKeys == LeftA \in SUBSET KeysOf(a) /\ LeftB \in SUBSET KeysOf(b)
BY DEF LeftA, LeftB, Left

\* A key that is left in one list has not been taken from the other either.
LEMMA StillLeft ==
  ASSUME ListsInv, TakenFirst, NEW p \in LeftA \cup LeftB
  PROVE  /\ p \in Nat /\ p \in KeysOf(a) \cup KeysOf(b) /\ p \notin Taken
         /\ p \in KeysOf(a) <=> p \in LeftA
         /\ p \in KeysOf(b) <=> p \in LeftB
<1>1. p \in KeysOf(a) \cup KeysOf(b) /\ p \in Nat
  BY LeftOfKeys, KeysAreNat
<1>2. p \notin Taken
  <2>1. p \in Taken => p < p
    BY DEF TakenFirst
  <2> QED
    BY <1>1, <2>1
<1> QED
  BY <1>1, <1>2, LeftOfKeys DEF Taken

\* An iteration that pushes the smallest key that is left, with the version
\* that survives, and advances past it wherever it occurs.
LEMMA Take ==
  ASSUME MergeInv, ~done,
         NEW p \in LeftA \cup LeftB, \A r \in LeftA \cup LeftB : p <= r,
         NEW pair, pair.key = p, pair.version = Survivor(a, b, p), Push(pair),
         LeftA' = LeftA \ {p}, LeftB' = LeftB \ {p}, IndicesInv',
         a' = a, b' = b, done' = done
  PROVE  MergeInv'
<1> DEFINE D == Taken
           K == KeysOf(a) \cup KeysOf(b)
<1>1. ListsInv /\ TakenFirst /\ Filled(a, b, D, next_cb, output)
  BY DEF MergeInv
<1>2. /\ p \in Nat /\ p \in K /\ p \notin D
      /\ LeftA \in SUBSET KeysOf(a) /\ LeftB \in SUBSET KeysOf(b)
      /\ KeysOf(a) \in SUBSET Nat /\ KeysOf(b) \in SUBSET Nat
  BY <1>1, StillLeft, LeftOfKeys, KeysAreNat
<1>3. /\ D \in SUBSET K
      /\ \A d \in D : d < p
      /\ \A r \in K \ D : p <= r
  <2>1. D \in SUBSET K
    BY DEF Taken
  <2>2. \A d \in D : d < p
    BY <1>1 DEF TakenFirst
  <2>3. K \ D \in SUBSET (LeftA \cup LeftB)
    BY DEF Taken
  <2> QED
    BY <2>1, <2>2, <2>3
<1>4. Filled(a, b, D \cup {p}, next_cb', output')
  <2>1. p \in KeysOf(a) \cup KeysOf(b) /\ D \in SUBSET (KeysOf(a) \cup KeysOf(b))
    BY <1>2, <1>3
  <2>2. \A r \in (KeysOf(a) \cup KeysOf(b)) \ D : p <= r
    BY <1>3
  <2> HIDE DEF D
  <2> QED
    BY <1>1, <1>2, <1>3, <2>1, <2>2, PushFills
<1>5. KeysOf(a)' = KeysOf(a) /\ KeysOf(b)' = KeysOf(b)
  BY DEF KeysOf
<1>6. Taken' = D \cup {p}
  BY <1>2, <1>5 DEF Taken
<1>7. ListsInv'
  BY <1>1 DEF ListsInv, InKeyOrder
<1>8. TakenFirst'
  <2>1. ASSUME NEW x \in D \cup {p}, NEW y \in (LeftA \cup LeftB) \ {p}
        PROVE  x < y
    <3>1. CASE x \in D
      BY <1>1, <3>1 DEF TakenFirst
    <3>2. CASE x = p
      <4>1. y \in Nat /\ p <= y /\ p # y
        BY <1>2
      <4> QED
        BY <1>2, <3>2, <4>1
    <3> QED
      BY <3>1, <3>2
  <2>2. LeftA' \cup LeftB' = (LeftA \cup LeftB) \ {p}
    OBVIOUS
  <2> HIDE DEF D
  <2> QED
    BY <1>6, <2>1, <2>2 DEF TakenFirst
<1>9. Filled(a, b, Taken, next_cb, output)'
  <2>1. Filled(a', b', Taken', next_cb', output')
    <3> HIDE DEF D
    <3> QED
      BY <1>4, <1>6
  <2> QED
    BY <2>1 DEF Filled, Survivor, VersionIn, KeysOf
<1> QED
  BY <1>7, <1>8, <1>9 DEF MergeInv, ComputesMerge

\* The pair that comes next has the smallest key that is left.
LEMMA NextIsSmallest ==
  ASSUME NEW blocks \in Seq(GoodBlocks), InKeyOrder(blocks),
         NEW i, NEW j, InList(blocks, i, j), i < Len(blocks)
  PROVE  LET key == NextKey(blocks, i, j)
         IN  /\ key \in Nat /\ key \in Left(blocks, i, j)
             /\ \A k \in Left(blocks, i, j) : key <= k
             /\ PairAt(blocks[i + 1], j) = [key |-> key, version |-> VersionIn(blocks, key)]
<1> DEFINE s == Step(blocks, i, j)
<1>1. <<s[1], s[2]>> = s
  BY DEF Step
<1>2. PICK i2, j2 : <<i2, j2>> = Step(blocks, i, j)
  BY <1>1
<1>3. /\ NextKey(blocks, i, j) \in Left(blocks, i, j)
      /\ \A k \in Left(blocks, i, j) : NextKey(blocks, i, j) <= k
  BY <1>2, Advance
<1>4. /\ NextKey(blocks, i, j) \in Nat
      /\ PairAt(blocks[i + 1], j) =
           [key |-> NextKey(blocks, i, j), version |-> VersionIn(blocks, NextKey(blocks, i, j))]
  BY PairFacts
<1> QED
  BY <1>3, <1>4

LEMMA HeadA ==
  ASSUME ListsInv, IndicesInv, MoreA
  PROVE  /\ PairA.key \in Nat /\ PairA.key \in LeftA
         /\ \A k \in LeftA : PairA.key <= k
         /\ PairA.version = VersionIn(a, PairA.key)
         /\ AdvanceA /\ a' = a =>
              InList(a, aa, aaa)' /\ LeftA' = LeftA \ {PairA.key}
<1> DEFINE p == NextKey(a, aa, aaa)
<1>1. a \in Seq(GoodBlocks) /\ InKeyOrder(a) /\ InList(a, aa, aaa) /\ aa < Len(a)
  BY DEF ListsInv, IndicesInv, MoreA
<1>2. /\ p \in Nat /\ p \in LeftA /\ \A k \in LeftA : p <= k
      /\ PairA = [key |-> p, version |-> VersionIn(a, p)]
  BY <1>1, NextIsSmallest DEF LeftA, PairA
<1>3. PairA.key = p /\ PairA.version = VersionIn(a, p)
  <2> HIDE DEF p
  <2> QED
    BY <1>2
<1>4. ASSUME AdvanceA, a' = a
      PROVE  InList(a, aa, aaa)' /\ LeftA' = LeftA \ {p}
  <2>1. <<aa', aaa'>> = Step(a, aa, aaa)
    BY <1>4 DEF AdvanceA, Step
  <2>2. InList(a, aa', aaa') /\ Left(a, aa', aaa') = LeftA \ {p}
    BY <1>1, <2>1, Advance DEF LeftA
  <2>3. InList(a', aa', aaa') /\ Left(a', aa', aaa') = LeftA \ {p}
    <3> HIDE DEF p
    <3> QED
      BY <1>4, <2>2
  <2> QED
    BY <2>3 DEF InList, LeftA, Left, NextKey, KeysOf, PairAt
<1> HIDE DEF p
<1> QED
  BY <1>2, <1>3, <1>4

LEMMA HeadB ==
  ASSUME ListsInv, IndicesInv, MoreB
  PROVE  /\ PairB.key \in Nat /\ PairB.key \in LeftB
         /\ \A k \in LeftB : PairB.key <= k
         /\ PairB.version = VersionIn(b, PairB.key)
         /\ AdvanceB /\ b' = b =>
              InList(b, bb, bbb)' /\ LeftB' = LeftB \ {PairB.key}
<1> DEFINE p == NextKey(b, bb, bbb)
<1>1. b \in Seq(GoodBlocks) /\ InKeyOrder(b) /\ InList(b, bb, bbb) /\ bb < Len(b)
  BY DEF ListsInv, IndicesInv, MoreB
<1>2. /\ p \in Nat /\ p \in LeftB /\ \A k \in LeftB : p <= k
      /\ PairB = [key |-> p, version |-> VersionIn(b, p)]
  BY <1>1, NextIsSmallest DEF LeftB, PairB
<1>3. PairB.key = p /\ PairB.version = VersionIn(b, p)
  <2> HIDE DEF p
  <2> QED
    BY <1>2
<1>4. ASSUME AdvanceB, b' = b
      PROVE  InList(b, bb, bbb)' /\ LeftB' = LeftB \ {p}
  <2>1. <<bb', bbb'>> = Step(b, bb, bbb)
    BY <1>4 DEF AdvanceB, Step
  <2>2. InList(b, bb', bbb') /\ Left(b, bb', bbb') = LeftB \ {p}
    BY <1>1, <2>1, Advance DEF LeftB
  <2>3. InList(b', bb', bbb') /\ Left(b', bb', bbb') = LeftB \ {p}
    <3> HIDE DEF p
    <3> QED
      BY <1>4, <2>2
  <2> QED
    BY <2>3 DEF InList, LeftB, Left, NextKey, KeysOf, PairAt
<1> HIDE DEF p
<1> QED
  BY <1>2, <1>3, <1>4

\* Nothing changes on the side that is not advanced.
LEMMA SideA ==
  ASSUME UNCHANGED <<a, aa, aaa>>
  PROVE  LeftA' = LeftA /\ (InList(a, aa, aaa) => InList(a, aa, aaa)')
BY DEF LeftA, Left, NextKey, KeysOf, PairAt, InList

LEMMA SideB ==
  ASSUME UNCHANGED <<b, bb, bbb>>
  PROVE  LeftB' = LeftB /\ (InList(b, bb, bbb) => InList(b, bb, bbb)')
BY DEF LeftB, Left, NextKey, KeysOf, PairAt, InList

LEMMA TakeA_MergeInv ==
  ASSUME MergeInv, TakeA
  PROVE  MergeInv'
<1> DEFINE p == PairA.key
<1>1. /\ ListsInv /\ IndicesInv /\ TakenFirst /\ MoreA /\ ~done
      /\ AdvanceA /\ a' = a /\ b' = b /\ done' = done /\ Push(PairA)
      /\ MoreB => p < PairB.key
  BY DEF MergeInv, TakeA
<1>2. /\ p \in Nat /\ p \in LeftA /\ \A k \in LeftA : p <= k
      /\ PairA.version = VersionIn(a, p)
      /\ InList(a, aa, aaa)' /\ LeftA' = LeftA \ {p}
  BY <1>1, HeadA
<1>3. ASSUME NEW k \in LeftB
      PROVE  p <= k /\ p # k
  <2>1. MoreB
    BY DEF LeftB, Left, MoreB
  <2>2. PairB.key \in Nat /\ PairB.key <= k /\ k \in Nat
    BY <1>1, <2>1, HeadB, LeftOfKeys, KeysAreNat
  <2> HIDE DEF p
  <2> QED
    BY <1>1, <1>2, <2>1, <2>2
<1>4. LeftB' = LeftB \ {p} /\ IndicesInv'
  <2>1. LeftB' = LeftB /\ InList(b, bb, bbb)'
    BY <1>1, SideB DEF TakeA, IndicesInv
  <2> QED
    BY <1>2, <1>3, <2>1 DEF IndicesInv
<1>5. Survivor(a, b, p) = VersionIn(a, p)
  <2>1. p \in KeysOf(a) /\ p \notin KeysOf(b)
    BY <1>1, <1>2, <1>3, StillLeft
  <2> HIDE DEF p
  <2> QED
    BY <2>1 DEF Survivor
<1>6. p \in LeftA \cup LeftB /\ \A k \in LeftA \cup LeftB : p <= k
  BY <1>2, <1>3
<1> DEFINE pair == PairA
<1>7. pair.key = p /\ pair.version = Survivor(a, b, p) /\ Push(pair)
  BY <1>1, <1>2, <1>5
<1> HIDE DEF p, pair
<1> QED
  BY <1>1, <1>2, <1>4, <1>6, <1>7, Take

LEMMA TakeB_MergeInv ==
  ASSUME MergeInv, TakeB
  PROVE  MergeInv'
<1> DEFINE p == PairB.key
<1>1. /\ ListsInv /\ IndicesInv /\ TakenFirst /\ MoreB /\ ~done
      /\ AdvanceB /\ a' = a /\ b' = b /\ done' = done /\ Push(PairB)
      /\ MoreA => p < PairA.key
  BY DEF MergeInv, TakeB
<1>2. /\ p \in Nat /\ p \in LeftB /\ \A k \in LeftB : p <= k
      /\ PairB.version = VersionIn(b, p)
      /\ InList(b, bb, bbb)' /\ LeftB' = LeftB \ {p}
  BY <1>1, HeadB
<1>3. ASSUME NEW k \in LeftA
      PROVE  p <= k /\ p # k
  <2>1. MoreA
    BY DEF LeftA, Left, MoreA
  <2>2. PairA.key \in Nat /\ PairA.key <= k /\ k \in Nat
    BY <1>1, <2>1, HeadA, LeftOfKeys, KeysAreNat
  <2> HIDE DEF p
  <2> QED
    BY <1>1, <1>2, <2>1, <2>2
<1>4. LeftA' = LeftA \ {p} /\ IndicesInv'
  <2>1. LeftA' = LeftA /\ InList(a, aa, aaa)'
    BY <1>1, SideA DEF TakeB, IndicesInv
  <2> QED
    BY <1>2, <1>3, <2>1 DEF IndicesInv
<1>5. Survivor(a, b, p) = VersionIn(b, p)
  <2>1. p \in KeysOf(b) /\ p \notin KeysOf(a)
    BY <1>1, <1>2, <1>3, StillLeft
  <2> HIDE DEF p
  <2> QED
    BY <2>1 DEF Survivor
<1>6. p \in LeftA \cup LeftB /\ \A k \in LeftA \cup LeftB : p <= k
  BY <1>2, <1>3
<1> DEFINE pair == PairB
<1>7. pair.key = p /\ pair.version = Survivor(a, b, p) /\ Push(pair)
  BY <1>1, <1>2, <1>5
<1> HIDE DEF p, pair
<1> QED
  BY <1>1, <1>2, <1>4, <1>6, <1>7, Take

LEMMA TakeBoth_MergeInv ==
  ASSUME MergeInv, TakeBoth
  PROVE  MergeInv'
<1> DEFINE p == PairA.key
           pair == Recent(PairA, PairB)
<1>1. /\ ListsInv /\ IndicesInv /\ TakenFirst /\ MoreA /\ MoreB /\ ~done
      /\ AdvanceA /\ AdvanceB /\ a' = a /\ b' = b /\ done' = done /\ Push(pair)
      /\ PairB.key = p
  BY DEF MergeInv, TakeBoth
<1>2. /\ p \in Nat /\ p \in LeftA /\ \A k \in LeftA : p <= k
      /\ PairA.version = VersionIn(a, p)
      /\ InList(a, aa, aaa)' /\ LeftA' = LeftA \ {p}
  BY <1>1, HeadA
<1>3. /\ p \in LeftB /\ \A k \in LeftB : p <= k
      /\ PairB.version = VersionIn(b, p)
      /\ InList(b, bb, bbb)' /\ LeftB' = LeftB \ {p}
  BY <1>1, HeadB
<1>4. IndicesInv'
  BY <1>2, <1>3 DEF IndicesInv
<1>5. pair.key = p /\ pair.version = Survivor(a, b, p)
  <2> DEFINE va == VersionIn(a, p)
             vb == VersionIn(b, p)
  <2>1. p \in KeysOf(a) /\ p \in KeysOf(b)
    BY <1>2, <1>3, LeftOfKeys
  <2>2. va.txn_timestamp \in Int /\ vb.txn_timestamp \in Int
    <3>1. va \in Version /\ vb \in Version
      BY <1>1, <2>1, VersionInType DEF ListsInv
    <3> HIDE DEF va, vb
    <3> QED
      BY <3>1, TimestampsAssumption DEF Version
  <2>3. vb.txn_timestamp >= va.txn_timestamp <=> ~ (vb.txn_timestamp < va.txn_timestamp)
    <3> HIDE DEF va, vb
    <3> QED
      BY <2>2
  <2>4. PairA.version = va /\ PairB.version = vb
    BY <1>2, <1>3
  <2>5. Survivor(a, b, p) = IF vb.txn_timestamp < va.txn_timestamp THEN va ELSE vb
    BY <2>1 DEF Survivor
  <2> HIDE DEF va, vb, p
  <2> QED
    BY <1>1, <2>3, <2>4, <2>5 DEF Recent, p
<1>6. p \in LeftA \cup LeftB /\ \A k \in LeftA \cup LeftB : p <= k
  BY <1>2, <1>3
<1> HIDE DEF p, pair
<1> QED
  BY <1>1, <1>2, <1>3, <1>4, <1>5, <1>6, Take

LEMMA Finish_MergeInv ==
  ASSUME MergeInv, Finish
  PROVE  MergeInv'
<1>1. ListsInv /\ IndicesInv /\ TakenFirst /\ Filled(a, b, Taken, next_cb, output)
  BY DEF MergeInv, Finish
<1>2. /\ ~MoreA /\ ~MoreB /\ done' = TRUE
      /\ output' = IF next_cb = EmptyBlock THEN output ELSE Append(output, next_cb)
      /\ UNCHANGED <<a, b, aa, bb, aaa, bbb>>
  BY DEF Finish
<1>3. LeftA = {} /\ LeftB = {}
  BY <1>2 DEF LeftA, LeftB, Left, MoreA, MoreB
<1>4. Taken = KeysOf(a) \cup KeysOf(b)
  BY <1>3 DEF Taken
<1>5. output' = merge(a, b)
  <2>1. Filled(a, b, KeysOf(a) \cup KeysOf(b), next_cb, output)
    BY <1>1, <1>4
  <2>2. (IF next_cb = EmptyBlock THEN output ELSE Append(output, next_cb)) = merge(a, b)
    BY <1>1, <2>1, FilledAtEnd
  <2> QED
    BY <1>2, <2>2
<1>6. ComputesMerge'
  <2>1. merge(a', b') = merge(a, b)
    BY <1>2
  <2>2. output' = merge(a', b')
    BY <1>5, <2>1
  <2> QED
    BY <2>2 DEF ComputesMerge, merge
<1>7. ListsInv' /\ IndicesInv' /\ TakenFirst'
  <2>1. LeftA' = LeftA /\ LeftB' = LeftB /\ IndicesInv'
    BY <1>1, <1>2, SideA, SideB DEF IndicesInv
  <2>2. TakenFirst'
    BY <1>3, <2>1 DEF TakenFirst
  <2>3. ListsInv'
    BY <1>1, <1>2 DEF ListsInv, InKeyOrder
  <2> QED
    BY <2>1, <2>2, <2>3
<1>8. ~MoreA' /\ ~MoreB'
  BY <1>2 DEF MoreA, MoreB
<1> QED
  BY <1>2, <1>6, <1>7, <1>8 DEF MergeInv

LEMMA Init_MergeInv ==
  ASSUME Init
  PROVE  MergeInv
<1>1. a \in BlockLists /\ b \in BlockLists \cup {<< >>}
  BY DEF Init
<1>2. a \in Seq(GoodBlocks) /\ InKeyOrder(a)
  BY <1>1, BlockListsSorted
<1>3. b \in Seq(GoodBlocks) /\ InKeyOrder(b)
  <2>1. CASE b \in BlockLists
    BY <2>1, BlockListsSorted
  <2>2. CASE b = << >>
    BY <2>2 DEF InKeyOrder
  <2> QED
    BY <1>1, <2>1, <2>2
<1>4. /\ aa = 0 /\ aaa = 0 /\ bb = 0 /\ bbb = 0
      /\ next_cb = EmptyBlock /\ output = << >> /\ done = FALSE
  BY DEF Init
<1>5. /\ InList(a, aa, aaa) /\ LeftA = KeysOf(a)
      /\ InList(b, bb, bbb) /\ LeftB = KeysOf(b)
  BY <1>2, <1>3, <1>4, LeftAtStart DEF LeftA, LeftB
<1>6. Taken = {}
  BY <1>5 DEF Taken
<1>7. Filled(a, b, Taken, next_cb, output)
  <2> DEFINE open == Taken \cap Chunk(KeysOf(a) \cup KeysOf(b), Len(output) + 1)
  <2>1. open = {}
    BY <1>6
  <2>2. Cardinality(open) = 0 /\ Cardinality(Taken) = 0
    <3> HIDE DEF open
    <3> QED
      BY <1>6, <2>1, FS_EmptySet
  <2>3. Len(output) = 0 /\ output \in Seq(GoodBlocks) /\ 1 .. Len(output) = {}
    BY <1>4
  <2>4. Cardinality(Taken) = BlockSize * Len(output) + Cardinality(open)
        /\ Cardinality(open) < BlockSize
    <3>1. BlockSize * 0 = 0 /\ 0 < BlockSize
      BY BlockSizeAssumption
    <3> HIDE DEF open
    <3> QED
      BY <2>2, <2>3, <3>1
  <2>5. next_cb = IF open = {} THEN EmptyBlock
                  ELSE MergedBlock([key \in open |-> Survivor(a, b, key)])
    <3> HIDE DEF open
    <3> QED
      BY <1>4, <2>1
  <2> HIDE DEF open
  <2> QED
    BY <2>3, <2>4, <2>5, Zenon DEF Filled, open
<1>8. ListsInv /\ IndicesInv /\ TakenFirst
  BY <1>2, <1>3, <1>5, <1>6 DEF ListsInv, IndicesInv, TakenFirst
<1> QED
  BY <1>4, <1>7, <1>8 DEF MergeInv, ComputesMerge

\* A step that changes nothing keeps the invariant.
LEMMA Stutter_MergeInv ==
  ASSUME MergeInv, UNCHANGED vars
  PROVE  MergeInv'
<1>1. UNCHANGED <<a, b, aa, bb, aaa, bbb, next_cb, output, done>>
  BY DEF vars
<1>2. LeftA' = LeftA /\ LeftB' = LeftB /\ IndicesInv'
  BY <1>1, SideA, SideB DEF IndicesInv, MergeInv
<1>3. KeysOf(a)' = KeysOf(a) /\ KeysOf(b)' = KeysOf(b)
  BY <1>1 DEF KeysOf
<1>4. Taken' = Taken
  BY <1>2, <1>3 DEF Taken
<1>5. TakenFirst' /\ ListsInv'
  BY <1>1, <1>2, <1>4 DEF MergeInv, TakenFirst, ListsInv, InKeyOrder
<1>6. Filled(a, b, Taken, next_cb, output) => Filled(a, b, Taken, next_cb, output)'
  <2>1. Filled(a, b, Taken, next_cb, output) => Filled(a', b', Taken', next_cb', output')
    BY <1>1, <1>4
  <2> QED
    BY <2>1 DEF Filled, Survivor, VersionIn, KeysOf
<1>7. ComputesMerge'
  <2>1. done' => output' = merge(a', b')
    BY <1>1 DEF MergeInv, ComputesMerge
  <2> QED
    BY <2>1 DEF ComputesMerge, merge
<1>8. (done => ~MoreA /\ ~MoreB) /\ MoreA' = MoreA /\ MoreB' = MoreB /\ done' = done
  BY <1>1 DEF MergeInv, MoreA, MoreB
<1> QED
  BY <1>2, <1>5, <1>6, <1>7, <1>8 DEF MergeInv

\* MergeInv is inductive.
LEMMA MergeInvariant == Spec => []MergeInv
<1>1. Init => MergeInv
  BY Init_MergeInv
<1>2. MergeInv /\ [Next]_vars => MergeInv'
  BY TakeA_MergeInv, TakeB_MergeInv, TakeBoth_MergeInv, Finish_MergeInv, Stutter_MergeInv
     DEF Next
<1> QED
  BY <1>1, <1>2, PTL DEF Spec

\* The two-pointer loop of CapsuleIndex::merge (index.cc:239-360) returns
\* what the operator merge defines: every key of both lists once, in order,
\* with the later of its two versions, in full blocks but for the last.
THEOREM MergeComputed == Spec => []ComputesMerge
<1>1. MergeInv => ComputesMerge
  BY DEF MergeInv
<1> QED
  BY <1>1, MergeInvariant, PTL

\* a[aa] and b[bb], and the pairs aaa and bbb of those blocks, which the
\* loop reads without a bounds check, exist whenever it reads them.
THEOREM PointersStayInBounds == Spec => []PointersInBounds
<1>1. MergeInv => PointersInBounds
  <2> SUFFICES ASSUME MergeInv PROVE PointersInBounds
    OBVIOUS
  <2>1. InList(a, aa, aaa) /\ InList(b, bb, bbb) /\ Len(a) \in Nat /\ Len(b) \in Nat
    BY LenProperties DEF MergeInv, IndicesInv, ListsInv
  <2> QED
    BY <2>1 DEF PointersInBounds, InList, MoreA, MoreB
<1> QED
  BY <1>1, MergeInvariant, PTL
=============================================================================
