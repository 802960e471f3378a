------------------------ MODULE CapsuleBlocksTheorems ------------------------
(***************************************************************************)
(* What the operators of CapsuleBlocks return, for every value of the      *)
(* constants: merge yields well-formed blocks, no more of them than its    *)
(* arguments have together, and the eviction takes enough blocks.          *)
(***************************************************************************)
EXTENDS CapsuleBlocks, FiniteSetTheorems, SequenceTheorems,
        WellFoundedInduction, TLAPS

\* A nonempty set of natural numbers has a minimum, which Min chooses.
LEMMA MinNat ==
  ASSUME NEW S \in SUBSET Nat, S # {}
  PROVE  /\ Min(S) \in S
         /\ \A x \in S : Min(S) <= x
<1> DEFINE Segments == {0 .. n : n \in S}
<1>1. Segments \subseteq FiniteSubsetsOf(Nat) /\ Segments # {}
  <2>1. \A n \in S : 0 .. n \in SUBSET Nat /\ IsFiniteSet(0 .. n)
    BY FS_Interval
  <2> QED
    BY <2>1 DEF FiniteSubsetsOf
<1>2. PICK T \in Segments :
        \A U \in Segments : ~ (<<U, T>> \in StrictSubsetOrdering(Nat))
  <2> HIDE DEF Segments
  <2> QED
    BY <1>1, FS_StrictSubsetOrderingWellFounded, WFMin, Zenon
<1>3. PICK m \in S : T = 0 .. m
  OBVIOUS
<1>4. \A x \in S : m <= x
  <2> SUFFICES ASSUME NEW x \in S, x < m
               PROVE  FALSE
    OBVIOUS
  <2>1. (0 .. x) \subseteq (0 .. m) /\ m \in 0 .. m /\ m \notin 0 .. x
    OBVIOUS
  <2>2. <<0 .. x, T>> \in StrictSubsetOrdering(Nat)
    BY <1>1, <1>3, <2>1 DEF StrictSubsetOrdering
  <2> QED
    BY <1>2, <2>2
<1> QED
  BY <1>4 DEF Min

\* A nonempty finite set of natural numbers has a maximum, which Max
\* chooses: the element with the fewest elements above it.
LEMMA MaxNat ==
  ASSUME NEW S \in SUBSET Nat, S # {}, IsFiniteSet(S)
  PROVE  /\ Max(S) \in S
         /\ \A x \in S : Max(S) >= x
<1> DEFINE Above(x) == {y \in S : y > x}
           Counts == {Cardinality(Above(x)) : x \in S}
<1>1. \A x \in S : IsFiniteSet(Above(x)) /\ Cardinality(Above(x)) \in Nat
  BY FS_Subset, FS_CardinalityType
<1>2. Counts \in SUBSET Nat /\ Counts # {}
  BY <1>1
<1>3. PICK m \in S : Cardinality(Above(m)) = Min(Counts)
  <2>1. Min(Counts) \in Counts
    <3> HIDE DEF Counts
    <3> QED
      BY <1>2, MinNat, Zenon
  <2> QED
    BY <2>1
<1>4. \A x \in S : Cardinality(Above(m)) <= Cardinality(Above(x))
  <2>1. \A c \in Counts : Min(Counts) <= c
    <3> HIDE DEF Counts
    <3> QED
      BY <1>2, MinNat, Zenon
  <2> QED
    BY <1>3, <2>1
<1>5. \A x \in S : m >= x
  <2> SUFFICES ASSUME NEW x \in S, x > m
               PROVE  FALSE
    OBVIOUS
  <2>0. m \in Nat /\ x \in Nat /\ \A y \in S : y \in Nat
    OBVIOUS
  <2>1. Above(x) \in SUBSET Above(m) /\ x \in Above(m) /\ x \notin Above(x)
    <3>1. \A y \in S : y > x => y > m
      BY <2>0
    <3>2. ~ (x > x)
      BY <2>0
    <3> QED
      BY <3>1, <3>2
  <2>2. Cardinality(Above(x)) <= Cardinality(Above(m))
        /\ (Cardinality(Above(m)) = Cardinality(Above(x)) => Above(m) = Above(x))
    <3> HIDE DEF Above
    <3> QED
      BY <1>1, <2>1, FS_Subset
  <2>3. Cardinality(Above(m)) <= Cardinality(Above(x))
    BY <1>4
  <2> HIDE DEF Above
  <2> QED
    BY <1>1, <2>1, <2>2, <2>3
<1> QED
  BY <1>5 DEF Max

-----------------------------------------------------------------------------
(***************************************************************************)
(* Rank, and the chunks merge cuts the keys into.                          *)
(***************************************************************************)

\* Division by a positive number rounds down.
LEMMA DivNat ==
  ASSUME NEW n \in Nat, NEW d \in Nat \ {0}
  PROVE  /\ n \div d \in Nat
         /\ d * (n \div d) <= n
         /\ n < d * (n \div d) + d
OBVIOUS

\* Rank numbers the keys from 0 in their order, without gaps.
LEMMA RankBijection ==
  ASSUME NEW K \in SUBSET Nat, IsFiniteSet(K)
  PROVE  /\ Cardinality(K) \in Nat
         /\ Rank(K) \in [K -> 0 .. Cardinality(K) - 1]
         /\ \A j, k \in K : j < k => Rank(K)[j] < Rank(K)[k]
         /\ \A r \in 0 .. Cardinality(K) - 1 : \E k \in K : Rank(K)[k] = r
<1> DEFINE Below(k) == {j \in K : j < k}
<1>1. \A k \in K : IsFiniteSet(Below(k)) /\ Cardinality(Below(k)) \in Nat
  BY FS_Subset, FS_CardinalityType
<1>2. Cardinality(K) \in Nat
  BY FS_CardinalityType
<1>3. \A k \in K : Cardinality(Below(k)) < Cardinality(K)
  <2> SUFFICES ASSUME NEW k \in K
               PROVE  Cardinality(Below(k)) < Cardinality(K)
    OBVIOUS
  <2>1. Below(k) \in SUBSET K /\ Below(k) # K
    OBVIOUS
  <2>2. /\ Cardinality(Below(k)) <= Cardinality(K)
        /\ Cardinality(K) = Cardinality(Below(k)) => K = Below(k)
    <3> HIDE DEF Below
    <3> QED
      BY <2>1, FS_Subset
  <2> HIDE DEF Below
  <2> QED
    BY <1>1, <1>2, <2>1, <2>2
<1>4. \A j, k \in K : j < k => Cardinality(Below(j)) < Cardinality(Below(k))
  <2> SUFFICES ASSUME NEW j \in K, NEW k \in K, j < k
               PROVE  Cardinality(Below(j)) < Cardinality(Below(k))
    OBVIOUS
  <2>0. j \in Nat /\ k \in Nat /\ \A i \in K : i \in Nat
    OBVIOUS
  <2>1. Below(j) \in SUBSET Below(k) /\ j \in Below(k) /\ j \notin Below(j)
    <3>1. \A i \in K : i < j => i < k
      BY <2>0
    <3>2. ~ (j < j)
      BY <2>0
    <3> QED
      BY <3>1, <3>2
  <2>2. /\ Cardinality(Below(j)) <= Cardinality(Below(k))
        /\ Cardinality(Below(k)) = Cardinality(Below(j)) => Below(k) = Below(j)
    <3> HIDE DEF Below
    <3> QED
      BY <1>1, <2>1, FS_Subset
  <2> HIDE DEF Below
  <2> QED
    BY <1>1, <2>1, <2>2
<1>5. Rank(K) = [k \in K |-> Cardinality(Below(k))]
  BY DEF Rank
<1>6. Rank(K) \in [K -> 0 .. Cardinality(K) - 1]
  <2> HIDE DEF Below
  <2> QED
    BY <1>1, <1>2, <1>3, <1>5
<1>7. \A j, k \in K : j < k => Rank(K)[j] < Rank(K)[k]
  <2> HIDE DEF Below
  <2> QED
    BY <1>4, <1>5
<1>8. Rank(K) \in Surjection(K, 0 .. Cardinality(K) - 1)
  <2>1. \A j, k \in K : j # k => Rank(K)[j] # Rank(K)[k]
    <3> SUFFICES ASSUME NEW j \in K, NEW k \in K, j # k
                 PROVE  Rank(K)[j] # Rank(K)[k]
      OBVIOUS
    <3>1. j \in Nat /\ k \in Nat /\ (j < k \/ k < j)
      OBVIOUS
    <3>2. Rank(K)[j] \in Nat /\ Rank(K)[k] \in Nat
      BY <1>2, <1>6
    <3> QED
      BY <1>7, <3>1, <3>2
  <2>2. Rank(K) \in Injection(K, 0 .. Cardinality(K) - 1)
    BY <1>6, <2>1 DEF Injection, IsInjective
  <2>3. /\ IsFiniteSet(0 .. Cardinality(K) - 1)
        /\ Cardinality(0 .. Cardinality(K) - 1) = Cardinality(K)
    <3> DEFINE c == Cardinality(K)
    <3>1. c \in Nat /\ c - 1 \in Int /\ 0 \in Int
      BY <1>2
    <3> HIDE DEF c
    <3>2. /\ IsFiniteSet(0 .. (c - 1))
          /\ Cardinality(0 .. (c - 1)) = IF 0 > c - 1 THEN 0 ELSE (c - 1) - 0 + 1
      BY <3>1, FS_Interval
    <3>3. (IF 0 > c - 1 THEN 0 ELSE (c - 1) - 0 + 1) = c
      BY <3>1
    <3> QED
      BY <3>2, <3>3 DEF c
  <2> QED
    BY <2>2, <2>3, FS_Injection
<1> QED
  BY <1>2, <1>6, <1>7, <1>8 DEF Surjection

\* Multiplication is monotonic.
LEMMA MulMono ==
  ASSUME NEW d \in Nat, NEW m \in Nat, NEW n \in Nat, m <= n
  PROVE  d * m <= d * n /\ d * m \in Nat /\ d * n \in Nat
<1>1. d * (n - m) \in Nat
  OBVIOUS
<1>2. d * n = d * m + d * (n - m)
  OBVIOUS
<1> QED
  BY <1>1, <1>2

\* The two parts of a sequence.
LEMMA PrefixType ==
  ASSUME NEW S, NEW s \in Seq(S), NEW n \in 0 .. Len(s)
  PROVE  /\ SubSeq(s, 1, n) \in Seq(S)
         /\ Len(SubSeq(s, 1, n)) = n
         /\ \A i \in 1 .. n : SubSeq(s, 1, n)[i] = s[i]
<1>1. Len(s) \in Nat
  BY LenProperties
<1> DEFINE l == Len(s)
<1>2. l \in Nat /\ n \in 0 .. l
  BY <1>1
<1>3. \A i \in 1 .. l : s[i] \in S
  BY ElementOfSeq
<1> HIDE DEF l
<1>4. n \in Int /\ 1 \in Int /\ n \in Nat /\ \A i \in 1 .. n : s[i] \in S
  BY <1>2, <1>3
<1>5. /\ SubSeq(s, 1, n) \in Seq(S)
      /\ Len(SubSeq(s, 1, n)) = IF 1 <= n THEN n - 1 + 1 ELSE 0
      /\ \A i \in 1 .. n - 1 + 1 : SubSeq(s, 1, n)[i] = s[1 + i - 1]
  BY <1>4, SubSeqProperties
<1>6. (IF 1 <= n THEN n - 1 + 1 ELSE 0) = n /\ n - 1 + 1 = n
  BY <1>4
<1>7. \A i \in 1 .. n : 1 + i - 1 = i
  BY <1>4
<1> QED
  BY <1>5, <1>6, <1>7, Zenon

LEMMA SuffixType ==
  ASSUME NEW S, NEW s \in Seq(S), NEW n \in 0 .. Len(s)
  PROVE  /\ SubSeq(s, n + 1, Len(s)) \in Seq(S)
         /\ Len(SubSeq(s, n + 1, Len(s))) = Len(s) - n
<1> DEFINE l == Len(s)
<1>1. l \in Nat
  BY LenProperties
<1>2. n \in 0 .. l /\ \A i \in 1 .. l : s[i] \in S
  BY ElementOfSeq
<1> HIDE DEF l
<1>3. n + 1 \in Int /\ l \in Int /\ \A i \in n + 1 .. l : s[i] \in S
  BY <1>1, <1>2
<1> DEFINE rest == SubSeq(s, n + 1, l)
<1>4. /\ rest \in Seq(S)
      /\ Len(rest) = IF n + 1 <= l THEN l - (n + 1) + 1 ELSE 0
  BY <1>3, SubSeqProperties
<1> HIDE DEF rest
<1>5. Len(rest) = l - n
  BY <1>1, <1>2, <1>4
<1>6. SubSeq(s, n + 1, l) \in Seq(S) /\ Len(SubSeq(s, n + 1, l)) = l - n
  BY <1>4, <1>5 DEF rest
<1> QED
  BY <1>6 DEF l

\* An interval from 1 has as many elements as its end says.
LEMMA InitialInterval ==
  ASSUME NEW n \in Nat
  PROVE  IsFiniteSet(1 .. n) /\ Cardinality(1 .. n) = n
<1>1. 1 \in Int /\ n \in Int
  OBVIOUS
<1>2. IsFiniteSet(1 .. n) /\ Cardinality(1 .. n) = IF 1 > n THEN 0 ELSE n - 1 + 1
  BY <1>1, FS_Interval
<1> QED
  BY <1>2

\* A number of keys that fills at most n blocks.
LEMMA BlocksNeeded ==
  ASSUME NEW c \in Nat, NEW n \in Nat, c <= BlockSize * n
  PROVE  (c + BlockSize - 1) \div BlockSize <= n
<1> DEFINE q == (c + BlockSize - 1) \div BlockSize
<1>1. BlockSize \in Nat \ {0} /\ c + BlockSize - 1 \in Nat
  BY BlockSizeAssumption
<1>2. q \in Nat /\ BlockSize * q <= c + BlockSize - 1
  BY <1>1, DivNat
<1> HIDE DEF q
<1> SUFFICES ASSUME n + 1 <= q
             PROVE  FALSE
  BY <1>2 DEF q
<1>3. BlockSize * (n + 1) <= BlockSize * q
  BY <1>1, <1>2, MulMono
<1>4. BlockSize * (n + 1) = BlockSize * n + BlockSize
  BY <1>1
<1>5. BlockSize * n \in Nat /\ BlockSize * q \in Nat
  BY <1>1, <1>2, MulMono
<1> QED
  BY <1>1, <1>2, <1>3, <1>4, <1>5

-----------------------------------------------------------------------------
(***************************************************************************)
(* Blocks.                                                                 *)
(***************************************************************************)

\* The blocks CapsuleDB writes: not empty, and no larger than a full memtable.
GoodBlocks ==
  {b \in Block(Keys) : /\ DOMAIN b.kvPairs # {}
                       /\ Cardinality(DOMAIN b.kvPairs) <= BlockSize}

\* A map over the keys has finitely many of them.
LEMMA PairMapDomain ==
  ASSUME NEW pairs \in PairMap(Keys)
  PROVE  /\ DOMAIN pairs \in SUBSET Keys
         /\ DOMAIN pairs \in SUBSET Nat
         /\ IsFiniteSet(DOMAIN pairs)
         /\ Cardinality(DOMAIN pairs) \in Nat
         /\ pairs \in [DOMAIN pairs -> Version]
<1>1. DOMAIN pairs \in SUBSET Keys /\ pairs \in [DOMAIN pairs -> Version]
  BY DEF PairMap
<1>2. IsFiniteSet(DOMAIN pairs)
  BY <1>1, KeysAssumption, FS_Subset
<1>3. DOMAIN pairs \in SUBSET Nat
  BY <1>1, KeysAssumption
<1> QED
  BY <1>1, <1>2, <1>3, FS_CardinalityType

\* addKVPair gives a block that is not empty its two bounds.
LEMMA MergedBlockType ==
  ASSUME NEW pairs \in PairMap(Keys), DOMAIN pairs # {},
         Cardinality(DOMAIN pairs) <= BlockSize
  PROVE  MergedBlock(pairs) \in GoodBlocks
<1> DEFINE ks == DOMAIN pairs
<1>1. ks \in SUBSET Nat /\ IsFiniteSet(ks) /\ ks # {}
  BY PairMapDomain
<1>2. Max(ks) \in Nat
  <2> HIDE DEF ks
  <2> QED
    BY <1>1, MaxNat
<1>3. StartKey(ks) \in Nat
  <2> HIDE DEF ks
  <2>1. CASE ks \subseteq {EmptyKey}
    BY <2>1 DEF StartKey, EmptyKey
  <2>2. CASE ~ (ks \subseteq {EmptyKey})
    <3>1. ks \ {EmptyKey} \in SUBSET Nat /\ ks \ {EmptyKey} # {}
      BY <1>1, <2>2
    <3>2. Min(ks \ {EmptyKey}) \in ks \ {EmptyKey}
      BY <3>1, MinNat
    <3> QED
      BY <1>1, <2>2, <3>2 DEF StartKey
  <2> QED
    BY <2>1, <2>2
<1> QED
  BY <1>2, <1>3 DEF MergedBlock, GoodBlocks, Block

\* So does setMinKey and setMaxKey.
LEMMA MemtableBlockType ==
  ASSUME NEW pairs \in PairMap(Keys), DOMAIN pairs # {},
         Cardinality(DOMAIN pairs) <= BlockSize
  PROVE  MemtableBlock(pairs) \in GoodBlocks
<1> DEFINE ks == DOMAIN pairs
<1>1. ks \in SUBSET Nat /\ IsFiniteSet(ks) /\ ks # {}
  BY PairMapDomain
<1>2. Max(ks) \in Nat /\ Min(ks) \in Nat
  <2> HIDE DEF ks
  <2>1. Max(ks) \in ks /\ Min(ks) \in ks
    BY <1>1, MaxNat, MinNat
  <2> QED
    BY <1>1, <2>1
<1> QED
  BY <1>2 DEF MemtableBlock, GoodBlocks, Block

-----------------------------------------------------------------------------
(***************************************************************************)
(* merge.                                                                  *)
(***************************************************************************)

\* The keys of a list of blocks are keys, and no more than the blocks hold.
LEMMA KeysOfCount ==
  ASSUME NEW a \in Seq(GoodBlocks)
  PROVE  /\ KeysOf(a) \in SUBSET Keys
         /\ IsFiniteSet(KeysOf(a))
         /\ Cardinality(KeysOf(a)) \in Nat
         /\ Cardinality(KeysOf(a)) <= BlockSize * Len(a)
         /\ Len(a) >= 1 => KeysOf(a) # {}
<1> DEFINE Dom(i) == DOMAIN a[i].kvPairs
<1>0. Len(a) \in Nat /\ DOMAIN a = 1 .. Len(a)
  BY LenProperties
<1>1. ASSUME NEW i \in 1 .. Len(a)
      PROVE  /\ a[i].kvPairs \in PairMap(Keys)
             /\ Dom(i) # {}
             /\ Cardinality(Dom(i)) <= BlockSize
  <2>1. a[i] \in GoodBlocks
    BY <1>0, ElementOfSeq
  <2> QED
    BY <2>1 DEF GoodBlocks, Block
<1>2. ASSUME NEW i \in 1 .. Len(a)
      PROVE  /\ Dom(i) \in SUBSET Keys /\ Dom(i) \in SUBSET Nat
             /\ IsFiniteSet(Dom(i)) /\ Cardinality(Dom(i)) \in Nat
  BY <1>1, PairMapDomain
<1>3. KeysOf(a) = UNION {Dom(i) : i \in 1 .. Len(a)}
  BY <1>0 DEF KeysOf
<1>4. KeysOf(a) \in SUBSET Keys
  BY <1>2, <1>3
<1>5. IsFiniteSet(KeysOf(a))
  BY <1>4, KeysAssumption, FS_Subset
<1> DEFINE Block_(k) == CHOOSE i \in 1 .. Len(a) : k \in Dom(i)
           Slot(k) == Rank(Dom(Block_(k)))[k]
           Slots == (1 .. Len(a)) \X (0 .. BlockSize - 1)
           place == [k \in KeysOf(a) |-> <<Block_(k), Slot(k)>>]
<1>6. ASSUME NEW k \in KeysOf(a)
      PROVE  Block_(k) \in 1 .. Len(a) /\ k \in Dom(Block_(k))
  <2>1. \E i \in 1 .. Len(a) : k \in Dom(i)
    BY <1>3
  <2> HIDE DEF Dom
  <2> QED
    BY <2>1
<1> HIDE DEF Block_, Dom
<1>7. ASSUME NEW k \in KeysOf(a)
      PROVE  Slot(k) \in 0 .. BlockSize - 1
  <2>1. Block_(k) \in 1 .. Len(a) /\ k \in Dom(Block_(k))
    BY <1>6
  <2> DEFINE D == Dom(Block_(k))
  <2>2. /\ D \in SUBSET Nat /\ IsFiniteSet(D) /\ Cardinality(D) \in Nat
        /\ Cardinality(D) <= BlockSize /\ k \in D
    BY <1>1, <1>2, <2>1 DEF Dom
  <2>3. Rank(D)[k] \in 0 .. Cardinality(D) - 1
    <3> HIDE DEF D
    <3> QED
      BY <2>2, RankBijection
  <2> QED
    BY <2>2, <2>3, BlockSizeAssumption
<1>8. \A j, k \in KeysOf(a) : place[j] = place[k] => j = k
  <2> SUFFICES ASSUME NEW j \in KeysOf(a), NEW k \in KeysOf(a), j # k,
                      Block_(j) = Block_(k), Slot(j) = Slot(k)
               PROVE  FALSE
    OBVIOUS
  <2> DEFINE D == Dom(Block_(k))
  <2>1. Block_(k) \in 1 .. Len(a) /\ k \in D /\ j \in D
    BY <1>6
  <2>2. D \in SUBSET Nat /\ IsFiniteSet(D)
    BY <1>2, <2>1
  <2>3. Rank(D)[j] = Rank(D)[k]
    OBVIOUS
  <2> HIDE DEF D
  <2>4. /\ j < k => Rank(D)[j] < Rank(D)[k]
        /\ k < j => Rank(D)[k] < Rank(D)[j]
        /\ Rank(D)[j] \in 0 .. Cardinality(D) - 1
        /\ Cardinality(D) \in Nat
    BY <2>1, <2>2, RankBijection
  <2>5. j \in Nat /\ k \in Nat /\ (j < k \/ k < j)
    BY <2>1, <2>2
  <2> QED
    BY <2>3, <2>4, <2>5
<1>9. place \in Injection(KeysOf(a), Slots)
  <2>1. place \in [KeysOf(a) -> Slots]
    <3> HIDE DEF Slot
    <3> QED
      BY <1>6, <1>7
  <2> HIDE DEF place, Slots
  <2> QED
    BY <1>8, <2>1 DEF Injection, IsInjective
<1>10. /\ IsFiniteSet(Slots)
       /\ Cardinality(Slots) = Len(a) * BlockSize
  <2>1. IsFiniteSet(1 .. Len(a)) /\ Cardinality(1 .. Len(a)) = Len(a)
    BY <1>0, InitialInterval
  <2>2. IsFiniteSet(0 .. BlockSize - 1) /\ Cardinality(0 .. BlockSize - 1) = BlockSize
    <3>1. 0 \in Int /\ BlockSize - 1 \in Int /\ ~ (0 > BlockSize - 1)
      BY BlockSizeAssumption
    <3>2. (BlockSize - 1) - 0 + 1 = BlockSize
      BY BlockSizeAssumption
    <3> QED
      BY <3>1, <3>2, FS_Interval
  <2> QED
    BY <2>1, <2>2, FS_Product
<1>11. Cardinality(KeysOf(a)) <= Len(a) * BlockSize
  <2> HIDE DEF place, Slots
  <2> QED
    BY <1>9, <1>10, FS_Injection
<1>12. Len(a) >= 1 => KeysOf(a) # {}
  BY <1>0, <1>1, <1>3 DEF Dom
<1> QED
  BY <1>0, <1>4, <1>5, <1>11, <1>12, BlockSizeAssumption, FS_CardinalityType

\* The version of a key in a list of blocks.
LEMMA VersionInType ==
  ASSUME NEW a \in Seq(GoodBlocks), NEW key \in KeysOf(a)
  PROVE  VersionIn(a, key) \in Version
<1> DEFINE i == CHOOSE j \in DOMAIN a : key \in DOMAIN a[j].kvPairs
<1>1. \E j \in DOMAIN a : key \in DOMAIN a[j].kvPairs
  BY DEF KeysOf
<1>2. i \in DOMAIN a /\ key \in DOMAIN a[i].kvPairs
  BY <1>1
<1> HIDE DEF i
<1>3. a[i] \in GoodBlocks
  BY <1>2, LenProperties, ElementOfSeq
<1>4. a[i].kvPairs \in PairMap(Keys)
  BY <1>3 DEF GoodBlocks, Block
<1>5. a[i].kvPairs[key] \in Version
  BY <1>2, <1>4, PairMapDomain
<1> QED
  BY <1>5 DEF VersionIn, i

LEMMA SurvivorType ==
  ASSUME NEW a \in Seq(GoodBlocks), NEW b \in Seq(GoodBlocks),
         NEW key \in KeysOf(a) \cup KeysOf(b)
  PROVE  Survivor(a, b, key) \in Version
<1>1. CASE key \in KeysOf(a)
  BY <1>1, VersionInType DEF Survivor
<1>2. CASE key \notin KeysOf(a)
  BY <1>2, VersionInType DEF Survivor
<1> QED
  BY <1>1, <1>2

\* The chunks merge cuts a set of keys into.
Chunk(K, i) == {k \in K : Rank(K)[k] \div BlockSize = i - 1}

\* No chunk is empty, and none has more than BlockSize keys.
LEMMA ChunkSize ==
  ASSUME NEW K \in SUBSET Nat, IsFiniteSet(K),
         NEW i \in 1 .. ((Cardinality(K) + BlockSize - 1) \div BlockSize)
  PROVE  /\ Chunk(K, i) # {}
         /\ IsFiniteSet(Chunk(K, i))
         /\ Cardinality(Chunk(K, i)) <= BlockSize
<1> DEFINE c == Cardinality(K)
           first == BlockSize * (i - 1)
           q == (c + BlockSize - 1) \div BlockSize
<1>1. BlockSize \in Nat \ {0} /\ c \in Nat /\ c + BlockSize - 1 \in Nat
  BY BlockSizeAssumption, FS_CardinalityType
<1>2. q \in Nat /\ BlockSize * q <= c + BlockSize - 1
  <2> HIDE DEF c
  <2> QED
    BY <1>1, DivNat
<1>3. i \in Nat /\ 1 <= i /\ i <= q
  BY <1>2
<1> HIDE DEF q
<1>4. first \in Nat /\ first < c
  <2>1. BlockSize * i <= BlockSize * q /\ BlockSize * i \in Nat /\ BlockSize * q \in Nat
    BY <1>1, <1>2, <1>3, MulMono
  <2>2. BlockSize * i = first + BlockSize
    BY <1>1, <1>3
  <2>3. first \in Nat
    BY <1>1, <1>3, MulMono
  <2> HIDE DEF first, c
  <2> QED
    BY <1>1, <1>2, <2>1, <2>2, <2>3
<1>5. /\ Rank(K) \in [K -> 0 .. c - 1]
      /\ \A j, k \in K : j < k => Rank(K)[j] < Rank(K)[k]
      /\ \A r \in 0 .. c - 1 : \E k \in K : Rank(K)[k] = r
  BY RankBijection
<1> HIDE DEF c
<1>6. Chunk(K, i) # {}
  <2>1. PICK k \in K : Rank(K)[k] = first
    <3> HIDE DEF first
    <3>1. first \in 0 .. c - 1
      BY <1>1, <1>4
    <3> QED
      BY <1>5, <3>1
  <2>2. first \div BlockSize = i - 1
    BY <1>1, <1>3
  <2> QED
    BY <2>1, <2>2 DEF Chunk
<1>7. IsFiniteSet(Chunk(K, i))
  BY FS_Subset DEF Chunk
<1> DEFINE T == first .. first + BlockSize - 1
           f == [k \in Chunk(K, i) |-> Rank(K)[k]]
<1>8. f \in Injection(Chunk(K, i), T)
  <2>1. ASSUME NEW k \in Chunk(K, i)
        PROVE  Rank(K)[k] \in T
    <3>1. Rank(K)[k] \in Nat /\ Rank(K)[k] \div BlockSize = i - 1
      BY <1>1, <1>5 DEF Chunk
    <3> DEFINE r == Rank(K)[k]
    <3> HIDE DEF r
    <3>2. r \in Nat /\ r \div BlockSize = i - 1
      BY <3>1 DEF r
    <3>3. BlockSize * (r \div BlockSize) <= r /\ r < BlockSize * (r \div BlockSize) + BlockSize
      BY <1>1, <3>2, DivNat
    <3>4. first <= r /\ r < first + BlockSize
      BY <3>2, <3>3
    <3> HIDE DEF first
    <3>5. r \in first .. first + BlockSize - 1
      BY <1>1, <1>4, <3>2, <3>4
    <3> QED
      BY <3>5 DEF r
  <2>2. f \in [Chunk(K, i) -> T]
    <3> HIDE DEF T
    <3> QED
      BY <2>1
  <2>3. \A j, k \in Chunk(K, i) : f[j] = f[k] => j = k
    <3> SUFFICES ASSUME NEW j \in Chunk(K, i), NEW k \in Chunk(K, i), j # k,
                        Rank(K)[j] = Rank(K)[k]
                 PROVE  FALSE
      OBVIOUS
    <3>1. j \in K /\ k \in K
      BY DEF Chunk
    <3>2. j \in Nat /\ k \in Nat /\ (j < k \/ k < j)
      BY <3>1
    <3>3. Rank(K)[j] \in Nat
      BY <1>1, <1>5, <3>1
    <3> QED
      BY <1>5, <3>1, <3>2, <3>3
  <2> HIDE DEF f, T
  <2> QED
    BY <2>2, <2>3 DEF Injection, IsInjective
<1>9. IsFiniteSet(T) /\ Cardinality(T) = BlockSize
  <2> HIDE DEF first
  <2> DEFINE last == first + BlockSize - 1
  <2>1. first \in Int /\ last \in Int /\ ~ (first > last) /\ last - first + 1 = BlockSize
    BY <1>1, <1>4
  <2> HIDE DEF last
  <2>2. IsFiniteSet(first .. last) /\ Cardinality(first .. last) = last - first + 1
    BY <2>1, FS_Interval
  <2> QED
    BY <2>1, <2>2 DEF last
<1>10. Cardinality(Chunk(K, i)) <= BlockSize
  <2> HIDE DEF f, T
  <2> QED
    BY <1>7, <1>8, <1>9, FS_Injection
<1> QED
  BY <1>6, <1>7, <1>10

\* merge writes well-formed blocks only, and no more than it was given.
THEOREM MergeType ==
  ASSUME NEW a \in Seq(GoodBlocks), NEW b \in Seq(GoodBlocks)
  PROVE  /\ merge(a, b) \in Seq(GoodBlocks)
         /\ Len(merge(a, b)) \in Nat
         /\ Len(merge(a, b)) <= Len(a) + Len(b)
         /\ Len(a) >= 1 => Len(merge(a, b)) >= 1
<1> DEFINE K == KeysOf(a) \cup KeysOf(b)
           c == Cardinality(K)
           n == (c + BlockSize - 1) \div BlockSize
           pairs(i) == [key \in Chunk(K, i) |-> Survivor(a, b, key)]
<1>1. /\ K \in SUBSET Keys /\ K \in SUBSET Nat /\ IsFiniteSet(K) /\ c \in Nat
      /\ c <= BlockSize * (Len(a) + Len(b))
      /\ Len(a) >= 1 => K # {}
      /\ Len(a) \in Nat /\ Len(b) \in Nat
  <2>1. /\ KeysOf(a) \in SUBSET Keys /\ IsFiniteSet(KeysOf(a))
        /\ Cardinality(KeysOf(a)) \in Nat
        /\ Cardinality(KeysOf(a)) <= BlockSize * Len(a)
        /\ Len(a) >= 1 => KeysOf(a) # {}
    BY KeysOfCount
  <2>2. /\ KeysOf(b) \in SUBSET Keys /\ IsFiniteSet(KeysOf(b))
        /\ Cardinality(KeysOf(b)) \in Nat
        /\ Cardinality(KeysOf(b)) <= BlockSize * Len(b)
    BY KeysOfCount
  <2>3. Len(a) \in Nat /\ Len(b) \in Nat
    BY LenProperties
  <2>4. /\ IsFiniteSet(K)
        /\ c = Cardinality(KeysOf(a)) + Cardinality(KeysOf(b))
                 - Cardinality(KeysOf(a) \cap KeysOf(b))
    BY <2>1, <2>2, FS_Union
  <2>5. Cardinality(KeysOf(a) \cap KeysOf(b)) \in Nat
    BY <2>1, FS_Subset, FS_CardinalityType
  <2>6. BlockSize * (Len(a) + Len(b)) = BlockSize * Len(a) + BlockSize * Len(b)
    BY <2>3, BlockSizeAssumption
  <2>7. K \in SUBSET Keys /\ K \in SUBSET Nat /\ (Len(a) >= 1 => K # {})
    BY <2>1, <2>2, KeysAssumption
  <2>8. c \in Nat
    BY <2>4, FS_CardinalityType
  <2>9. BlockSize * Len(a) \in Nat /\ BlockSize * Len(b) \in Nat
    BY <2>3, BlockSizeAssumption, MulMono
  <2> HIDE DEF K, c
  <2> QED
    BY <2>1, <2>2, <2>3, <2>4, <2>5, <2>6, <2>7, <2>8, <2>9
<1>2. merge(a, b) = [i \in 1 .. n |-> MergedBlock(pairs(i))]
  BY DEF merge, Chunk
<1>3. n \in Nat /\ n <= Len(a) + Len(b)
  <2> HIDE DEF K
  <2>1. c + BlockSize - 1 \in Nat /\ BlockSize \in Nat \ {0} /\ Len(a) + Len(b) \in Nat
    BY <1>1, BlockSizeAssumption
  <2> HIDE DEF c
  <2> QED
    BY <1>1, <2>1, DivNat, BlocksNeeded
<1>4. ASSUME NEW i \in 1 .. n
      PROVE  MergedBlock(pairs(i)) \in GoodBlocks
  <2>1. /\ Chunk(K, i) # {}
        /\ Cardinality(Chunk(K, i)) <= BlockSize
    <3> HIDE DEF K
    <3> QED
      BY <1>1, ChunkSize
  <2>2. Chunk(K, i) \in SUBSET K /\ Chunk(K, i) \in SUBSET Keys
    BY <1>1 DEF Chunk
  <2>3. \A key \in Chunk(K, i) : Survivor(a, b, key) \in Version
    BY <2>2, SurvivorType
  <2> HIDE DEF K
  <2>4. pairs(i) \in PairMap(Keys)
    BY <2>2, <2>3 DEF PairMap
  <2>5. DOMAIN pairs(i) = Chunk(K, i)
    OBVIOUS
  <2> HIDE DEF pairs
  <2> QED
    BY <2>1, <2>4, <2>5, MergedBlockType
<1>5. Len(a) >= 1 => n >= 1
  <2> HIDE DEF K
  <2> SUFFICES ASSUME K # {}
               PROVE  n >= 1
    BY <1>1
  <2>1. c # 0
    BY <1>1, FS_EmptySet
  <2> HIDE DEF c
  <2>2. n < 1 => n = 0
    BY <1>3
  <2>3. c + BlockSize - 1 < BlockSize * n + BlockSize
    <3>1. c + BlockSize - 1 \in Nat /\ BlockSize \in Nat \ {0}
      BY <1>1, BlockSizeAssumption
    <3> QED
      BY <3>1, DivNat
  <2> HIDE DEF n
  <2>4. n = 0 => BlockSize * n = 0
    BY BlockSizeAssumption
  <2> QED
    BY <1>1, <1>3, <2>1, <2>2, <2>3, <2>4, BlockSizeAssumption
<1> HIDE DEF n, pairs
<1>6. merge(a, b) \in Seq(GoodBlocks) /\ Len(merge(a, b)) = n
  BY <1>2, <1>3, <1>4
<1> QED
  BY <1>3, <1>5, <1>6

\* The pairs of a merged block are those of one chunk.
LEMMA MergedChunk ==
  ASSUME NEW a \in Seq(GoodBlocks), NEW b \in Seq(GoodBlocks)
  PROVE  LET K == KeysOf(a) \cup KeysOf(b)
         IN  /\ K \in SUBSET Nat /\ IsFiniteSet(K) /\ Cardinality(K) \in Nat
             /\ Len(merge(a, b)) = (Cardinality(K) + BlockSize - 1) \div BlockSize
             /\ Len(merge(a, b)) \in Nat
             /\ DOMAIN merge(a, b) = 1 .. Len(merge(a, b))
             /\ \A i \in DOMAIN merge(a, b) :
                  /\ merge(a, b)[i]
                       = MergedBlock([key \in Chunk(K, i) |-> Survivor(a, b, key)])
                  /\ merge(a, b)[i].kvPairs
                       = [key \in Chunk(K, i) |-> Survivor(a, b, key)]
<1> DEFINE K == KeysOf(a) \cup KeysOf(b)
           n == (Cardinality(K) + BlockSize - 1) \div BlockSize
           pairs(i) == [key \in Chunk(K, i) |-> Survivor(a, b, key)]
<1>1. K \in SUBSET Keys /\ IsFiniteSet(K)
  BY KeysOfCount, FS_Union
<1>2. K \in SUBSET Nat /\ Cardinality(K) \in Nat
  <2> HIDE DEF K
  <2> QED
    BY <1>1, KeysAssumption, FS_CardinalityType
<1>3. merge(a, b) = [i \in 1 .. n |-> MergedBlock(pairs(i))]
  BY DEF merge, Chunk
<1>4. n \in Nat
  <2> HIDE DEF K
  <2>1. Cardinality(K) + BlockSize - 1 \in Nat /\ BlockSize \in Nat \ {0}
    BY <1>2, BlockSizeAssumption
  <2> QED
    BY <2>1, DivNat
<1>5. \A i \in 1 .. n : MergedBlock(pairs(i)).kvPairs = pairs(i)
  BY DEF MergedBlock
<1> HIDE DEF n, pairs
<1>6. /\ Len(merge(a, b)) = n /\ DOMAIN merge(a, b) = 1 .. n
      /\ \A i \in 1 .. n : merge(a, b)[i] = MergedBlock(pairs(i))
  <2>1. merge(a, b) \in Seq(GoodBlocks)
    BY MergeType
  <2>2. DOMAIN merge(a, b) = 1 .. Len(merge(a, b)) /\ Len(merge(a, b)) \in Nat
    BY <2>1, LenProperties
  <2>3. DOMAIN merge(a, b) = 1 .. n
    BY <1>3
  <2> QED
    BY <1>3, <1>4, <2>2, <2>3
<1> QED
  BY <1>1, <1>2, <1>4, <1>5, <1>6 DEF n, pairs

\* Division by a positive number is monotonic.
LEMMA DivMono ==
  ASSUME NEW m \in Nat, NEW n \in Nat, NEW d \in Nat \ {0}, m <= n
  PROVE  m \div d <= n \div d
<1> DEFINE p == m \div d
           q == n \div d
<1>1. /\ p \in Nat /\ q \in Nat /\ d * p <= m /\ n < d * q + d
  BY DivNat
<1> HIDE DEF p, q
<1>2. SUFFICES ASSUME q + 1 <= p
               PROVE  FALSE
  BY <1>1 DEF p, q
<1>3. d * (q + 1) <= d * p /\ d * (q + 1) \in Nat /\ d * p \in Nat /\ d * q \in Nat
  BY <1>1, <1>2, MulMono
<1>4. d * (q + 1) = d * q + d
  BY <1>1
<1> QED
  BY <1>1, <1>3, <1>4

\* merge writes its blocks in the order of their keys, and no key twice.
LEMMA MergeInKeyOrder ==
  ASSUME NEW a \in Seq(GoodBlocks), NEW b \in Seq(GoodBlocks)
  PROVE  InKeyOrder(merge(a, b))
<1> DEFINE K == KeysOf(a) \cup KeysOf(b)
<1>0. /\ K \in SUBSET Nat /\ IsFiniteSet(K) /\ Cardinality(K) \in Nat
      /\ DOMAIN merge(a, b) = 1 .. Len(merge(a, b)) /\ Len(merge(a, b)) \in Nat
      /\ \A i \in DOMAIN merge(a, b) :
           merge(a, b)[i].kvPairs = [key \in Chunk(K, i) |-> Survivor(a, b, key)]
  BY MergedChunk
<1> HIDE DEF K
<1>1. \A i \in DOMAIN merge(a, b) : DOMAIN merge(a, b)[i].kvPairs = Chunk(K, i)
  BY <1>0
<1>2. SUFFICES ASSUME NEW x \in DOMAIN merge(a, b), NEW y \in DOMAIN merge(a, b), x < y,
                      NEW j \in Chunk(K, x), NEW k \in Chunk(K, y)
               PROVE  j < k
  BY <1>1 DEF InKeyOrder
<1>3. /\ j \in K /\ k \in K /\ j \in Nat /\ k \in Nat
      /\ Rank(K)[j] \div BlockSize = x - 1 /\ Rank(K)[k] \div BlockSize = y - 1
  BY <1>0 DEF Chunk
<1>4. /\ Rank(K)[j] \in Nat /\ Rank(K)[k] \in Nat
      /\ k < j => Rank(K)[k] < Rank(K)[j]
  BY <1>0, <1>3, RankBijection
<1>5. SUFFICES ASSUME k <= j
               PROVE  FALSE
  BY <1>3
<1>6. Rank(K)[k] <= Rank(K)[j]
  BY <1>3, <1>4, <1>5
<1>7. Rank(K)[k] \div BlockSize <= Rank(K)[j] \div BlockSize
  BY <1>4, <1>6, DivMono, BlockSizeAssumption
<1> QED
  BY <1>0, <1>2, <1>3, <1>7

\* The pairs of a well-formed block.
LEMMA BlockFacts ==
  ASSUME NEW blocks \in Seq(GoodBlocks), NEW i \in DOMAIN blocks
  PROVE  /\ blocks[i] \in GoodBlocks
         /\ DOMAIN blocks[i].kvPairs # {}
         /\ DOMAIN blocks[i].kvPairs \in SUBSET Keys
         /\ DOMAIN blocks[i].kvPairs \in SUBSET Nat
         /\ \A key \in DOMAIN blocks[i].kvPairs :
              /\ blocks[i].kvPairs[key] \in Version
              /\ blocks[i].kvPairs[key].txn_timestamp \in Int
<1>1. blocks[i] \in GoodBlocks
  BY LenProperties, ElementOfSeq
<1>2. blocks[i].kvPairs \in PairMap(Keys) /\ DOMAIN blocks[i].kvPairs # {}
  BY <1>1 DEF GoodBlocks, Block
<1>3. \A key \in DOMAIN blocks[i].kvPairs : blocks[i].kvPairs[key] \in Version
  BY <1>2, PairMapDomain
<1>4. \A version \in Version : version.txn_timestamp \in Int
  BY TimestampsAssumption DEF Version
<1> QED
  BY <1>1, <1>2, <1>3, <1>4, PairMapDomain

\* In a sorted list a key is in one block, so that VersionIn is its version.
LEMMA VersionInOrder ==
  ASSUME NEW blocks \in Seq(GoodBlocks), InKeyOrder(blocks),
         NEW i \in DOMAIN blocks, NEW key \in DOMAIN blocks[i].kvPairs
  PROVE  VersionIn(blocks, key) = blocks[i].kvPairs[key] /\ key \in KeysOf(blocks)
<1> DEFINE j == CHOOSE h \in DOMAIN blocks : key \in DOMAIN blocks[h].kvPairs
<1>1. j \in DOMAIN blocks /\ key \in DOMAIN blocks[j].kvPairs
  OBVIOUS
<1>2. VersionIn(blocks, key) = blocks[j].kvPairs[key]
  BY DEF VersionIn
<1> HIDE DEF j
<1>3. i \in Nat /\ j \in Nat /\ key \in Nat
  BY <1>1, LenProperties, BlockFacts
<1>4. j = i
  BY <1>1, <1>3 DEF InKeyOrder
<1> QED
  BY <1>2, <1>4 DEF KeysOf

\* Every key of the arguments is in some chunk.
LEMMA ChunkOfKey ==
  ASSUME NEW K \in SUBSET Nat, IsFiniteSet(K), NEW key \in K
  PROVE  \E i \in 1 .. ((Cardinality(K) + BlockSize - 1) \div BlockSize) : key \in Chunk(K, i)
<1> DEFINE c == Cardinality(K)
           n == (c + BlockSize - 1) \div BlockSize
           r == Rank(K)[key]
           q == r \div BlockSize
<1>1. BlockSize \in Nat \ {0}
  BY BlockSizeAssumption
<1>2. c \in Nat /\ r \in 0 .. c - 1
  BY RankBijection
<1>3. c + BlockSize - 1 \in Nat /\ r \in Nat /\ r + 1 <= c
  <2> HIDE DEF c, r
  <2> QED
    BY <1>1, <1>2
<1>4. /\ n \in Nat /\ c + BlockSize - 1 < BlockSize * n + BlockSize
      /\ q \in Nat /\ BlockSize * q <= r
  <2> HIDE DEF c, r
  <2> QED
    BY <1>1, <1>3, DivNat
<1>5. q + 1 <= n
  <2> HIDE DEF c, r, n, q
  <2>1. SUFFICES ASSUME n <= q
                 PROVE  FALSE
    BY <1>4
  <2>2. BlockSize * n <= BlockSize * q /\ BlockSize * n \in Nat /\ BlockSize * q \in Nat
    BY <1>1, <1>4, <2>1, MulMono
  <2> QED
    BY <1>1, <1>2, <1>3, <1>4, <2>2
<1>6. q + 1 \in 1 .. n /\ r \div BlockSize = (q + 1) - 1
  <2> HIDE DEF r, n
  <2>1. q = r \div BlockSize
    OBVIOUS
  <2> HIDE DEF q
  <2> QED
    BY <1>4, <1>5, <2>1
<1> HIDE DEF q
<1>7. key \in Chunk(K, q + 1)
  BY <1>6 DEF Chunk
<1> QED
  BY <1>6, <1>7

-----------------------------------------------------------------------------
(***************************************************************************)
(* Levels, and the block selection of compactHelper.                       *)
(***************************************************************************)

\* The levels CapsuleDB builds: their blocks are well-formed.
GoodLevels == {level \in Level(Keys) : level.recordHashes \in Seq(GoodBlocks)}

LEMMA PairMinMax ==
  ASSUME NEW m \in Nat, NEW n \in Nat
  PROVE  /\ Min({m, n}) \in Nat
         /\ Max({m, n}) \in {m, n} /\ Max({m, n}) >= m /\ Max({m, n}) >= n
<1>1. {m, n} \in SUBSET Nat /\ {m, n} # {}
  OBVIOUS
<1>2. IsFiniteSet({m} \cup {n})
  BY FS_Singleton, FS_AddElement
<1>3. {m} \cup {n} = {m, n}
  OBVIOUS
<1> DEFINE P == {m, n}
<1>4. P \in SUBSET Nat /\ P # {} /\ IsFiniteSet(P) /\ m \in P /\ n \in P
  BY <1>1, <1>2, <1>3
<1>5. Min(P) \in P /\ Max(P) \in P /\ Max(P) >= m /\ Max(P) >= n
  <2> HIDE DEF P
  <2> QED
    BY <1>4, MinNat, MaxNat
<1> QED
  BY <1>5

LEMMA GoodBlocksAreBlocks ==
  /\ Seq(GoodBlocks) \subseteq Seq(Block(Keys))
  /\ \A b \in GoodBlocks : b.minKey \in Nat /\ b.maxKey \in Nat
<1>1. GoodBlocks \subseteq Block(Keys)
  BY DEF GoodBlocks
<1>2. Seq(GoodBlocks) \subseteq Seq(Block(Keys))
  BY <1>1, SeqMonotonic
<1> QED
  BY <1>1, <1>2 DEF Block

LEMMA NewLevelType ==
  ASSUME NEW n \in Nat
  PROVE  NewLevel(n) \in GoodLevels
<1>1. << >> \in Seq(GoodBlocks) /\ << >> \in Seq(Block(Keys))
  OBVIOUS
<1> QED
  BY <1>1 DEF NewLevel, GoodLevels, Level, EmptyKey

LEMMA addBlockType ==
  ASSUME NEW level \in GoodLevels, NEW block \in GoodBlocks
  PROVE  /\ addBlock(level, block) \in GoodLevels
         /\ addBlock(level, block).recordHashes = Append(level.recordHashes, block)
         /\ addBlock(level, block).numBlocks = level.numBlocks + 1
         /\ addBlock(level, block).maxSize = level.maxSize
<1>1. /\ level \in Level(Keys) /\ level.recordHashes \in Seq(GoodBlocks)
      /\ level.min_key \in Nat /\ level.max_key \in Nat /\ level.numBlocks \in Nat
      /\ level.maxSize \in Nat
  BY DEF GoodLevels, Level
<1>2. block.minKey \in Nat /\ block.maxKey \in Nat
  BY GoodBlocksAreBlocks
<1>3. Append(level.recordHashes, block) \in Seq(GoodBlocks)
  BY <1>1, AppendProperties
<1>4. Append(level.recordHashes, block) \in Seq(Block(Keys))
  BY <1>3, GoodBlocksAreBlocks
<1>5. /\ Min({level.min_key, block.minKey}) \in Nat
      /\ Max({level.max_key, block.maxKey}) \in Nat
  BY <1>1, <1>2, PairMinMax
<1> DEFINE new == addBlock(level, block)
<1>6. /\ new.recordHashes = Append(level.recordHashes, block)
      /\ new.numBlocks = level.numBlocks + 1
      /\ new.maxSize = level.maxSize
      /\ new.min_key \in {block.minKey, Min({level.min_key, block.minKey})}
      /\ new.max_key \in {block.maxKey, Max({level.max_key, block.maxKey})}
      /\ new = [numBlocks |-> new.numBlocks, maxSize |-> new.maxSize,
                min_key |-> new.min_key, max_key |-> new.max_key,
                recordHashes |-> new.recordHashes]
  BY DEF addBlock
<1>7. new \in Level(Keys)
  <2> HIDE DEF new
  <2>1. /\ new.numBlocks \in Nat /\ new.maxSize \in Nat
        /\ new.min_key \in Nat /\ new.max_key \in Nat
        /\ new.recordHashes \in Seq(Block(Keys))
    BY <1>1, <1>2, <1>4, <1>5, <1>6
  <2> QED
    BY <1>6, <2>1 DEF Level
<1> QED
  BY <1>3, <1>6, <1>7 DEF GoodLevels

LEMMA WithBlocksType ==
  ASSUME NEW level \in GoodLevels, NEW blocks \in Seq(GoodBlocks)
  PROVE  /\ WithBlocks(level, blocks) \in GoodLevels
         /\ WithBlocks(level, blocks).recordHashes = blocks
         /\ WithBlocks(level, blocks).numBlocks = Len(blocks)
         /\ WithBlocks(level, blocks).maxSize = level.maxSize
<1>1. level \in Level(Keys) /\ level.maxSize \in Nat
  BY DEF GoodLevels, Level
<1>2. blocks \in Seq(Block(Keys)) /\ Len(blocks) \in Nat
  BY GoodBlocksAreBlocks, LenProperties
<1> DEFINE new == WithBlocks(level, blocks)
<1>3. /\ new.recordHashes = blocks
      /\ new.numBlocks = Len(blocks)
      /\ new.maxSize = level.maxSize
      /\ new.min_key = IF blocks = << >> THEN EmptyKey ELSE blocks[1].minKey
      /\ new.max_key = IF blocks = << >> THEN EmptyKey ELSE blocks[Len(blocks)].maxKey
      /\ new = [numBlocks |-> new.numBlocks, maxSize |-> new.maxSize,
                min_key |-> new.min_key, max_key |-> new.max_key,
                recordHashes |-> new.recordHashes]
  BY DEF WithBlocks
<1>4. new.min_key \in Nat /\ new.max_key \in Nat
  <2> HIDE DEF new
  <2>1. CASE blocks = << >>
    BY <1>3, <2>1 DEF EmptyKey
  <2>2. CASE blocks # << >>
    <3>1. 1 \in 1 .. Len(blocks) /\ Len(blocks) \in 1 .. Len(blocks)
      BY <2>2, <1>2, EmptySeq
    <3>2. blocks[1] \in GoodBlocks /\ blocks[Len(blocks)] \in GoodBlocks
      BY <3>1, ElementOfSeq
    <3> QED
      BY <1>3, <2>2, <3>2, GoodBlocksAreBlocks
  <2> QED
    BY <2>1, <2>2
<1>5. new \in Level(Keys)
  <2> HIDE DEF new
  <2> QED
    BY <1>1, <1>2, <1>3, <1>4 DEF Level
<1> QED
  BY <1>3, <1>5 DEF GoodLevels

\* compactHelper evicts at least as many blocks as arrive, and no more than
\* there are if as many are there as arrive.
LEMMA EvictCountBounds ==
  ASSUME NEW source \in Seq(GoodBlocks), NEW dest \in Seq(GoodBlocks)
  PROVE  /\ EvictCount(source, dest) \in Nat
         /\ EvictCount(source, dest) >= Len(source)
         /\ Len(source) <= Len(dest) => EvictCount(source, dest) <= Len(dest)
<1> DEFINE s == Cardinality(Selected(source, dest))
<1>1. Len(source) \in Nat /\ Len(dest) \in Nat /\ DOMAIN dest = 1 .. Len(dest)
  BY LenProperties
<1>2. Selected(source, dest) \in SUBSET (1 .. Len(dest))
  BY <1>1 DEF Selected
<1>3. IsFiniteSet(1 .. Len(dest)) /\ Cardinality(1 .. Len(dest)) = Len(dest)
  BY <1>1, InitialInterval
<1>4. s \in Nat /\ s <= Len(dest)
  BY <1>2, <1>3, FS_Subset, FS_CardinalityType
<1>5. EvictCount(source, dest) = Max({s, Len(source)})
  BY DEF EvictCount
<1> HIDE DEF s
<1> QED
  BY <1>1, <1>4, <1>5, PairMinMax

-----------------------------------------------------------------------------
(***************************************************************************)
(* Maps: the memtable, the locks, the files, the index.                    *)
(***************************************************************************)

\* The partial functions from one set to another.
LEMMA PartialFunction ==
  ASSUME NEW K, NEW T, NEW f
  PROVE  f \in UNION {[ks -> T] : ks \in SUBSET K}
           <=> /\ f = [x \in DOMAIN f |-> f[x]]
               /\ DOMAIN f \subseteq K
               /\ \A x \in DOMAIN f : f[x] \in T
<1>1. ASSUME f \in UNION {[ks -> T] : ks \in SUBSET K}
      PROVE  /\ f = [x \in DOMAIN f |-> f[x]]
             /\ DOMAIN f \subseteq K
             /\ \A x \in DOMAIN f : f[x] \in T
  BY <1>1
<1>2. ASSUME f = [x \in DOMAIN f |-> f[x]], DOMAIN f \subseteq K,
             \A x \in DOMAIN f : f[x] \in T
      PROVE  f \in UNION {[ks -> T] : ks \in SUBSET K}
  <2>1. f \in [DOMAIN f -> T]
    BY <1>2
  <2> QED
    BY <1>2, <2>1
<1> QED
  BY <1>1, <1>2

\* An entry added to such a function.
LEMMA WithFacts ==
  ASSUME NEW K, NEW T, NEW f \in UNION {[ks -> T] : ks \in SUBSET K},
         NEW x \in K, NEW v \in T
  PROVE  /\ With(f, x, v) \in UNION {[ks -> T] : ks \in SUBSET K}
         /\ DOMAIN With(f, x, v) = DOMAIN f \cup {x}
         /\ With(f, x, v)[x] = v
         /\ \A y \in DOMAIN f : y # x => With(f, x, v)[y] = f[y]
<1> DEFINE g == With(f, x, v)
<1>1. /\ f = [y \in DOMAIN f |-> f[y]]
      /\ DOMAIN f \subseteq K
      /\ \A y \in DOMAIN f : f[y] \in T
  BY PartialFunction, Zenon
<1>2. /\ g = [y \in DOMAIN g |-> g[y]]
      /\ DOMAIN g = DOMAIN f \cup {x}
      /\ g[x] = v
      /\ \A y \in DOMAIN f : y # x => g[y] = f[y]
  BY DEF With
<1>3. DOMAIN g \subseteq K /\ \A y \in DOMAIN g : g[y] \in T
  BY <1>1, <1>2
<1>4. g \in UNION {[ks -> T] : ks \in SUBSET K}
  <2> HIDE DEF g
  <2>1. g \in UNION {[ks -> T] : ks \in SUBSET K}
          <=> /\ g = [y \in DOMAIN g |-> g[y]]
              /\ DOMAIN g \subseteq K
              /\ \A y \in DOMAIN g : g[y] \in T
    BY PartialFunction, Zenon
  <2> QED
    BY <1>2, <1>3, <2>1, Zenon
<1> QED
  BY <1>2, <1>4

\* A pair added to a map from keys to versions.
LEMMA PairMapWith ==
  ASSUME NEW f \in PairMap(Keys), NEW x \in Keys, NEW v \in Version
  PROVE  /\ With(f, x, v) \in PairMap(Keys)
         /\ DOMAIN With(f, x, v) = DOMAIN f \cup {x}
<1>1. f \in UNION {[ks -> Version] : ks \in SUBSET Keys}
  BY DEF PairMap
<1>2. With(f, x, v) \in UNION {[ks -> Version] : ks \in SUBSET Keys}
  BY <1>1, WithFacts
<1>3. DOMAIN With(f, x, v) = DOMAIN f \cup {x}
  BY DEF With
<1> QED
  BY <1>2, <1>3 DEF PairMap

\* The empty map.
LEMMA EmptyMap ==
  ASSUME NEW K, NEW T
  PROVE  << >> \in UNION {[ks -> T] : ks \in SUBSET K} /\ DOMAIN << >> = {}
<1>1. << >> \in [{} -> T] /\ DOMAIN << >> = {}
  OBVIOUS
<1> QED
  BY <1>1
=============================================================================
