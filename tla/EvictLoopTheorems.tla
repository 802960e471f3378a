-------------------------- MODULE EvictLoopTheorems --------------------------
(***************************************************************************)
(* The loops of compactHelper select the blocks that EvictCount of         *)
(* CapsuleBlocks says, for levels of any number of blocks over any keys.   *)
(***************************************************************************)
EXTENDS EvictLoop, CapsuleBlocksTheorems

Headers == {Header(lo, hi) : lo, hi \in Keys}

\* The blocks of a level are in key order and disjoint.
Ordered(blocks) ==
  \A i, j \in DOMAIN blocks :
    /\ blocks[i].minKey <= blocks[i].maxKey
    /\ i < j => blocks[i].maxKey < blocks[j].minKey

\* How many blocks the loops have pushed to newSourceVec.
Evicted == Len(newSourceVec)

TypeInv ==
  /\ source \in Seq(Headers) /\ dest \in Seq(Headers)
  /\ newSourceVec \in Seq(Headers) /\ remainingBlocks \in Seq(Headers)
  /\ sourceInd \in 0 .. Len(source) /\ destInd \in 0 .. Len(dest)
  /\ pc \in {"outer", "inner", "rest", "topUp", "done"}

LevelsInv ==
  /\ Ordered(source) /\ Ordered(dest)
  /\ 1 <= Len(source) /\ Len(source) <= Len(dest)

\* The blocks seen so far are parted: the first Evicted ones leave, the
\* others stay.
Parted ==
  /\ Evicted <= destInd
  /\ Len(remainingBlocks) = destInd - Evicted
  /\ \A i \in 1 .. Evicted : newSourceVec[i] = dest[i]
  /\ \A i \in 1 .. destInd - Evicted : remainingBlocks[i] = dest[Evicted + i]

\* The blocks that leave are the ones that end before the last source block
\* the outer loop got past.
Reached(s, k) ==
  IF s = 0 THEN k = 0
  ELSE \A i \in DOMAIN dest : i <= k <=> dest[i].maxKey < source[s].maxKey

\* In the inner loop: it works off the gap before the current source block.
Inside ==
  /\ sourceInd < Len(source)
  /\ Evicted = destInd
  /\ Gap(source, dest, sourceInd + 1)
  /\ \A i \in 1 .. Evicted : dest[i].maxKey < source[sourceInd + 1].maxKey

\* Once the outer loop keeps a block, the current source block has no gap
\* before it: the inner loop is not entered again.
Blocked ==
  Evicted < destInd =>
    sourceInd < Len(source) /\ source[sourceInd + 1].minKey <= dest[Evicted + 1].maxKey

\* The outer loop has ended for want of a gap, or of source blocks.
Stopped == sourceInd < Len(source) => ~Gap(source, dest, sourceInd + 1)

LoopInv ==
  /\ Parted
  /\ \A h \in 1 .. sourceInd : Gap(source, dest, h)
  /\ pc # "inner" => Reached(sourceInd, Evicted)
  /\ pc = "inner" => Inside
  /\ pc = "outer" => Blocked
  /\ pc \in {"rest", "topUp"} => Stopped
  /\ pc = "topUp" => destInd = Len(dest)

\* The inductive invariant.
EvictInv ==
  /\ TypeInv
  /\ LevelsInv
  /\ pc # "done" => LoopInv
  /\ ComputesEviction

-----------------------------------------------------------------------------
(***************************************************************************)
(* Levels and their order.                                                 *)
(***************************************************************************)

LEMMA HeaderFacts ==
  /\ \A h \in Headers : h.minKey \in Nat /\ h.maxKey \in Nat
  /\ \A blocks \in Seq(Headers) :
       /\ Len(blocks) \in Nat /\ DOMAIN blocks = 1 .. Len(blocks)
       /\ \A i \in 1 .. Len(blocks) :
            /\ blocks[i] \in Headers
            /\ blocks[i].minKey \in Nat /\ blocks[i].maxKey \in Nat
<1>1. \A h \in Headers : h.minKey \in Nat /\ h.maxKey \in Nat
  BY KeysAssumption DEF Headers, Header
<1>2. ASSUME NEW blocks \in Seq(Headers)
      PROVE  /\ Len(blocks) \in Nat /\ DOMAIN blocks = 1 .. Len(blocks)
             /\ \A i \in 1 .. Len(blocks) : blocks[i] \in Headers
  BY LenProperties, ElementOfSeq
<1> QED
  BY <1>1, <1>2

\* Levels whose neighbouring blocks are in order are in order throughout:
\* of the blocks not beyond block i, the first would follow one that is.
LEMMA LevelsOfOrdered ==
  ASSUME NEW n \in Nat, NEW blocks \in LevelsOf(n)
  PROVE  blocks \in Seq(Headers) /\ Len(blocks) = n /\ Ordered(blocks)
<1>1. /\ blocks \in [1 .. n -> Headers]
      /\ \A i \in 1 .. n : blocks[i].minKey <= blocks[i].maxKey
      /\ \A i \in 1 .. n - 1 : blocks[i].maxKey < blocks[i + 1].minKey
  BY DEF LevelsOf, Headers
<1>2. blocks \in Seq(Headers) /\ Len(blocks) = n
  BY <1>1
<1>3. \A i \in 1 .. n : blocks[i].minKey \in Nat /\ blocks[i].maxKey \in Nat
  BY <1>2, HeaderFacts
<1>4. ASSUME NEW i \in 1 .. n, NEW j \in 1 .. n, i < j
      PROVE  blocks[i].maxKey < blocks[j].minKey
  <2> DEFINE Bad == {h \in 1 .. n : i < h /\ ~ (blocks[i].maxKey < blocks[h].minKey)}
  <2> SUFFICES ASSUME Bad # {}
               PROVE  FALSE
    BY <1>4
  <2>1. Bad \in SUBSET Nat
    OBVIOUS
  <2>2. PICK m \in Bad : \A h \in Bad : m <= h
    <3> HIDE DEF Bad
    <3> QED
      BY <2>1, MinNat
  <2>3. m \in 1 .. n /\ i < m /\ ~ (blocks[i].maxKey < blocks[m].minKey)
    OBVIOUS
  <2>4. CASE m = i + 1
    <3>1. i \in 1 .. n - 1
      BY <2>3, <2>4
    <3> QED
      BY <1>1, <2>3, <2>4, <3>1
  <2>5. CASE m # i + 1
    <3> DEFINE h == m - 1
    <3>1. h \in 1 .. n /\ h \in 1 .. n - 1 /\ i < h /\ h + 1 = m /\ ~ (m <= h)
      BY <2>3, <2>5
    <3> HIDE DEF h
    <3>2. blocks[i].maxKey < blocks[h].minKey
      BY <2>2, <3>1
    <3>3. blocks[h].minKey <= blocks[h].maxKey /\ blocks[h].maxKey < blocks[m].minKey
      BY <1>1, <3>1
    <3> QED
      BY <1>3, <2>3, <3>1, <3>2, <3>3
  <2> QED
    BY <2>4, <2>5
<1>5. Ordered(blocks)
  <2>1. DOMAIN blocks = 1 .. n
    BY <1>1
  <2> QED
    BY <1>1, <1>4, <2>1 DEF Ordered
<1> QED
  BY <1>2, <1>5

\* std::sort leaves a list alone that is in order: the order it chooses is
\* monotonic, so no position can be the first that moves down or the last
\* that moves up.
LEMMA SortedAlready ==
  ASSUME NEW n \in Nat, NEW headers, DOMAIN headers = 1 .. n,
         headers = [i \in 1 .. n |-> headers[i]],
         \A i \in 1 .. n : headers[i].minKey \in Nat,
         \A i, j \in 1 .. n : i < j => headers[i].minKey < headers[j].minKey,
         NEW sorted \in SortedHeaders(headers)
  PROVE  sorted = headers
<1>1. PICK p \in Bijection(1 .. n, 1 .. n) :
        /\ sorted = [i \in 1 .. n |-> headers[p[i]]]
        /\ \A i, j \in 1 .. n :
             i < j => ~ (headers[p[j]].minKey < headers[p[i]].minKey)
  BY DEF SortedHeaders, compareHeaders
<1>2. /\ p \in [1 .. n -> 1 .. n]
      /\ \A i, j \in 1 .. n : p[i] = p[j] => i = j
  BY DEF Bijection, Injection, IsInjective
<1>3. \A i, j \in 1 .. n : i < j => p[i] < p[j]
  <2> SUFFICES ASSUME NEW i \in 1 .. n, NEW j \in 1 .. n, i < j
               PROVE  p[i] < p[j]
    OBVIOUS
  <2>1. p[i] \in 1 .. n /\ p[j] \in 1 .. n /\ p[i] # p[j]
    BY <1>2
  <2>2. ~ (p[j] < p[i])
    BY <1>1, <2>1
  <2> QED
    BY <2>1, <2>2
<1>4. \A i \in 1 .. n : p[i] >= i
  <2> DEFINE Down == {i \in 1 .. n : p[i] < i}
  <2> SUFFICES ASSUME Down # {}
               PROVE  FALSE
    BY <1>2
  <2>1. Down \in SUBSET Nat
    OBVIOUS
  <2>2. PICK m \in Down : \A h \in Down : m <= h
    <3> HIDE DEF Down
    <3> QED
      BY <2>1, MinNat
  <2>3. m \in 1 .. n /\ p[m] < m /\ p[m] \in 1 .. n
    BY <1>2
  <2>4. p[p[m]] < p[m]
    BY <1>3, <2>3
  <2>5. p[m] \in Down
    BY <2>3, <2>4
  <2> QED
    BY <2>2, <2>3, <2>5
<1>5. \A i \in 1 .. n : p[i] <= i
  <2> DEFINE Up == {i \in 1 .. n : p[i] > i}
  <2> SUFFICES ASSUME Up # {}
               PROVE  FALSE
    BY <1>2
  <2>1. Up \in SUBSET Nat /\ IsFiniteSet(Up)
    BY InitialInterval, FS_Subset
  <2>2. PICK m \in Up : \A h \in Up : m >= h
    <3> HIDE DEF Up
    <3> QED
      BY <2>1, MaxNat
  <2>3. m \in 1 .. n /\ p[m] > m /\ p[m] \in 1 .. n
    BY <1>2
  <2>4. p[p[m]] > p[m]
    BY <1>2, <1>3, <2>3
  <2>5. p[m] \in Up
    BY <2>3, <2>4
  <2> QED
    BY <2>2, <2>3, <2>5
<1>6. \A i \in 1 .. n : p[i] = i
  BY <1>2, <1>4, <1>5
<1> QED
  BY <1>1, <1>6

-----------------------------------------------------------------------------
(***************************************************************************)
(* The selection.                                                          *)
(***************************************************************************)

\* A source block that no destination block after the evicted ones precedes
\* has no gap before it.
LEMMA NoGap ==
  ASSUME TypeInv, LevelsInv, NEW s \in Nat, NEW k \in Nat,
         s < Len(source), Reached(s, k),
         \A i \in DOMAIN dest : i > k => source[s + 1].minKey <= dest[i].maxKey
  PROVE  ~Gap(source, dest, s + 1)
<1> SUFFICES ASSUME NEW i \in DOMAIN dest,
                    dest[i].maxKey < source[s + 1].minKey,
                    s + 1 > 1 => dest[i].maxKey >= source[(s + 1) - 1].maxKey
             PROVE  FALSE
  BY DEF Gap
<1>1. /\ Len(source) \in Nat /\ Len(dest) \in Nat /\ i \in 1 .. Len(dest)
      /\ dest[i].maxKey \in Nat
      /\ \A j \in 1 .. Len(source) : source[j].minKey \in Nat /\ source[j].maxKey \in Nat
  BY HeaderFacts DEF TypeInv
<1>2. s + 1 \in 1 .. Len(source) /\ source[s + 1].minKey \in Nat
  BY <1>1
<1>3. i <= k
  BY <1>1, <1>2
<1>4. s # 0 /\ dest[i].maxKey < source[s].maxKey
  BY <1>1, <1>3 DEF Reached
<1>5. s \in 1 .. Len(source) /\ (s + 1) - 1 = s /\ s + 1 > 1
  BY <1>1, <1>4
<1> QED
  BY <1>1, <1>4, <1>5

\* When the loops have ended, they have evicted the Selected blocks.
LEMMA SelectedFirst ==
  ASSUME TypeInv, LevelsInv, Reached(sourceInd, Evicted), Stopped,
         Evicted <= Len(dest),
         \A h \in 1 .. sourceInd : Gap(source, dest, h)
  PROVE  /\ Selected(source, dest) = 1 .. Evicted
         /\ Cardinality(Selected(source, dest)) = Evicted
<1>1. /\ Len(source) \in Nat /\ Len(dest) \in Nat /\ Evicted \in Nat
      /\ DOMAIN source = 1 .. Len(source) /\ DOMAIN dest = 1 .. Len(dest)
      /\ \A i \in 1 .. Len(dest) : dest[i].maxKey \in Nat
      /\ \A j \in 1 .. Len(source) : source[j].minKey \in Nat /\ source[j].maxKey \in Nat
  BY HeaderFacts DEF TypeInv, Evicted
<1>2. sourceInd \in Nat /\ sourceInd <= Len(source)
  BY <1>1 DEF TypeInv
<1>3. Passed(source, dest) = 1 .. sourceInd
  <2>1. ASSUME NEW j \in Passed(source, dest)
        PROVE  j \in 1 .. sourceInd
    <3>1. j \in 1 .. Len(source) /\ \A h \in 1 .. j : Gap(source, dest, h)
      BY <1>1 DEF Passed
    <3>2. CASE j > sourceInd
      <4>1. sourceInd + 1 \in 1 .. j /\ sourceInd < Len(source)
        BY <1>1, <1>2, <3>1, <3>2
      <4> QED
        BY <3>1, <4>1 DEF Stopped
    <3> QED
      BY <1>1, <1>2, <3>1, <3>2
  <2>2. ASSUME NEW j \in 1 .. sourceInd
        PROVE  j \in Passed(source, dest)
    <3>1. j \in DOMAIN source /\ \A h \in 1 .. j : h \in 1 .. sourceInd
      BY <1>1, <1>2
    <3> QED
      BY <3>1 DEF Passed
  <2> QED
    BY <2>1, <2>2
<1>4. ASSUME NEW i \in Selected(source, dest)
      PROVE  i \in 1 .. Evicted
  <2>1. PICK j \in 1 .. sourceInd : i \in DOMAIN dest /\ dest[i].maxKey < source[j].maxKey
    BY <1>3 DEF Selected
  <2>2. sourceInd # 0 /\ sourceInd \in 1 .. Len(source) /\ j \in 1 .. Len(source)
    BY <1>1, <1>2
  <2>3. source[j].maxKey <= source[sourceInd].maxKey
    <3>1. CASE j = sourceInd
      BY <1>1, <2>2, <3>1
    <3>2. CASE j < sourceInd
      <4>1. source[j].maxKey < source[sourceInd].minKey
            /\ source[sourceInd].minKey <= source[sourceInd].maxKey
        BY <1>1, <2>2, <3>2 DEF LevelsInv, Ordered
      <4> QED
        BY <1>1, <2>2, <4>1
    <3> QED
      BY <1>2, <2>1, <3>1, <3>2
  <2>4. dest[i].maxKey < source[sourceInd].maxKey
    BY <1>1, <2>1, <2>2, <2>3
  <2> QED
    BY <1>1, <2>1, <2>2, <2>4 DEF Reached
<1>5. ASSUME NEW i \in 1 .. Evicted
      PROVE  i \in Selected(source, dest)
  <2>1. i \in DOMAIN dest /\ i <= Evicted /\ Evicted # 0
    BY <1>1
  <2>2. sourceInd # 0 /\ dest[i].maxKey < source[sourceInd].maxKey
    BY <2>1 DEF Reached
  <2>3. sourceInd \in 1 .. sourceInd
    BY <1>2, <2>2
  <2> QED
    BY <1>3, <2>1, <2>2, <2>3 DEF Selected
<1>6. Selected(source, dest) = 1 .. Evicted
  BY <1>4, <1>5
<1> QED
  BY <1>1, <1>6, InitialInterval

-----------------------------------------------------------------------------
(***************************************************************************)
(* The steps.                                                              *)
(***************************************************************************)

LEMMA Init_EvictInv == Init => EvictInv
<1> SUFFICES ASSUME Init
             PROVE  EvictInv
  OBVIOUS
<1>1. PICK n \in 1 .. MaxBlocks : \E m \in 1 .. n : source \in LevelsOf(m) /\ dest \in LevelsOf(n)
  BY DEF Init
<1>2. PICK m \in 1 .. n : source \in LevelsOf(m) /\ dest \in LevelsOf(n)
  BY <1>1
<1>3. n \in Nat /\ m \in Nat /\ 1 <= m /\ m <= n
  BY MaxBlocksAssumption
<1>4. /\ source \in Seq(Headers) /\ Len(source) = m /\ Ordered(source)
      /\ dest \in Seq(Headers) /\ Len(dest) = n /\ Ordered(dest)
  BY <1>2, <1>3, LevelsOfOrdered
<1>5. /\ sourceInd = 0 /\ destInd = 0 /\ newSourceVec = << >>
      /\ remainingBlocks = << >> /\ pc = "outer"
  BY DEF Init
<1>6. << >> \in Seq(Headers) /\ Len(<< >>) = 0
  OBVIOUS
<1>7. TypeInv /\ LevelsInv
  BY <1>3, <1>4, <1>5, <1>6 DEF TypeInv, LevelsInv
<1>8. Evicted = 0
  BY <1>5, <1>6 DEF Evicted
<1>9. LoopInv
  BY <1>5, <1>6, <1>8 DEF LoopInv, Parted, Reached, Blocked
<1> QED
  BY <1>5, <1>7, <1>9 DEF EvictInv, ComputesEviction

\* The facts about lengths and elements that every step needs.
LEMMA StepFacts ==
  ASSUME EvictInv
  PROVE  /\ Len(source) \in Nat /\ Len(dest) \in Nat /\ Evicted \in Nat
         /\ sourceInd \in Nat /\ destInd \in Nat
         /\ sourceInd <= Len(source) /\ destInd <= Len(dest)
         /\ DOMAIN source = 1 .. Len(source) /\ DOMAIN dest = 1 .. Len(dest)
         /\ \A i \in 1 .. Len(dest) :
              dest[i] \in Headers /\ dest[i].minKey \in Nat /\ dest[i].maxKey \in Nat
         /\ \A j \in 1 .. Len(source) : source[j].minKey \in Nat /\ source[j].maxKey \in Nat
         /\ \A i, j \in 1 .. Len(dest) :
              /\ dest[i].minKey <= dest[i].maxKey
              /\ i < j => dest[i].maxKey < dest[j].minKey /\ dest[i].maxKey < dest[j].maxKey
         /\ \A i, j \in 1 .. Len(source) :
              /\ source[i].minKey <= source[i].maxKey
              /\ i < j => source[i].maxKey < source[j].minKey /\ source[i].maxKey < source[j].maxKey
<1>1. /\ Len(source) \in Nat /\ Len(dest) \in Nat /\ Evicted \in Nat
      /\ DOMAIN source = 1 .. Len(source) /\ DOMAIN dest = 1 .. Len(dest)
      /\ \A i \in 1 .. Len(dest) :
           dest[i] \in Headers /\ dest[i].minKey \in Nat /\ dest[i].maxKey \in Nat
      /\ \A j \in 1 .. Len(source) : source[j].minKey \in Nat /\ source[j].maxKey \in Nat
  BY HeaderFacts DEF EvictInv, TypeInv, Evicted
<1>2. /\ sourceInd \in Nat /\ destInd \in Nat
      /\ sourceInd <= Len(source) /\ destInd <= Len(dest)
  BY <1>1 DEF EvictInv, TypeInv
<1>3. ASSUME NEW i \in 1 .. Len(dest), NEW j \in 1 .. Len(dest)
      PROVE  /\ dest[i].minKey <= dest[i].maxKey
             /\ i < j => dest[i].maxKey < dest[j].minKey /\ dest[i].maxKey < dest[j].maxKey
  <2>1. /\ dest[i].minKey <= dest[i].maxKey /\ dest[j].minKey <= dest[j].maxKey
        /\ i < j => dest[i].maxKey < dest[j].minKey
    BY <1>1 DEF EvictInv, LevelsInv, Ordered
  <2> QED
    BY <1>1, <2>1
<1>4. ASSUME NEW i \in 1 .. Len(source), NEW j \in 1 .. Len(source)
      PROVE  /\ source[i].minKey <= source[i].maxKey
             /\ i < j => source[i].maxKey < source[j].minKey /\ source[i].maxKey < source[j].maxKey
  <2>1. /\ source[i].minKey <= source[i].maxKey /\ source[j].minKey <= source[j].maxKey
        /\ i < j => source[i].maxKey < source[j].minKey
    BY <1>1 DEF EvictInv, LevelsInv, Ordered
  <2> QED
    BY <1>1, <2>1
<1> QED
  BY <1>1, <1>2, <1>3, <1>4

\* Keep leaves the blocks parted.
LEMMA KeepParted ==
  ASSUME EvictInv, Parted, MoreDest, Keep
  PROVE  /\ Parted' /\ TypeInv' /\ LevelsInv'
         /\ Evicted' = Evicted /\ destInd' = destInd + 1
<1>1. /\ Len(dest) \in Nat /\ Evicted \in Nat /\ destInd \in Nat
      /\ destInd + 1 \in 1 .. Len(dest) /\ dest[destInd + 1] \in Headers
  BY StepFacts DEF MoreDest
<1>2. /\ remainingBlocks' = Append(remainingBlocks, dest[destInd + 1])
      /\ destInd' = destInd + 1
      /\ UNCHANGED <<source, dest, sourceInd, newSourceVec, pc>>
  BY DEF Keep, DestBlock
<1>3. Evicted' = Evicted
  BY <1>2 DEF Evicted
<1>4. remainingBlocks \in Seq(Headers) /\ Len(remainingBlocks) = destInd - Evicted
      /\ Evicted <= destInd
  BY DEF EvictInv, TypeInv, Parted
<1>5. /\ remainingBlocks' \in Seq(Headers)
      /\ Len(remainingBlocks') = (destInd - Evicted) + 1
      /\ \A i \in 1 .. destInd - Evicted : remainingBlocks'[i] = remainingBlocks[i]
      /\ remainingBlocks'[(destInd - Evicted) + 1] = dest[destInd + 1]
  BY <1>1, <1>2, <1>4, AppendProperties
<1>6. TypeInv' /\ LevelsInv'
  BY <1>1, <1>2, <1>5 DEF EvictInv, TypeInv, LevelsInv, Ordered
<1>7. Parted'
  <2>1. ASSUME NEW i \in 1 .. (destInd + 1) - Evicted
        PROVE  remainingBlocks'[i] = dest[Evicted + i]
    <3>1. CASE i = (destInd - Evicted) + 1
      <4>1. Evicted + i = destInd + 1
        BY <1>1, <1>4, <3>1
      <4> QED
        BY <1>5, <3>1, <4>1
    <3>2. CASE i # (destInd - Evicted) + 1
      <4>1. i \in 1 .. destInd - Evicted
        BY <1>1, <1>4, <3>2
      <4> QED
        BY <1>5, <4>1 DEF Parted
    <3> QED
      BY <3>1, <3>2
  <2>2. Len(remainingBlocks') = (destInd + 1) - Evicted /\ Evicted <= destInd + 1
    BY <1>1, <1>4, <1>5
  <2> QED
    BY <1>2, <1>3, <2>1, <2>2 DEF Parted
<1> QED
  BY <1>2, <1>3, <1>6, <1>7

\* Evict does too.
LEMMA EvictParted ==
  ASSUME EvictInv, Parted, Evicted = destInd, Evict
  PROVE  /\ Parted' /\ TypeInv' /\ LevelsInv'
         /\ Evicted' = Evicted + 1 /\ destInd' = destInd + 1
<1>1. /\ Len(dest) \in Nat /\ Evicted \in Nat /\ destInd \in Nat
      /\ destInd + 1 \in 1 .. Len(dest) /\ dest[destInd + 1] \in Headers
  BY StepFacts DEF Evict, MoreDest
<1>2. /\ newSourceVec' = Append(newSourceVec, dest[destInd + 1])
      /\ destInd' = destInd + 1
      /\ UNCHANGED <<source, dest, sourceInd, remainingBlocks, pc>>
  BY DEF Evict, DestBlock
<1>3. newSourceVec \in Seq(Headers) /\ Len(newSourceVec) = Evicted
  BY DEF EvictInv, TypeInv, Evicted
<1>4. /\ newSourceVec' \in Seq(Headers)
      /\ Len(newSourceVec') = Evicted + 1
      /\ \A i \in 1 .. Evicted : newSourceVec'[i] = newSourceVec[i]
      /\ newSourceVec'[Evicted + 1] = dest[destInd + 1]
  BY <1>1, <1>2, <1>3, AppendProperties
<1>5. Evicted' = Evicted + 1
  BY <1>4 DEF Evicted
<1>6. TypeInv' /\ LevelsInv'
  BY <1>1, <1>2, <1>4 DEF EvictInv, TypeInv, LevelsInv, Ordered
<1>7. Parted'
  <2>1. ASSUME NEW i \in 1 .. Evicted + 1
        PROVE  newSourceVec'[i] = dest[i]
    <3>1. CASE i = Evicted + 1
      BY <1>4, <3>1
    <3>2. CASE i # Evicted + 1
      <4>1. i \in 1 .. Evicted
        BY <1>1, <3>2
      <4> QED
        BY <1>4, <4>1 DEF Parted
    <3> QED
      BY <3>1, <3>2
  <2>2. Len(remainingBlocks) = 0 /\ (destInd + 1) - (Evicted + 1) = 0
    BY <1>1 DEF Parted
  <2>3. 1 .. 0 = {} /\ Evicted + 1 <= destInd + 1
    BY <1>1
  <2> QED
    BY <1>2, <1>5, <2>1, <2>2, <2>3 DEF Parted
<1> QED
  BY <1>2, <1>5, <1>6, <1>7

\* The top-up completes the eviction.
LEMMA TopUpComputes ==
  ASSUME EvictInv, TopUp
  PROVE  EvictInv'
<1> DEFINE k == Evicted
           l == Len(dest)
           m == Len(source)
           n == EvictCount(source, dest)
           front == SubSeq(dest, 1, n)
           rest == SubSeq(dest, n + 1, l)
<1>1. /\ m \in Nat /\ l \in Nat /\ k \in Nat /\ m <= l
      /\ \A i \in 1 .. l : dest[i] \in Headers /\ dest[i].minKey \in Nat
      /\ \A i, j \in 1 .. l : i < j => dest[i].minKey < dest[j].minKey
  <2>1. \A i, j \in 1 .. l : i < j => dest[i].minKey < dest[j].minKey
    <3> SUFFICES ASSUME NEW i \in 1 .. l, NEW j \in 1 .. l, i < j
                 PROVE  dest[i].minKey < dest[j].minKey
      OBVIOUS
    <3>1. /\ dest[i].minKey \in Nat /\ dest[i].maxKey \in Nat /\ dest[j].minKey \in Nat
          /\ dest[i].minKey <= dest[i].maxKey /\ dest[i].maxKey < dest[j].minKey
      BY StepFacts
    <3> QED
      BY <3>1
  <2> QED
    BY <2>1, StepFacts DEF EvictInv, LevelsInv
<1>2. /\ pc = "topUp" /\ LoopInv /\ destInd = l /\ k <= l /\ Parted
      /\ Len(remainingBlocks) = l - k
  BY DEF TopUp, EvictInv, LoopInv, Parted
<1>3. /\ \A i \in 1 .. k : newSourceVec[i] = dest[i]
      /\ \A i \in 1 .. l - k : remainingBlocks[i] = dest[k + i]
  BY <1>2 DEF Parted
<1>4. /\ newSourceVec \in Seq(Headers) /\ Len(newSourceVec) = k
      /\ remainingBlocks \in Seq(Headers) /\ dest \in Seq(Headers)
  BY DEF EvictInv, TypeInv, Evicted
<1>5. n = Max({k, m})
  <2>1. Cardinality(Selected(source, dest)) = k
    BY <1>2, SelectedFirst DEF EvictInv, LoopInv
  <2> QED
    BY <2>1 DEF EvictCount
<1>6. n \in Nat /\ n <= l /\ (m > k => n = m) /\ (m <= k => n = k)
  <2> HIDE DEF k, l, m, n
  <2>1. n \in {k, m} /\ n >= k /\ n >= m
    BY <1>1, <1>5, PairMinMax
  <2> QED
    BY <1>1, <1>2, <2>1
<1>7. /\ front \in Seq(Headers) /\ Len(front) = n
      /\ \A i \in 1 .. n : front[i] = dest[i]
      /\ rest \in Seq(Headers) /\ Len(rest) = l - n
      /\ \A i \in 1 .. l - n : rest[i] = dest[n + i]
  <2> HIDE DEF n
  <2>1. n \in 0 .. Len(dest)
    BY <1>1, <1>6
  <2>2. /\ front \in Seq(Headers) /\ Len(front) = n
        /\ \A i \in 1 .. n : front[i] = dest[i]
    BY <1>4, <2>1, PrefixType
  <2>3. rest \in Seq(Headers) /\ Len(rest) = l - n
    BY <1>4, <2>1, SuffixType
  <2>4. ASSUME NEW i \in 1 .. l - n
        PROVE  rest[i] = dest[n + i]
    <3> HIDE DEF l
    <3>1. n + 1 \in Int /\ l \in Int /\ \A j \in n + 1 .. l : dest[j] \in Headers
      BY <1>1, <1>6
    <3>2. i \in 1 .. (l - (n + 1)) + 1 /\ ((n + 1) + i) - 1 = n + i
      BY <1>1, <1>6
    <3> QED
      BY <3>1, <3>2, SubSeqProperties
  <2> QED
    BY <2>2, <2>3, <2>4
<1>8. newSourceVec' = front /\ remainingBlocks' = rest
  <2>1. CASE m > k
    <3> DEFINE missing == m - k
               extra == SubSeq(remainingBlocks, 1, missing)
               joined == newSourceVec \o extra
               later == SubSeq(remainingBlocks, missing + 1, Len(remainingBlocks))
    <3>1. n = m /\ missing \in 0 .. Len(remainingBlocks) /\ missing > 0
      BY <1>1, <1>2, <1>6, <2>1
    <3>2. newSourceVec' \in SortedHeaders(joined) /\ remainingBlocks' = later
      BY <3>1 DEF TopUp, Evicted
    <3>3. /\ extra \in Seq(Headers) /\ Len(extra) = missing
          /\ \A i \in 1 .. missing : extra[i] = remainingBlocks[i]
      <4> HIDE DEF missing
      <4> QED
        BY <1>4, <3>1, PrefixType
    <3>4. /\ joined \in Seq(Headers) /\ Len(joined) = n
          /\ \A i \in 1 .. n : joined[i] = IF i <= k THEN newSourceVec[i] ELSE extra[i - k]
      <4> HIDE DEF extra
      <4>1. /\ joined \in Seq(Headers) /\ Len(joined) = k + missing
            /\ \A i \in 1 .. k + missing :
                 joined[i] = IF i <= k THEN newSourceVec[i] ELSE extra[i - k]
        BY <1>4, <3>3, ConcatProperties
      <4>2. k + missing = n
        BY <1>1, <3>1
      <4> HIDE DEF joined, k, missing, n
      <4> QED
        BY <4>1, <4>2
    <3>5. ASSUME NEW i \in 1 .. n
          PROVE  joined[i] = dest[i]
      <4> HIDE DEF joined, extra, n, l, m, k
      <4>1. CASE i <= k
        <5>1. i \in 1 .. k
          BY <1>1, <1>6, <4>1
        <5> QED
          BY <1>3, <3>4, <4>1, <5>1
      <4>2. CASE ~ (i <= k)
        <5>1. i - k \in 1 .. missing /\ i - k \in 1 .. l - k /\ k + (i - k) = i
          BY <1>1, <1>6, <3>1, <4>2
        <5> QED
          BY <1>3, <3>3, <3>4, <4>2, <5>1
      <4> QED
        BY <4>1, <4>2
    <3>6. joined = front
      <4> HIDE DEF joined, front, n
      <4> QED
        BY <1>7, <3>4, <3>5, SeqEqual
    <3>7. newSourceVec' = joined
      <4>1. /\ DOMAIN joined = 1 .. n /\ joined = [i \in 1 .. n |-> joined[i]]
        BY <3>4
      <4>2. \A i \in 1 .. n : joined[i].minKey \in Nat
        <5>1. \A i \in 1 .. n : i \in 1 .. l
          BY <1>1, <1>6
        <5> HIDE DEF joined, n, l
        <5> QED
          BY <1>1, <3>5, <5>1
      <4>3. \A i, j \in 1 .. n : i < j => joined[i].minKey < joined[j].minKey
        <5>1. \A i \in 1 .. n : i \in 1 .. l
          BY <1>1, <1>6
        <5> HIDE DEF joined, n, l
        <5> QED
          BY <1>1, <3>5, <5>1
      <4> HIDE DEF joined, n
      <4> QED
        BY <1>6, <3>2, <4>1, <4>2, <4>3, SortedAlready
    <3>8. later = rest
      <4> DEFINE r == Len(remainingBlocks)
      <4> HIDE DEF missing, r
      <4>1. /\ r = l - k /\ missing \in Nat /\ missing <= r /\ r - missing = l - n
            /\ missing \in 0 .. r /\ k + missing = n /\ r \in Nat
        BY <1>1, <1>2, <1>6, <3>1 DEF missing, r
      <4>2. later \in Seq(Headers) /\ Len(later) = r - missing
        BY <1>4, <4>1, SuffixType DEF r
      <4>3. ASSUME NEW i \in 1 .. l - n
            PROVE  later[i] = rest[i]
        <5> HIDE DEF l, n, k, rest, later
        <5>1. /\ i \in 1 .. (r - (missing + 1)) + 1
              /\ ((missing + 1) + i) - 1 = missing + i
              /\ missing + i \in 1 .. l - k
              /\ k + (missing + i) = n + i
              /\ missing + 1 \in Int /\ r \in Int
          BY <1>1, <1>6, <4>1
        <5>2. \A j \in missing + 1 .. r : remainingBlocks[j] \in Headers
          <6>1. \A j \in missing + 1 .. r : j \in 1 .. r
            BY <4>1
          <6> QED
            BY <1>4, <6>1, ElementOfSeq DEF r
        <5>3. \A j \in 1 .. (r - (missing + 1)) + 1 :
                SubSeq(remainingBlocks, missing + 1, r)[j] = remainingBlocks[((missing + 1) + j) - 1]
          BY <5>1, <5>2, SubSeqProperties
        <5>4. later[i] = remainingBlocks[missing + i]
          BY <5>1, <5>3 DEF later, r
        <5> QED
          BY <1>3, <1>7, <5>1, <5>4
      <4> HIDE DEF later, rest, n, l
      <4> QED
        BY <1>7, <4>1, <4>2, <4>3, SeqEqual
    <3> QED
      BY <3>2, <3>6, <3>7, <3>8, Zenon
  <2>2. CASE ~ (m > k)
    <3>1. n = k
      BY <1>1, <1>6, <2>2
    <3>2. newSourceVec' = newSourceVec /\ remainingBlocks' = remainingBlocks
      <4>1. ~ (m - k > 0)
        BY <1>1, <2>2
      <4> QED
        BY <4>1 DEF TopUp, Evicted
    <3>3. newSourceVec = front /\ remainingBlocks = rest
      <4> HIDE DEF front, rest, n, k, l
      <4>1. /\ Len(newSourceVec) = Len(front)
            /\ \A i \in 1 .. Len(newSourceVec) : newSourceVec[i] = front[i]
        BY <1>3, <1>4, <1>7, <3>1
      <4>2. /\ Len(remainingBlocks) = Len(rest)
            /\ \A i \in 1 .. Len(remainingBlocks) : remainingBlocks[i] = rest[i]
        BY <1>2, <1>3, <1>7, <3>1
      <4>3. newSourceVec = front
        BY <1>4, <1>7, <4>1, SeqEqual
      <4>4. remainingBlocks = rest
        BY <1>4, <1>7, <4>2, SeqEqual
      <4> QED
        BY <4>3, <4>4
    <3> QED
      BY <3>2, <3>3
  <2> QED
    BY <2>1, <2>2
<1>9. pc' = "done" /\ UNCHANGED <<source, dest, sourceInd, destInd>>
  BY DEF TopUp
<1>10. TypeInv' /\ LevelsInv'
  <2> HIDE DEF front, rest
  <2> QED
    BY <1>7, <1>8, <1>9 DEF EvictInv, TypeInv, LevelsInv, Ordered
<1>11. ComputesEviction'
  BY <1>8, <1>9 DEF ComputesEviction
<1> QED
  BY <1>9, <1>10, <1>11 DEF EvictInv

LEMMA Next_EvictInv == EvictInv /\ [Next]_vars => EvictInv'
<1> SUFFICES ASSUME EvictInv, [Next]_vars
             PROVE  EvictInv'
  OBVIOUS
<1> DEFINE s == sourceInd
           d == destInd
           k == Evicted
           l == Len(dest)
<1>1. /\ Len(source) \in Nat /\ l \in Nat /\ k \in Nat /\ s \in Nat /\ d \in Nat
      /\ s <= Len(source) /\ d <= l
      /\ DOMAIN source = 1 .. Len(source) /\ DOMAIN dest = 1 .. l
      /\ \A i \in 1 .. l : dest[i].minKey \in Nat /\ dest[i].maxKey \in Nat
      /\ \A j \in 1 .. Len(source) : source[j].minKey \in Nat /\ source[j].maxKey \in Nat
      /\ \A i, j \in 1 .. l :
           /\ dest[i].minKey <= dest[i].maxKey
           /\ i < j => dest[i].maxKey < dest[j].minKey /\ dest[i].maxKey < dest[j].maxKey
      /\ \A i, j \in 1 .. Len(source) :
           /\ source[i].minKey <= source[i].maxKey
           /\ i < j => source[i].maxKey < source[j].minKey /\ source[i].maxKey < source[j].maxKey
  BY StepFacts
<1>2. pc # "done" => LoopInv /\ Parted /\ k <= d
  BY DEF EvictInv, LoopInv, Parted
<1>3. CASE EnterInner
  <2>1. /\ pc = "outer" /\ pc' = "inner" /\ s < Len(source) /\ d < l
        /\ source[s + 1].minKey > dest[d + 1].maxKey
        /\ UNCHANGED <<source, dest, sourceInd, destInd, newSourceVec, remainingBlocks>>
    BY <1>3 DEF EnterInner, MoreBoth, MoreDest, Beyond, SourceBlock, DestBlock
  <2>2. LoopInv /\ Blocked /\ Reached(s, k) /\ k <= d
    BY <1>2, <2>1 DEF LoopInv
  <2>3. s + 1 \in 1 .. Len(source) /\ d + 1 \in 1 .. l
    BY <1>1, <2>1
  <2>4. k = d
    <3> SUFFICES ASSUME k < d
                 PROVE  FALSE
      BY <1>1, <2>2
    <3>1. source[s + 1].minKey <= dest[k + 1].maxKey
      BY <2>2 DEF Blocked
    <3>2. k + 1 \in 1 .. l /\ k + 1 < d + 1
      BY <1>1
    <3>3. dest[k + 1].maxKey < dest[d + 1].maxKey
      BY <1>1, <2>3, <3>2
    <3>4. source[s + 1].minKey \in Nat /\ dest[k + 1].maxKey \in Nat /\ dest[d + 1].maxKey \in Nat
      BY <1>1, <2>3, <3>2
    <3> QED
      BY <2>1, <3>1, <3>3, <3>4
  <2>5. Gap(source, dest, s + 1)
    <3>1. dest[d + 1].maxKey < source[s + 1].minKey
      BY <1>1, <2>1, <2>3
    <3>2. ASSUME s + 1 > 1
          PROVE  dest[d + 1].maxKey >= source[(s + 1) - 1].maxKey
      <4>1. s # 0 /\ (s + 1) - 1 = s /\ s \in 1 .. Len(source) /\ ~ (d + 1 <= k)
        BY <1>1, <2>4, <3>2
      <4>2. ~ (dest[d + 1].maxKey < source[s].maxKey)
        BY <1>1, <2>2, <2>3, <4>1 DEF Reached
      <4> QED
        BY <1>1, <2>3, <4>1, <4>2
    <3> QED
      BY <1>1, <2>3, <3>1, <3>2 DEF Gap
  <2>6. ASSUME NEW i \in 1 .. k
        PROVE  dest[i].maxKey < source[s + 1].maxKey
    <3>1. s # 0 /\ i \in DOMAIN dest /\ i <= k
      BY <1>1, <2>2 DEF Reached
    <3>2. dest[i].maxKey < source[s].maxKey
      BY <2>2, <3>1 DEF Reached
    <3>3. s \in 1 .. Len(source) /\ s < s + 1
      BY <1>1, <3>1
    <3>4. source[s].maxKey < source[s + 1].maxKey
      BY <1>1, <2>3, <3>3
    <3> QED
      BY <1>1, <2>3, <3>1, <3>2, <3>3, <3>4
  <2>7. Evicted' = Evicted
    BY <2>1 DEF Evicted
  <2>8. Inside'
    BY <2>1, <2>4, <2>5, <2>6, <2>7 DEF Inside
  <2>9. Parted' /\ \A h \in 1 .. sourceInd' : Gap(source', dest', h)
    BY <1>2, <2>1, <2>2, <2>7 DEF Parted, LoopInv
  <2>10. LoopInv'
    BY <2>1, <2>8, <2>9 DEF LoopInv
  <2>11. TypeInv' /\ LevelsInv' /\ ComputesEviction'
    BY <2>1 DEF EvictInv, TypeInv, LevelsInv, Ordered, ComputesEviction
  <2> QED
    BY <2>10, <2>11 DEF EvictInv
<1>4. CASE KeepOverlapping
  <2>1. /\ pc = "outer" /\ pc' = pc /\ s < Len(source) /\ d < l /\ MoreDest /\ Keep
        /\ ~ Beyond
        /\ UNCHANGED <<source, dest, sourceInd>>
    BY <1>4 DEF KeepOverlapping, MoreBoth, MoreDest, Keep
  <2>2. LoopInv /\ Parted /\ Blocked /\ Reached(s, k) /\ k <= d
    BY <1>2, <2>1 DEF LoopInv
  <2>3. Parted' /\ TypeInv' /\ LevelsInv' /\ Evicted' = k /\ destInd' = d + 1
    BY <2>1, <2>2, KeepParted
  <2>4. source[s + 1].minKey <= dest[k + 1].maxKey
    <3>1. CASE k < d
      BY <2>2, <3>1 DEF Blocked
    <3>2. CASE ~ (k < d)
      <4>1. k = d /\ s + 1 \in 1 .. Len(source) /\ d + 1 \in 1 .. l
        BY <1>1, <2>1, <2>2, <3>2
      <4>2. ~ (source[s + 1].minKey > dest[d + 1].minKey /\ source[s + 1].minKey > dest[d + 1].maxKey)
        BY <2>1 DEF Beyond, SourceBlock, DestBlock
      <4>3. /\ source[s + 1].minKey \in Nat /\ dest[d + 1].minKey \in Nat
            /\ dest[d + 1].maxKey \in Nat /\ dest[d + 1].minKey <= dest[d + 1].maxKey
        BY <1>1, <4>1
      <4> QED
        BY <4>1, <4>2, <4>3
    <3> QED
      BY <3>1, <3>2
  <2>5. Blocked'
    BY <2>1, <2>3, <2>4 DEF Blocked
  <2>6. Reached(s, k)'
    BY <2>1, <2>2, <2>3 DEF Reached
  <2>7. LoopInv'
    BY <2>1, <2>2, <2>3, <2>5, <2>6 DEF LoopInv
  <2>8. ComputesEviction'
    BY <2>1 DEF ComputesEviction
  <2> QED
    BY <2>3, <2>7, <2>8 DEF EvictInv
<1>5. CASE Evict
  <2>1. /\ pc = "inner" /\ pc' = pc /\ d < l
        /\ source[s + 1].maxKey > dest[d + 1].maxKey
        /\ UNCHANGED <<source, dest, sourceInd>>
    BY <1>5 DEF Evict, MoreDest, EndsBefore, SourceBlock, DestBlock
  <2>2. LoopInv /\ Parted /\ Inside /\ k = d
    BY <1>2, <2>1 DEF LoopInv, Inside
  <2>3. Parted' /\ TypeInv' /\ LevelsInv' /\ Evicted' = k + 1 /\ destInd' = d + 1
    BY <1>5, <2>2, EvictParted
  <2>4. ASSUME NEW i \in 1 .. k + 1
        PROVE  dest[i].maxKey < source[s + 1].maxKey
    <3>1. CASE i = k + 1
      <4>1. d + 1 \in 1 .. l /\ s + 1 \in 1 .. Len(source)
        BY <1>1, <2>1, <2>2 DEF Inside
      <4> QED
        BY <1>1, <2>1, <2>2, <3>1, <4>1
    <3>2. CASE i # k + 1
      <4>1. i \in 1 .. k
        BY <1>1, <3>2
      <4> QED
        BY <2>2, <4>1 DEF Inside
    <3> QED
      BY <3>1, <3>2
  <2>5. Inside'
    BY <2>1, <2>2, <2>3, <2>4 DEF Inside
  <2>6. LoopInv'
    BY <2>1, <2>2, <2>3, <2>5 DEF LoopInv
  <2>7. ComputesEviction'
    BY <2>1 DEF ComputesEviction
  <2> QED
    BY <2>3, <2>6, <2>7 DEF EvictInv
<1>6. CASE LeaveInner
  <2>1. /\ pc = "inner" /\ pc' = "outer"
        /\ d < l => ~ (source[s + 1].maxKey > dest[d + 1].maxKey)
        /\ sourceInd' = s + 1
        /\ UNCHANGED <<source, dest, destInd, newSourceVec, remainingBlocks>>
    BY <1>6 DEF LeaveInner, MoreDest, EndsBefore, SourceBlock, DestBlock
  <2>2. LoopInv /\ Parted /\ Inside /\ k = d /\ s < Len(source)
    BY <1>2, <2>1 DEF LoopInv, Inside
  <2>3. Evicted' = k /\ Parted'
    BY <2>1, <2>2 DEF Evicted, Parted
  <2>4. s + 1 \in 1 .. Len(source) /\ s + 1 # 0 /\ s + 1 \in 0 .. Len(source)
    BY <1>1, <2>2
  <2>5. ASSUME NEW i \in 1 .. l
        PROVE  i <= k <=> dest[i].maxKey < source[s + 1].maxKey
    <3>1. CASE i <= k
      <4>1. i \in 1 .. k
        BY <1>1, <3>1
      <4> QED
        BY <2>2, <3>1, <4>1 DEF Inside
    <3>2. CASE ~ (i <= k)
      <4>1. d < l /\ d + 1 \in 1 .. l /\ (i = d + 1 \/ d + 1 < i)
        BY <1>1, <2>2, <3>2
      <4>2. dest[d + 1].maxKey <= dest[i].maxKey
        BY <1>1, <4>1
      <4> QED
        BY <1>1, <2>1, <2>4, <3>2, <4>1, <4>2
    <3> QED
      BY <3>1, <3>2
  <2>6. Reached(sourceInd, Evicted)'
    <3>1. \A i \in DOMAIN dest : i <= k <=> dest[i].maxKey < source[s + 1].maxKey
      BY <1>1, <2>5
    <3> QED
      BY <2>1, <2>3, <2>4, <3>1 DEF Reached
  <2>7. \A h \in 1 .. s + 1 : Gap(source, dest, h)
    <3>1. \A h \in 1 .. s + 1 : h \in 1 .. s \/ h = s + 1
      BY <1>1
    <3> QED
      BY <2>2, <3>1 DEF Inside, LoopInv
  <2>8. Blocked'
    BY <1>1, <2>1, <2>2, <2>3 DEF Blocked
  <2>9. LoopInv'
    BY <2>1, <2>3, <2>6, <2>7, <2>8 DEF LoopInv
  <2>10. TypeInv' /\ LevelsInv' /\ ComputesEviction'
    BY <2>1, <2>4 DEF EvictInv, TypeInv, LevelsInv, Ordered, ComputesEviction
  <2> QED
    BY <2>9, <2>10 DEF EvictInv
<1>7. CASE LeaveOuter
  <2>1. /\ pc = "outer" /\ pc' = "rest" /\ ~ (s < Len(source) /\ d < l)
        /\ UNCHANGED <<source, dest, sourceInd, destInd, newSourceVec, remainingBlocks>>
    BY <1>7 DEF LeaveOuter, MoreBoth, MoreDest
  <2>2. LoopInv /\ Parted /\ Blocked /\ Reached(s, k) /\ k <= d
    BY <1>2, <2>1 DEF LoopInv
  <2>3. Evicted' = k /\ Parted' /\ Reached(sourceInd, Evicted)'
    BY <2>1, <2>2 DEF Evicted, Parted, Reached
  <2>4. Stopped
    <3> SUFFICES ASSUME s < Len(source)
                 PROVE  ~Gap(source, dest, s + 1)
      BY DEF Stopped
    <3>1. d = l /\ s + 1 \in 1 .. Len(source)
      <4>1. /\ d \in Nat /\ l \in Nat /\ d <= l /\ ~ (d < l)
            /\ s \in Nat /\ Len(source) \in Nat
        BY <1>1, <2>1
      <4> HIDE DEF d, l, s
      <4> QED
        BY <4>1
    <3>2. ASSUME NEW i \in DOMAIN dest, i > k
          PROVE  source[s + 1].minKey <= dest[i].maxKey
      <4>1. k < d /\ k + 1 \in 1 .. l /\ i \in 1 .. l /\ (i = k + 1 \/ k + 1 < i)
        BY <1>1, <3>1, <3>2
      <4>2. source[s + 1].minKey <= dest[k + 1].maxKey
        BY <2>2, <4>1 DEF Blocked
      <4>3. dest[k + 1].maxKey <= dest[i].maxKey
        BY <1>1, <4>1
      <4> QED
        BY <1>1, <3>1, <4>1, <4>2, <4>3
    <3> QED
      BY <1>1, <2>2, <3>2, NoGap DEF EvictInv
  <2>5. LoopInv'
    BY <2>1, <2>2, <2>3, <2>4 DEF LoopInv, Stopped
  <2>6. TypeInv' /\ LevelsInv' /\ ComputesEviction'
    BY <2>1 DEF EvictInv, TypeInv, LevelsInv, Ordered, ComputesEviction
  <2> QED
    BY <2>5, <2>6 DEF EvictInv
<1>8. CASE KeepRest
  <2>1. /\ pc = "rest" /\ pc' = pc /\ MoreDest /\ Keep
        /\ UNCHANGED <<source, dest, sourceInd>>
    BY <1>8 DEF KeepRest, Keep
  <2>2. LoopInv /\ Parted /\ Stopped /\ Reached(s, k)
    BY <1>2, <2>1 DEF LoopInv
  <2>3. Parted' /\ TypeInv' /\ LevelsInv' /\ Evicted' = k
    BY <2>1, <2>2, KeepParted
  <2>4. Reached(s, k)' /\ Stopped'
    BY <2>1, <2>2, <2>3 DEF Reached, Stopped
  <2>5. LoopInv'
    BY <2>1, <2>2, <2>3, <2>4 DEF LoopInv
  <2>6. ComputesEviction'
    BY <2>1 DEF ComputesEviction
  <2> QED
    BY <2>3, <2>5, <2>6 DEF EvictInv
<1>9. CASE LeaveRest
  <2>1. /\ pc = "rest" /\ pc' = "topUp" /\ ~ (d < l)
        /\ UNCHANGED <<source, dest, sourceInd, destInd, newSourceVec, remainingBlocks>>
    BY <1>9 DEF LeaveRest, MoreDest
  <2>2. LoopInv /\ Parted /\ Stopped /\ Reached(s, k) /\ d = l
    <3>1. LoopInv /\ Parted /\ Stopped /\ Reached(s, k)
      BY <1>2, <2>1 DEF LoopInv
    <3>2. d \in Nat /\ l \in Nat /\ d <= l /\ ~ (d < l)
      BY <1>1, <2>1
    <3> HIDE DEF d, l
    <3>3. d = l
      BY <3>2
    <3> QED
      BY <3>1, <3>3
  <2>3. /\ Evicted' = k /\ Parted' /\ Reached(sourceInd, Evicted)' /\ Stopped'
        /\ destInd' = Len(dest')
    BY <2>1, <2>2 DEF Evicted, Parted, Reached, Stopped
  <2>4. LoopInv'
    BY <2>1, <2>2, <2>3 DEF LoopInv
  <2>5. TypeInv' /\ LevelsInv' /\ ComputesEviction'
    BY <2>1 DEF EvictInv, TypeInv, LevelsInv, Ordered, ComputesEviction
  <2> QED
    BY <2>4, <2>5 DEF EvictInv
<1>10. CASE TopUp
  BY <1>10, TopUpComputes
<1>11. CASE UNCHANGED vars
  BY <1>11 DEF vars, EvictInv, TypeInv, LevelsInv, Ordered, LoopInv, Parted, Reached,
               Evicted, Inside, Blocked, Stopped, ComputesEviction
<1> QED
  BY <1>3, <1>4, <1>5, <1>6, <1>7, <1>8, <1>9, <1>10, <1>11 DEF Next

\* The invariant holds in every behaviour of the loops.
LEMMA EvictInvariant == Spec => []EvictInv
<1>1. Init => EvictInv
  BY Init_EvictInv
<1>2. EvictInv /\ [Next]_vars => EvictInv'
  BY Next_EvictInv
<1> QED
  BY <1>1, <1>2, PTL DEF Spec

-----------------------------------------------------------------------------
(***************************************************************************)
(* The results.                                                            *)
(***************************************************************************)

\* Whatever the blocks of the two levels are, compactHelper evicts the first
\* EvictCount blocks of the overflowing level and keeps the others, both in
\* key order: what CapsuleDB.tla takes the loops to compute.
THEOREM EvictionComputed == Spec => []ComputesEviction
<1>1. EvictInv => ComputesEviction
  BY DEF EvictInv
<1> QED
  BY <1>1, EvictInvariant, PTL

\* The std::next of the top-up never runs past the end of remainingBlocks.
THEOREM TopUpStaysInBounds == Spec => []TopUpInBounds
<1>1. EvictInv => TopUpInBounds
  <2> SUFFICES ASSUME EvictInv, pc = "topUp"
               PROVE  Len(source) - Evicted <= Len(remainingBlocks)
    BY DEF TopUpInBounds, Evicted
  <2>1. Len(source) \in Nat /\ Len(dest) \in Nat /\ Evicted \in Nat
    BY StepFacts
  <2>2. Len(remainingBlocks) = Len(dest) - Evicted /\ Len(source) <= Len(dest)
    BY DEF EvictInv, LevelsInv, LoopInv, Parted
  <2> QED
    BY <2>1, <2>2
<1> QED
  BY <1>1, EvictInvariant, PTL
=============================================================================
