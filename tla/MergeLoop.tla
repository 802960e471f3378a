------------------------------ MODULE MergeLoop ------------------------------
(***************************************************************************)
(* The loop of CapsuleIndex::merge (src/src/core/index.cc), one step per   *)
(* iteration, on every pair of sorted block lists: it computes the         *)
(* operator merge that the rest of the project uses for it.                *)
(***************************************************************************)
EXTENDS CapsuleBlocks

VARIABLES
  a, b,        \* the two lists of blocks
  aa, bb,      \* which block of each comes next, from 0
  aaa, bbb,    \* which pair of that block comes next, from 0
  next_cb,     \* the block that is being filled
  output,      \* the blocks written out
  done         \* the function has returned

vars == <<a, b, aa, bb, aaa, bbb, next_cb, output, done>>

\* A map cut into blocks, each starting at one of the given keys.
Split(pairs, starts) ==
  LET Nth(key) == Cardinality({s \in starts : s <= key})
  IN  [i \in 1 .. Cardinality(starts) |->
         MergedBlock([key \in {k \in DOMAIN pairs : Nth(k) = i} |-> pairs[key]])]

\* The lists merge is called with: in key order, with blocks of 1 to
\* BlockSize pairs, none of them necessarily full.
BlockLists ==
  {blocks \in
     UNION {{Split(pairs, {Min(DOMAIN pairs)} \cup starts) :
               starts \in SUBSET DOMAIN pairs} :
            pairs \in UNION {[ks -> Version] : ks \in (SUBSET Keys) \ {{}}}} :
     \A i \in DOMAIN blocks : Cardinality(DOMAIN blocks[i].kvPairs) <= BlockSize}

\* CapsuleBlock(next_level).
EmptyBlock == [minKey |-> EmptyKey, maxKey |-> EmptyKey, kvPairs |-> << >>]

\* CapsuleBlock::addKVPair: startKey and endKey count as unset while "".
addKVPair(block, key, version) ==
  LET Old(bound) == IF bound = EmptyKey THEN key ELSE bound
  IN  [minKey |-> Min({Old(block.minKey), key}),
       maxKey |-> Max({Old(block.maxKey), key}),
       kvPairs |-> [k \in DOMAIN block.kvPairs \cup {key} |->
                      IF k = key THEN version ELSE block.kvPairs[k]]]

\* b may be empty; a never is.
Init ==
  /\ a \in BlockLists
  /\ b \in BlockLists \cup {<< >>}
  /\ aa = 0 /\ bb = 0 /\ aaa = 0 /\ bbb = 0
  /\ next_cb = EmptyBlock
  /\ output = << >>
  /\ done = FALSE

\* getKVPairs()[i] of a block.
PairAt(block, i) ==
  LET keys == DOMAIN block.kvPairs
      key == CHOOSE k \in keys : Rank(keys)[k] = i
  IN  [key |-> key, version |-> block.kvPairs[key]]

PairA == PairAt(a[aa + 1], aaa)
PairB == PairAt(b[bb + 1], bbb)

\* Advancing past a pair moves to the next block when its block is exhausted.
LastOf(block, i) == i + 1 = Cardinality(DOMAIN block.kvPairs)

\* Mutant of AdvanceA: the index into the block is not reset.
AdvanceAUnreset ==
  IF LastOf(a[aa + 1], aaa) THEN aa' = aa + 1 /\ aaa' = aaa + 1
                            ELSE aa' = aa /\ aaa' = aaa + 1

AdvanceA ==
  IF LastOf(a[aa + 1], aaa) THEN aa' = aa + 1 /\ aaa' = 0
                            ELSE aa' = aa /\ aaa' = aaa + 1
\* Mutant of AdvanceB: it never advances.
AdvanceBStuck == bb' = bb /\ bbb' = bbb

AdvanceB ==
  IF LastOf(b[bb + 1], bbb) THEN bb' = bb + 1 /\ bbb' = 0
                            ELSE bb' = bb /\ bbb' = bbb + 1

\* Mutant of Recent: a's version on a tie.
RecentA(pairA, pairB) ==
  IF pairB.version.txn_timestamp > pairA.version.txn_timestamp THEN pairB ELSE pairA

\* The more recent of two pairs with the same key, b's on a tie.
Recent(pairA, pairB) ==
  IF pairB.version.txn_timestamp >= pairA.version.txn_timestamp THEN pairB ELSE pairA

\* The end of an iteration: addKVPair, and writeOut if the block is full.
Push(pair) ==
  LET cb == addKVPair(next_cb, pair.key, pair.version)
  IN  IF Cardinality(DOMAIN cb.kvPairs) = BlockSize
      THEN output' = Append(output, cb) /\ next_cb' = EmptyBlock
      ELSE next_cb' = cb /\ UNCHANGED output

MoreA == aa < Len(a)
MoreB == bb < Len(b)

\* The next pair comes from a: b is used up or has a larger key.
TakeA ==
  /\ MoreA
  /\ MoreB => PairA.key < PairB.key
  /\ Push(PairA)
  /\ AdvanceA
  /\ UNCHANGED <<a, b, bb, bbb, done>>

\* The next pair comes from b: a is used up or has a larger key.
TakeB ==
  /\ MoreB
  /\ MoreA => PairB.key < PairA.key
  /\ Push(PairB)
  /\ AdvanceB
  /\ UNCHANGED <<a, b, aa, aaa, done>>

\* Both have the key: one of the two pairs is dropped.
TakeBoth ==
  /\ MoreA /\ MoreB
  /\ PairA.key = PairB.key
  /\ Push(Recent(PairA, PairB))
  /\ AdvanceA
  /\ AdvanceB
  /\ UNCHANGED <<a, b, done>>

\* After the loop: the final block is written out even if it is not full.
Finish ==
  /\ ~done
  /\ ~MoreA /\ ~MoreB
  /\ output' = IF next_cb = EmptyBlock THEN output ELSE Append(output, next_cb)
  /\ done' = TRUE
  /\ UNCHANGED <<a, b, aa, bb, aaa, bbb, next_cb>>

Next == TakeA \/ TakeB \/ TakeBoth \/ Finish

\* The loop runs without waiting for anything.
Spec == Init /\ [][Next]_vars /\ WF_vars(Next)

-----------------------------------------------------------------------------
(***************************************************************************)
(* Properties.                                                             *)
(***************************************************************************)

\* The two-pointer loop returns all keys of both lists in order, each with
\* the version that Survivor says, in full blocks but for the last.
ComputesMerge == done => output = merge(a, b)

\* The indices that merge uses without a bounds check stay within their
\* lists: a[aa] and getKVPairs()[aaa], b[bb] and getKVPairs()[bbb].
PointersInBounds ==
  /\ aa <= Len(a) /\ (MoreA => aaa < Cardinality(DOMAIN a[aa + 1].kvPairs))
  /\ bb <= Len(b) /\ (MoreB => bbb < Cardinality(DOMAIN b[bb + 1].kvPairs))

\* merge returns: every iteration advances in at least one of the lists.
MergeReturns == <>done
=============================================================================
