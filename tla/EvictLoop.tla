------------------------------ MODULE EvictLoop ------------------------------
(***************************************************************************)
(* The loops with which CapsuleIndex::compactHelper (src/src/core/index.cc)*)
(* splits a level into the blocks it evicts and the blocks it keeps, one   *)
(* step per iteration, on every pair of a source and a destination level:  *)
(* they evict the first EvictCount blocks, as CapsuleDB.tla has it.        *)
(***************************************************************************)
EXTENDS CapsuleBlocks

CONSTANT MaxBlocks  \* bound on the blocks of the source and the destination

ASSUME MaxBlocksAssumption == MaxBlocks \in Nat

VARIABLES
  source,           \* sourceVec
  dest,             \* levels[destLevelInd].recordHashes
  sourceInd,        \* from 0
  destInd,          \* from 0
  newSourceVec,     \* the blocks to evict
  remainingBlocks,  \* the blocks to keep
  pc                \* "outer", "inner", "rest", "topUp" or "done"

vars == <<source, dest, sourceInd, destInd, newSourceVec, remainingBlocks, pc>>

\* A header with the given bounds; what its block holds does not matter here.
Header(lo, hi) == [minKey |-> lo, maxKey |-> hi, kvPairs |-> << >>]

\* The levels of n blocks, in key order and disjoint.
LevelsOf(n) ==
  {blocks \in [1 .. n -> {Header(lo, hi) : lo, hi \in Keys}] :
     /\ \A i \in 1 .. n : blocks[i].minKey <= blocks[i].maxKey
     /\ \A i \in 1 .. n - 1 : blocks[i].maxKey < blocks[i + 1].minKey}

\* compactHelper is called with a nonempty source that has no more blocks
\* than the level it overflows: EvictionInBounds of CapsuleDB.tla.
Init ==
  /\ \E n \in 1 .. MaxBlocks : \E m \in 1 .. n :
       source \in LevelsOf(m) /\ dest \in LevelsOf(n)
  /\ sourceInd = 0
  /\ destInd = 0
  /\ newSourceVec = << >>
  /\ remainingBlocks = << >>
  /\ pc = "outer"

SourceBlock == source[sourceInd + 1]
DestBlock == dest[destInd + 1]
MoreDest == destInd < Len(dest)
MoreBoth == sourceInd < Len(source) /\ MoreDest

\* Mutant of Keep: the block is dropped.
KeepDropped ==
  /\ destInd' = destInd + 1
  /\ UNCHANGED <<source, dest, sourceInd, newSourceVec, remainingBlocks, pc>>

\* The destination block stays in the level.
Keep ==
  /\ remainingBlocks' = Append(remainingBlocks, DestBlock)
  /\ destInd' = destInd + 1
  /\ UNCHANGED <<source, dest, sourceInd, newSourceVec, pc>>

\* The source block starts beyond the destination block.
Beyond == SourceBlock.minKey > DestBlock.minKey /\ SourceBlock.minKey > DestBlock.maxKey

EnterInner ==
  /\ pc = "outer"
  /\ MoreBoth
  /\ Beyond
  /\ pc' = "inner"
  /\ UNCHANGED <<source, dest, sourceInd, destInd, newSourceVec, remainingBlocks>>

KeepOverlapping ==
  /\ pc = "outer"
  /\ MoreBoth
  /\ ~Beyond
  /\ Keep

\* Mutant of EndsBefore: a block that ends with the source block goes too.
EndsBeforeOrWith == SourceBlock.maxKey >= DestBlock.maxKey

\* The inner loop evicts the blocks that end before the source block does.
EndsBefore == SourceBlock.maxKey > DestBlock.maxKey

Evict ==
  /\ pc = "inner"
  /\ MoreDest
  /\ EndsBefore
  /\ newSourceVec' = Append(newSourceVec, DestBlock)
  /\ destInd' = destInd + 1
  /\ UNCHANGED <<source, dest, sourceInd, remainingBlocks, pc>>

\* Mutant of LeaveInner: the inner loop waits for the end of the level.
LeaveInnerAtEnd ==
  /\ pc = "inner"
  /\ ~MoreDest
  /\ sourceInd' = sourceInd + 1
  /\ pc' = "outer"
  /\ UNCHANGED <<source, dest, destInd, newSourceVec, remainingBlocks>>

LeaveInner ==
  /\ pc = "inner"
  /\ ~(MoreDest /\ EndsBefore)
  /\ sourceInd' = sourceInd + 1
  /\ pc' = "outer"
  /\ UNCHANGED <<source, dest, destInd, newSourceVec, remainingBlocks>>

LeaveOuter ==
  /\ pc = "outer"
  /\ ~MoreBoth
  /\ pc' = "rest"
  /\ UNCHANGED <<source, dest, sourceInd, destInd, newSourceVec, remainingBlocks>>

\* The third loop keeps what is left of the destination.
KeepRest ==
  /\ pc = "rest"
  /\ MoreDest
  /\ Keep

LeaveRest ==
  /\ pc = "rest"
  /\ ~MoreDest
  /\ pc' = "topUp"
  /\ UNCHANGED <<source, dest, sourceInd, destInd, newSourceVec, remainingBlocks>>

\* compareHeaders, std::sort's order.
compareHeaders(one, two) == one.minKey < two.minKey

\* What std::sort may make of a list of headers: the same headers, none of
\* them after one that it precedes.
SortedHeaders(headers) ==
  {[i \in DOMAIN headers |-> headers[order[i]]] :
     order \in {p \in Bijection(DOMAIN headers, DOMAIN headers) :
                  \A i, j \in DOMAIN headers :
                    i < j => ~compareHeaders(headers[p[j]], headers[p[i]])}}

\* "Select additional blocks if not enough are evicted."
TopUp ==
  LET missing == Len(source) - Len(newSourceVec)
  IN  /\ pc = "topUp"
      /\ IF missing > 0
         THEN /\ newSourceVec' \in SortedHeaders(newSourceVec \o SubSeq(remainingBlocks, 1, missing))
              /\ remainingBlocks' = SubSeq(remainingBlocks, missing + 1, Len(remainingBlocks))
         ELSE UNCHANGED <<newSourceVec, remainingBlocks>>
      /\ pc' = "done"
      /\ UNCHANGED <<source, dest, sourceInd, destInd>>

Next ==
  \/ EnterInner \/ KeepOverlapping \/ Evict \/ LeaveInner \/ LeaveOuter
  \/ KeepRest \/ LeaveRest \/ TopUp

\* The loops run without waiting for anything.
Spec == Init /\ [][Next]_vars /\ WF_vars(Next)

-----------------------------------------------------------------------------
(***************************************************************************)
(* Properties.                                                             *)
(***************************************************************************)

\* compactHelper evicts the first EvictCount blocks of the level and keeps
\* the others, both in key order: with the top-up and its sort, whatever
\* the blocks of the source are, nothing is lost, doubled or out of place.
ComputesEviction ==
  pc = "done" =>
    LET n == EvictCount(source, dest)
    IN  newSourceVec = SubSeq(dest, 1, n) /\ remainingBlocks = SubSeq(dest, n + 1, Len(dest))

\* What std::next needs: when blocks are missing, enough are left.
TopUpInBounds ==
  pc = "topUp" => Len(source) - Len(newSourceVec) <= Len(remainingBlocks)

\* The selection ends: every iteration of its loops advances in one level.
SelectionReturns == <>(pc = "done")
=============================================================================
