------------------------------- MODULE Capsule -------------------------------
(***************************************************************************)
(* The capsule store, src/src/core/fakeCapsule.cc: blocks in files named   *)
(* by their hash, written and read by one process at a time, which may end *)
(* at any point and be started again in the same directory.                *)
(*                                                                         *)
(* A process that ends loses its counter and every hash it holds (they are *)
(* in the index, in memory); the files stay.  The next process counts from *)
(* 0 again, so it gives out hashes that name files of the one before.      *)
(***************************************************************************)
EXTENDS CapsuleBlocks

CONSTANTS
  Levels,      \* the levels that blocks are written for
  MaxCounter,  \* bound: blocks that one process writes
  Untyped,     \* the values that are put without a txn_msgtype
  Torn,        \* the content of a file that is not completely written
  Throws       \* getCapsuleBlock does not return

ASSUME LevelsAssumption == 0 \in Levels
ASSUME MaxCounterAssumption == MaxCounter \in Nat

VARIABLES
  counter,  \* the global counter
  files,    \* the directory: hash to content
  index,    \* the hashes the process holds, and the block it wrote under each
  writing   \* the message being written to its file, or Torn

vars == <<counter, files, index, writing>>

\* The message of capsuleBlock.proto.
Message ==
  [counter : 0 .. MaxCounter, level : Levels,
   startKey : Keys \cup {EmptyKey}, endKey : Keys \cup {EmptyKey},
   kvPairs : PairMap(Keys)]

ASSUME TornAssumption == Torn \notin Message
ASSUME ThrowsAssumption == Throws \notin Block(Keys)

\* A pair has a zero byte if its key or txn_msgtype is empty, which is
\* written as its length, or if its timestamp is 0.
HasZero(key, version) ==
  key = EmptyKey \/ version.txn_timestamp = 0 \/ version.value \in Untyped

\* The pairs before the first zero byte of the list, and the one that has it
\* after its key.
HashedPairs(pairs) ==
  [key \in {k \in DOMAIN pairs \ {EmptyKey} :
              \A j \in DOMAIN pairs : j < k => ~HasZero(j, pairs[j])} |-> pairs[key]]

\* Mutant of Hash: the counter is left out.
HashUncounted(message) ==
  [message EXCEPT !.counter = 0, !.kvPairs = HashedPairs(@)]

\* sha256_string of a serialized message, which strlen ends at its first zero
\* byte.  The counter and the level are such a byte if they are 0, a bound if
\* it is ""; what comes after it does not count.  Values are taken not to be
\* empty, and the length of a pair, written before it, is left out.
Hash(message) ==
  LET m == message
  IN  [counter |-> m.counter,
       level |-> IF m.counter = 0 THEN 0 ELSE m.level,
       startKey |-> IF 0 \in {m.counter, m.level} THEN EmptyKey ELSE m.startKey,
       endKey |-> IF 0 \in {m.counter, m.level, m.startKey} THEN EmptyKey ELSE m.endKey,
       kvPairs |-> IF 0 \in {m.counter, m.level, m.startKey, m.endKey}
                     THEN << >> ELSE HashedPairs(m.kvPairs)]

\* A hash stands for the part of a message that it covers.
HashType == Message

TypeOK ==
  /\ counter \in 0 .. MaxCounter
  /\ files \in UNION {[hashes -> Message \cup {Torn}] : hashes \in SUBSET HashType}
  /\ index \in UNION {[hashes -> Block(Keys)] : hashes \in SUBSET HashType}
  /\ writing \in Message \cup {Torn}

Init ==
  /\ counter = 0
  /\ files = << >>
  /\ index = << >>
  /\ writing = Torn

\* putCapsuleBlock: the block is serialized with the next counter, hashed,
\* and its file opened, which empties a file of that name.
Open(level, block) ==
  LET message == [counter |-> counter, level |-> level, startKey |-> block.minKey,
                  endKey |-> block.maxKey, kvPairs |-> block.kvPairs]
  IN  /\ writing = Torn
      /\ counter < MaxCounter
      /\ counter' = counter + 1
      /\ files' = With(files, Hash(message), Torn)
      /\ writing' = message
      /\ UNCHANGED index

\* putCapsuleBlock: the file is written and closed, and the hash returned.
\* The code does not look at the result of close, which is taken to succeed.
Close ==
  /\ writing # Torn
  /\ files' = With(files, Hash(writing), writing)
  /\ index' = With(index, Hash(writing),
                   [minKey |-> writing.startKey, maxKey |-> writing.endKey,
                    kvPairs |-> writing.kvPairs])
  /\ writing' = Torn
  /\ UNCHANGED counter

\* A compaction replaces blocks, whose files stay.
Drop(hashes) ==
  /\ index' = [hash \in DOMAIN index \ hashes |-> index[hash]]
  /\ UNCHANGED <<counter, files, writing>>

\* Mutant of Restart: the index is recovered, the counter is not.
RestartRecovered ==
  /\ counter' = 0
  /\ writing' = Torn
  /\ UNCHANGED <<files, index>>

\* The process is stopped, or ends on an exception because a file could not
\* be written; spawnDB starts over.
Restart ==
  /\ counter' = 0
  /\ index' = << >>
  /\ writing' = Torn
  /\ UNCHANGED files

\* The pairs of a block: a full memtable, or what merge puts into one block.
Contents ==
  {pairs \in PairMap(Keys) : Cardinality(DOMAIN pairs) \in 1 .. BlockSize}

\* The blocks the database writes: a memtable to level 0, merged blocks to
\* every level, level 0 included.
Next ==
  \/ \E pairs \in Contents :
       \/ Open(0, MemtableBlock(pairs))
       \/ \E level \in Levels : Open(level, MergedBlock(pairs))
  \/ Close
  \/ \E hash \in DOMAIN index : Drop({hash})
  \/ Restart

Spec == Init /\ [][Next]_vars

\* getCapsuleBlock: a missing or unreadable file and a hash that does not
\* match throw.  A file cut off between two fields might be read, and have the
\* right hash up to a zero byte; but only a process that has ended leaves one,
\* and no hash that is held names it.  The block is rebuilt with setMinKey,
\* setMaxKey and an addKVPair for every pair, which moves a lower bound of "".
getCapsuleBlock(hash) ==
  LET message == files[hash]
  IN  IF hash \notin DOMAIN files \/ files[hash] = Torn THEN Throws
      ELSE IF Hash(message) # hash THEN Throws
      ELSE [minKey |-> IF message.startKey = EmptyKey
                         THEN StartKey(DOMAIN message.kvPairs) ELSE message.startKey,
            maxKey |-> message.endKey,
            kvPairs |-> message.kvPairs]

-----------------------------------------------------------------------------
(***************************************************************************)
(* Properties.                                                             *)
(***************************************************************************)

\* Every hash the process holds reads back the block it was returned for,
\* and never throws "possible tampering": not while another block is
\* written, and not because an earlier process left files of the same names,
\* complete or torn.  The bounds may differ where the lower one is "".
ReadsBack ==
  \A hash \in DOMAIN index :
    LET block == getCapsuleBlock(hash)
    IN  /\ block # Throws
        /\ block.kvPairs = index[hash].kvPairs
        /\ block.maxKey = index[hash].maxKey
        /\ index[hash].minKey # EmptyKey => block.minKey = index[hash].minKey

\* The pairs that a hash reads back.
PairsRead(hash) ==
  IF getCapsuleBlock(hash) = Throws THEN Throws ELSE getCapsuleBlock(hash).kvPairs

Store == INSTANCE BlockStore WITH
  Names <- HashType,
  content <- [hash \in DOMAIN index |-> PairsRead(hash)]

\* The capsule is a store of blocks that never change, which is what the
\* other modules take it for when a blockHeader carries its pairs.
ImplementsBlockStore == Store!Spec
=============================================================================
