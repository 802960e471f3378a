---------------------------- MODULE OrderedClient ----------------------------
(***************************************************************************)
(* CapsuleDB with clients that take the timestamps of their puts from a    *)
(* clock, as the programs of src/src/test_files do.                        *)
(*                                                                         *)
(* With a clock that ticks between two puts of a key (OrderedSpec) a       *)
(* CapsuleDB is the map of KVStore.  With one that may stand still between *)
(* them (TiedSpec) - the clients of the repository round it to seconds -   *)
(* it is not: see CompactionPreservesReads.                                *)
(***************************************************************************)
EXTENDS CapsuleDB

\* addBlock and addKVPair take an empty key for "no key yet".
ASSUME NoEmptyKeyAssumption == EmptyKey \notin Keys

VARIABLE latest  \* the version of each key's latest put: what a get should return

\* The clock has moved on since every earlier put of the key.
Later(key, version) ==
  \A v \in Stored(key) : version.txn_timestamp > v.txn_timestamp

\* The clock has not gone back.
NotEarlier(key, version) ==
  \A v \in Stored(key) : version.txn_timestamp >= v.txn_timestamp

\* CapsuleDB::put, called by a client.
ClientPut(key, version) ==
  /\ put(key, version)
  /\ latest' = [latest EXCEPT ![key] = version]

OrderedInit == Init /\ latest = [key \in Keys |-> NotFound]

OrderedNext ==
  \/ \E key \in Keys, version \in Version :
       Later(key, version) /\ ClientPut(key, version)
  \/ Compaction /\ UNCHANGED latest

OrderedSpec == OrderedInit /\ [][OrderedNext]_<<vars, latest>>

FairOrderedSpec == OrderedSpec /\ Fairness

TiedNext ==
  \/ \E key \in Keys, version \in Version :
       NotEarlier(key, version) /\ ClientPut(key, version)
  \/ Compaction /\ UNCHANGED latest

TiedSpec == OrderedInit /\ [][TiedNext]_<<vars, latest>>

-----------------------------------------------------------------------------
(***************************************************************************)
(* Properties.                                                             *)
(***************************************************************************)

KV == INSTANCE KVStore WITH store <- [key \in Keys |-> get(key)]

\* CapsuleDB::get and CapsuleDB::put behave as a map: when a put has
\* returned, a get of its key answers with it and a get of any other key as
\* before; a write-out or a step of a compaction changes no answer.
ImplementsKVStore == KV!Spec

\* The answer of a get is the latest version stored: levels and memtable
\* shadow older versions of a key, which stay in lower levels.
NewestOnTop ==
  \A key \in Keys : \A v \in Stored(key) :
    v.txn_timestamp <= get(key).txn_timestamp

\* What merge says of two pairs with the same key, "push out the most recent
\* one and disregard the older one": a compaction leaves the answer to every
\* get as it was, but for the pair of the put it is part of, at its end.
CompactionPreservesReads ==
  [][pc # "idle" =>
       \A key \in Keys :
         get(key)' = IF pc' = "idle" /\ key = payload.key THEN payload.version
                                                          ELSE get(key)]_vars
=============================================================================
