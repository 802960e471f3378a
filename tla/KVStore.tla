------------------------------- MODULE KVStore -------------------------------
(***************************************************************************)
(* What CapsuleDB promises a client whose timestamps grow: a map from keys *)
(* to versions.  A put shows to the gets of its own key and no other, at   *)
(* once and as a whole, when it is called or when it returns; no put is    *)
(* called before the one in progress has returned.  Memtable, blocks,      *)
(* levels and compactions do not show.                                     *)
(***************************************************************************)
EXTENDS Integers

CONSTANTS Keys, Version, NotFound

VARIABLES
  latest,  \* the version of each key's latest put
  store    \* the answer to a get of each key

TypeOK ==
  /\ latest \in [Keys -> Version \cup {NotFound}]
  /\ store \in [Keys -> Version \cup {NotFound}]

Init ==
  /\ latest = [key \in Keys |-> NotFound]
  /\ store = latest

\* A put newer than the earlier ones of its key is called, and may return.
Put(key, version) ==
  /\ store = latest
  /\ latest[key] # NotFound => version.txn_timestamp > latest[key].txn_timestamp
  /\ latest' = [latest EXCEPT ![key] = version]
  /\ store' \in {store, latest'}

\* The put in progress returns.
Return ==
  /\ store # latest
  /\ store' = latest
  /\ UNCHANGED latest

Next ==
  \/ \E key \in Keys, version \in Version : Put(key, version)
  \/ Return

Spec == Init /\ [][Next]_<<latest, store>>
=============================================================================
