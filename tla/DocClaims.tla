------------------------------ MODULE DocClaims ------------------------------
(***************************************************************************)
(* What a comment of the core says of it and its code does not do: the     *)
(* property is violated, and the run that checks it shows how.             *)
(***************************************************************************)
EXTENDS CapsuleDB

\* CapsuleDB::get: "Output: The requested value or an error if the key does
\* not exist."  A stored empty key should be found as any other; addKVPair
\* forgets it as the lower bound of a merged block, and getBlock then passes
\* the block over.
EmptyKeyFound ==
  pc = "idle" /\ EmptyKey \in Keys /\ Stored(EmptyKey) # {} => get(EmptyKey) # NotFound
=============================================================================
