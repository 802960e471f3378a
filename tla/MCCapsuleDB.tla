---------------------------- MODULE MCCapsuleDB ----------------------------
(***************************************************************************)
(* CapsuleDB on small instances: sets of keys for the configurations.      *)
(***************************************************************************)
EXTENDS CapsuleDB

KeysFromEmpty == 0 .. 2  \* the empty key among them; two timestamps each
ManyKeys == 1 .. 6       \* level 2 overflows into level 3
=============================================================================
