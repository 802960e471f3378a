-------------------------- MODULE MCOrderedClient --------------------------
(***************************************************************************)
(* OrderedClient on small instances.                                       *)
(***************************************************************************)
EXTENDS OrderedClient

MCKeys == 1 .. 4     \* every key twice reaches level 2
TiedKeys == 1 .. 2   \* enough for two versions of a key to meet in a merge
=============================================================================
