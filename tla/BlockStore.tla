----------------------------- MODULE BlockStore -----------------------------
(***************************************************************************)
(* What the rest of CapsuleDB takes the capsule for: a store of blocks     *)
(* that never change.  A write gives a name that is not in use; the name   *)
(* reads back the same block for as long as the process holds it, and no   *)
(* process holds a name given to an earlier one.                           *)
(***************************************************************************)
CONSTANTS Names, Contents

VARIABLE content  \* what each name held by the process reads back

TypeOK == content \in UNION {[names -> Contents] : names \in SUBSET Names}

Init == content = << >>

Write(name, pairs) ==
  /\ name \notin DOMAIN content
  /\ content' = [n \in DOMAIN content \cup {name} |->
                   IF n = name THEN pairs ELSE content[n]]

\* The process keeps some of the names, or starts again with none.
Keep(names) == content' = [n \in names |-> content[n]]

Next ==
  \/ \E name \in Names, pairs \in Contents : Write(name, pairs)
  \/ \E names \in SUBSET DOMAIN content : Keep(names)

Spec == Init /\ [][Next]_content
=============================================================================
