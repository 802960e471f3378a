---------------------------- MODULE MemtableLocks ----------------------------
(***************************************************************************)
(* Memtable::put and Memtable::get (src/src/core/memtable.cc) called by    *)
(* several threads at once, which is what the lock per key is for.         *)
(*                                                                         *)
(* A step is one access to memtable, to locklst or to a lock.  The code    *)
(* has no lock for the two maps themselves, so that the real accesses are  *)
(* not even atomic; what fails here fails all the more there.              *)
(***************************************************************************)
EXTENDS CapsuleBlocks

CONSTANTS
  Callers,  \* the threads
  Locks,    \* the addresses of mutexes
  NoOne     \* stands for the holder of a free mutex

ASSUME PayloadAssumption == Payload # {}
ASSUME CallersAssumption == IsFiniteSet(Callers) /\ NoOne \notin Callers
ASSUME LocksAssumption ==
  IsFiniteSet(Locks) => Cardinality(Locks) >= Cardinality(Keys) + Cardinality(Callers)

VARIABLES
  memtable,  \* Memtable::memtable
  locklst,   \* Memtable::locklst
  holder,    \* which caller holds each mutex
  pc,        \* where each caller stands
  payload,   \* the payload it puts, or the key it gets
  lock       \* its local variable of that name

maps == <<memtable, locklst>>
locals == <<payload, lock>>
vars == <<maps, holder, pc, locals>>

\* A caller at one of these waits for its lock.
Waiting == {"lock", "lockNew", "lockRead"}

\* A caller at one of these holds its lock.
Critical == {"compare", "update", "insert", "read", "unlock"}

\* The statements of put and get, between calls, and after a failure.
Places ==
  Waiting \cup Critical \cup
    {"idle", "full", "writeOut", "clear", "clearLocks", "newLock", "at", "failed"}

TypeOK ==
  /\ memtable \in PairMap(Keys)
  /\ locklst \in UNION {[ks -> Locks] : ks \in SUBSET Keys}
  /\ holder \in [Locks -> Callers \cup {NoOne}]
  /\ pc \in [Callers -> Places]
  /\ payload \in [Callers -> Payload]
  /\ lock \in [Callers -> Locks]

Init ==
  /\ memtable = << >>
  /\ locklst = << >>
  /\ holder = [l \in Locks |-> NoOne]
  /\ pc = [c \in Callers |-> "idle"]
  /\ payload \in [Callers -> {CHOOSE p \in Payload : TRUE}]
  /\ lock \in [Callers -> {CHOOSE l \in Locks : TRUE}]

\* A caller goes from one statement to the next.  An uncaught exception and
\* the dereference of an invalid iterator end the program.
Goto(c, from, to) ==
  /\ \A d \in Callers : pc[d] # "failed"
  /\ pc[c] = from
  /\ pc' = [pc EXCEPT ![c] = to]

Key(c) == payload[c].key

\* Mutexes that locklst or a caller can still reach.
Reachable ==
  {locklst[key] : key \in DOMAIN locklst} \cup
  {lock[c] : c \in {d \in Callers : pc[d] \in Waiting \cup Critical}}

-----------------------------------------------------------------------------
(***************************************************************************)
(* The mutexes.                                                            *)
(***************************************************************************)

Acquire(c, from, to) ==
  /\ Goto(c, from, to)
  /\ holder[lock[c]] = NoOne
  /\ holder' = [holder EXCEPT ![lock[c]] = c]
  /\ UNCHANGED <<maps, locals>>

\* Mutant of Release: the early return keeps the lock.
ReleaseForgotten(c) ==
  /\ Goto(c, "unlock", "idle")
  /\ UNCHANGED <<maps, holder, locals>>

\* unlock, and the call returns.
Release(c) ==
  /\ Goto(c, "unlock", "idle")
  /\ holder' = [holder EXCEPT ![lock[c]] = NoOne]
  /\ UNCHANGED <<maps, locals>>

(***************************************************************************)
(* Memtable::put.                                                          *)
(***************************************************************************)

\* The call, and locklst.find: a key with a lock is to be updated.
FindPut(c, p) ==
  /\ Goto(c, "idle", IF p.key \in DOMAIN locklst THEN "lock" ELSE "full")
  /\ payload' = [payload EXCEPT ![c] = p]
  /\ lock' = IF p.key \in DOMAIN locklst
               THEN [lock EXCEPT ![c] = locklst[p.key]] ELSE lock
  /\ UNCHANGED <<maps, holder>>

\* memtable.find, whose result is not compared with end, and the comparison
\* of the timestamps.
Compare(c) ==
  /\ Goto(c, "compare",
       IF Key(c) \notin DOMAIN memtable THEN "failed"
       ELSE IF payload[c].version.txn_timestamp <= memtable[Key(c)].txn_timestamp
       THEN "unlock" ELSE "update")
  /\ UNCHANGED <<maps, holder, locals>>

\* memtable[key] = *payload, which inserts a key that is not there.
Insert(c, from) ==
  /\ Goto(c, from, "unlock")
  /\ memtable' = With(memtable, Key(c), payload[c].version)
  /\ UNCHANGED <<locklst, holder, locals>>

\* Mutant of IsFull: one pair too many.
IsOverfull == Cardinality(DOMAIN memtable) > BlockSize

IsFull == Cardinality(DOMAIN memtable) >= BlockSize

\* write_out_if_full: the test of the size.
TestFull(c) ==
  /\ Goto(c, "full", IF IsFull THEN "writeOut" ELSE "newLock")
  /\ UNCHANGED <<maps, holder, locals>>

\* write_out_if_full: memtable.begin() is dereferenced, the block written
\* and its hash added to the index.
WriteOut(c) ==
  /\ Goto(c, "writeOut", IF memtable = << >> THEN "failed" ELSE "clear")
  /\ UNCHANGED <<maps, holder, locals>>

\* memtable = {}.
Clear(c) ==
  /\ Goto(c, "clear", "clearLocks")
  /\ memtable' = << >>
  /\ UNCHANGED <<locklst, holder, locals>>

\* locklst = {}.  The mutexes are not freed.
ClearLocks(c) ==
  /\ Goto(c, "clearLocks", "newLock")
  /\ locklst' = << >>
  /\ UNCHANGED <<memtable, holder, locals>>

\* Mutant of NewLock: the lock of another key serves for this one too.
NewLockShared(c) ==
  /\ Goto(c, "newLock", "lockNew")
  /\ lock' = [lock EXCEPT ![c] = CHOOSE l \in Locks : TRUE]
  /\ locklst' = With(locklst, Key(c), lock'[c])
  /\ UNCHANGED <<memtable, holder, payload>>

\* A new mutex, at an address that is free, goes into locklst, in place of
\* one that another caller may have put there since this one looked.
NewLock(c) ==
  /\ Goto(c, "newLock", "lockNew")
  /\ lock' = [lock EXCEPT ![c] = CHOOSE l \in Locks : l \notin Reachable]
  /\ locklst' = With(locklst, Key(c), lock'[c])
  /\ UNCHANGED <<memtable, holder, payload>>

(***************************************************************************)
(* Memtable::get.                                                          *)
(***************************************************************************)

\* The call, and locklst.find: the key of a miss is not looked at again.
FindGet(c, p) ==
  /\ p.key \in DOMAIN locklst
  /\ Goto(c, "idle", "at")
  /\ payload' = [payload EXCEPT ![c] = p]
  /\ UNCHANGED <<maps, holder, lock>>

\* locklst.at, which throws if the key has gone.
At(c) ==
  /\ Goto(c, "at", IF Key(c) \in DOMAIN locklst THEN "lockRead" ELSE "failed")
  /\ lock' = IF Key(c) \in DOMAIN locklst
               THEN [lock EXCEPT ![c] = locklst[Key(c)]] ELSE lock
  /\ UNCHANGED <<maps, holder, payload>>

\* memtable.at, which throws if the key has gone, with the lock held.
Read(c) ==
  /\ Goto(c, "read", IF Key(c) \in DOMAIN memtable THEN "unlock" ELSE "failed")
  /\ UNCHANGED <<maps, holder, locals>>

Next ==
  \E c \in Callers :
    \/ \E p \in Payload : FindPut(c, p) \/ FindGet(c, p)
    \/ Acquire(c, "lock", "compare")
    \/ Compare(c)
    \/ Insert(c, "update")
    \/ TestFull(c)
    \/ WriteOut(c)
    \/ Clear(c)
    \/ ClearLocks(c)
    \/ NewLock(c)
    \/ Acquire(c, "lockNew", "insert")
    \/ Insert(c, "insert")
    \/ At(c)
    \/ Acquire(c, "lockRead", "read")
    \/ Read(c)
    \/ Release(c)

Spec == Init /\ [][Next]_vars

-----------------------------------------------------------------------------
(***************************************************************************)
(* Properties.                                                             *)
(***************************************************************************)

\* Callers that test the size at the same time all find room: the memtable,
\* and the block it is written out to, may outgrow max_size, but by no more
\* than one pair for every caller but one.
SizeBound ==
  Cardinality(DOMAIN memtable) <= BlockSize + Cardinality(Callers) - 1

\* A mutex is held by a caller that is about to release it, on every path
\* through put and get, through replaced and forgotten locks.  So no caller
\* waits for one that waits itself: there is no deadlock.
HeldIsReleased ==
  \A l \in Locks : holder[l] # NoOne =>
    /\ lock[holder[l]] = l
    /\ pc[holder[l]] \in Critical \cup {"failed"}

\* "concurrent reads and writes on different key values should not stall":
\* who waits for a lock waits for a caller with the same key.
WaitsOnSameKey ==
  \A c \in Callers :
    LET other == holder[lock[c]]
    IN  pc[c] \in Waiting /\ other # NoOne =>
          Key(other) = Key(c)

\* "No need to check prev_iter with end since locklst and memtable keys are
\* synchronized": not when another caller has added the lock but not the
\* pair, or has written the memtable out.
PrevIterValid ==
  \A c \in Callers : pc[c] = "compare" => Key(c) \in DOMAIN memtable
=============================================================================
