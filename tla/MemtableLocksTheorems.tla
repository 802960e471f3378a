------------------------ MODULE MemtableLocksTheorems ------------------------
(***************************************************************************)
(* What the locks of the memtable do ensure, for any number of callers,    *)
(* keys and locks: every lock held is about to be released, nobody waits   *)
(* for a caller with another key, and the memtable outgrows its size by    *)
(* less than the number of callers.                                        *)
(***************************************************************************)
EXTENDS MemtableLocks, CapsuleBlocksTheorems

\* A caller that has its lock, or waits for it.
Uses(c) == pc[c] \in Waiting \cup Critical

\* Two callers that use one lock have the same key, the key under which the
\* lock is in locklst, if it still is; and no lock is there twice.
LockInv ==
  /\ \A c, d \in Callers : Uses(c) /\ Uses(d) /\ lock[c] = lock[d] => Key(c) = Key(d)
  /\ \A c \in Callers, key \in DOMAIN locklst :
       Uses(c) /\ lock[c] = locklst[key] => Key(c) = key
  /\ \A k1, k2 \in DOMAIN locklst : locklst[k1] = locklst[k2] => k1 = k2

\* The callers that may still add a pair without testing the size again.
Pending ==
  {c \in Callers : \/ pc[c] \in {"clearLocks", "newLock", "lockNew", "insert"}
                   \/ pc[c] = "update" /\ Key(c) \notin DOMAIN memtable}

\* Each of them has its room.
CountInv ==
  Cardinality(DOMAIN memtable) + Cardinality(Pending)
    <= BlockSize + Cardinality(Callers) - 1

IInv ==
  /\ TypeOK
  /\ HeldIsReleased
  /\ LockInv
  /\ WaitsOnSameKey
  /\ CountInv

-----------------------------------------------------------------------------
\* NewLock always finds an address: locklst and the other callers reach
\* fewer than there are.
LEMMA FreeLock ==
  ASSUME TypeOK, NEW c \in Callers, ~ Uses(c)
  PROVE  \E l \in Locks : l \notin Reachable
<1> DEFINE Users == {d \in Callers : pc[d] \in Waiting \cup Critical}
           Listed == {locklst[key] : key \in DOMAIN locklst}
           Used == {lock[d] : d \in Users}
           Name == [key \in DOMAIN locklst |-> locklst[key]]
           Hold == [d \in Users |-> lock[d]]
<1>1. IsFiniteSet(DOMAIN locklst) /\ Cardinality(DOMAIN locklst) <= Cardinality(Keys)
      /\ Cardinality(DOMAIN locklst) \in Nat /\ Cardinality(Keys) \in Nat
  <2>1. DOMAIN locklst \in SUBSET Keys
    BY DEF TypeOK
  <2> QED
    BY <2>1, KeysAssumption, FS_Subset, FS_CardinalityType
<1>2. IsFiniteSet(Users) /\ Cardinality(Users) < Cardinality(Callers)
      /\ Cardinality(Users) \in Nat /\ Cardinality(Callers) \in Nat
  <2>1. Users \in SUBSET Callers /\ c \notin Users
    BY DEF Uses
  <2>2. /\ IsFiniteSet(Users)
        /\ Cardinality(Users) <= Cardinality(Callers)
        /\ Cardinality(Callers) = Cardinality(Users) => Callers = Users
        /\ Cardinality(Users) \in Nat /\ Cardinality(Callers) \in Nat
    <3> HIDE DEF Users
    <3> QED
      BY <2>1, CallersAssumption, FS_Subset, FS_CardinalityType
  <2>3. Callers # Users
    BY <2>1
  <2> HIDE DEF Users
  <2> QED
    BY <2>2, <2>3
<1>3. IsFiniteSet(Listed) /\ Cardinality(Listed) <= Cardinality(DOMAIN locklst)
  <2>1. Name \in Surjection(DOMAIN locklst, Listed)
    BY DEF Surjection
  <2> HIDE DEF Name, Listed
  <2> QED
    BY <1>1, <2>1, FS_Surjection, Zenon
<1>4. IsFiniteSet(Used) /\ Cardinality(Used) <= Cardinality(Users)
  <2>1. Hold \in Surjection(Users, Used)
    BY DEF Surjection
  <2> HIDE DEF Hold, Used, Users
  <2> QED
    BY <1>2, <2>1, FS_Surjection, Zenon
<1>5. Reachable = Listed \cup Used
  BY DEF Reachable
<1>6. IsFiniteSet(Reachable) /\ Cardinality(Reachable) <= Cardinality(Listed) + Cardinality(Used)
      /\ Cardinality(Reachable) \in Nat /\ Cardinality(Listed) \in Nat
      /\ Cardinality(Used) \in Nat
  <2> HIDE DEF Listed, Used
  <2>1. /\ IsFiniteSet(Listed \cup Used)
        /\ Cardinality(Listed \cup Used) = Cardinality(Listed) + Cardinality(Used)
                                           - Cardinality(Listed \cap Used)
    BY <1>3, <1>4, FS_Union
  <2>2. IsFiniteSet(Listed \cap Used)
    BY <1>3, FS_Intersection
  <2>3. Cardinality(Listed \cup Used) \in Nat /\ Cardinality(Listed) \in Nat
        /\ Cardinality(Used) \in Nat /\ Cardinality(Listed \cap Used) \in Nat
    BY <1>3, <1>4, <2>1, <2>2, FS_CardinalityType
  <2> QED
    BY <1>5, <2>1, <2>3
<1>7. SUFFICES ASSUME Locks \subseteq Reachable
               PROVE  FALSE
  OBVIOUS
<1>8. IsFiniteSet(Locks) /\ Cardinality(Locks) <= Cardinality(Reachable)
      /\ Cardinality(Locks) \in Nat
  BY <1>6, <1>7, FS_Subset, FS_CardinalityType
<1>9. Cardinality(Locks) >= Cardinality(Keys) + Cardinality(Callers)
  BY <1>8, LocksAssumption
<1> HIDE DEF Listed, Used, Users
<1> QED
  BY <1>1, <1>2, <1>3, <1>4, <1>6, <1>8, <1>9
-----------------------------------------------------------------------------
(***************************************************************************)
(* The types.                                                              *)
(***************************************************************************)

\* TypeOK holds initially.
LEMMA TypeInit == Init => TypeOK
<1> SUFFICES ASSUME Init
             PROVE  TypeOK
  OBVIOUS
<1>1. memtable \in PairMap(Keys)
  BY EmptyMap DEF Init, PairMap
<1>2. locklst \in UNION {[ks -> Locks] : ks \in SUBSET Keys}
  <2>1. locklst = << >>
    BY DEF Init
  <2>2. << >> \in UNION {[ks -> Locks] : ks \in SUBSET Keys}
    BY EmptyMap
  <2> QED
    BY <2>1, <2>2
<1>3. (CHOOSE p \in Payload : TRUE) \in Payload
  BY PayloadAssumption
<1>4. Locks # {}
  <2> SUFFICES ASSUME Locks = {}
               PROVE  FALSE
    OBVIOUS
  <2>1. Keys # {}
    BY PayloadAssumption DEF Payload
  <2>2. Cardinality(Keys) \in Nat /\ Cardinality(Keys) # 0 /\ Cardinality(Callers) \in Nat
    BY <2>1, KeysAssumption, CallersAssumption, FS_EmptySet, FS_CardinalityType
  <2>3. IsFiniteSet(Locks) /\ Cardinality(Locks) = 0
    BY FS_EmptySet
  <2> QED
    BY <2>2, <2>3, LocksAssumption
<1>5. (CHOOSE l \in Locks : TRUE) \in Locks
  BY <1>4
<1>6. holder \in [Locks -> Callers \cup {NoOne}]
      /\ pc \in [Callers -> Places]
  BY DEF Init, Places
<1>7. payload \in [Callers -> Payload] /\ lock \in [Callers -> Locks]
  BY <1>3, <1>5 DEF Init
<1> QED
  BY <1>1, <1>2, <1>6, <1>7 DEF TypeOK

\* What Goto does to pc.
LEMMA GotoFacts ==
  ASSUME TypeOK, NEW c \in Callers, NEW from, NEW to \in Places, Goto(c, from, to)
  PROVE  /\ pc' \in [Callers -> Places]
         /\ pc[c] = from /\ pc'[c] = to
         /\ \A d \in Callers : d # c => pc'[d] = pc[d]
         /\ \A d \in Callers : pc[d] # "failed"
BY DEF TypeOK, Goto

\* A mutex taken or released.
LEMMA HolderFacts ==
  ASSUME TypeOK, NEW l \in Locks, NEW who \in Callers \cup {NoOne},
         holder' = [holder EXCEPT ![l] = who]
  PROVE  /\ holder' \in [Locks -> Callers \cup {NoOne}]
         /\ holder'[l] = who
         /\ \A k \in Locks : k # l => holder'[k] = holder[k]
BY DEF TypeOK

\* A new value in a local variable.
LEMMA LocalFacts ==
  ASSUME NEW T, NEW f \in [Callers -> T], NEW c \in Callers, NEW v \in T
  PROVE  /\ [f EXCEPT ![c] = v] \in [Callers -> T]
         /\ [f EXCEPT ![c] = v][c] = v
         /\ \A d \in Callers : d # c => [f EXCEPT ![c] = v][d] = f[d]
OBVIOUS
\* The steps of a caller.
Step(c) ==
  \/ \E p \in Payload : FindPut(c, p) \/ FindGet(c, p)
  \/ Acquire(c, "lock", "compare") \/ Acquire(c, "lockNew", "insert")
  \/ Acquire(c, "lockRead", "read")
  \/ Compare(c) \/ Insert(c, "update") \/ Insert(c, "insert")
  \/ TestFull(c) \/ WriteOut(c) \/ Clear(c) \/ ClearLocks(c) \/ NewLock(c)
  \/ At(c) \/ Read(c) \/ Release(c)

\* Every step is one of some caller.
LEMMA NextIsStep == Next => \E c \in Callers : Step(c)
BY DEF Next, Step

\* Which step goes where.
LEMMA StepPlaces ==
  ASSUME TypeOK, NEW c \in Callers, Step(c)
  PROVE  \E from, to \in Places : Goto(c, from, to)
BY DEF Step, FindPut, FindGet, Acquire, Compare, Insert, TestFull, WriteOut, Clear,
       ClearLocks, NewLock, At, Read, Release, Places, Waiting, Critical

\* TypeOK is preserved.
LEMMA TypeStep ==
  ASSUME TypeOK, NEW c \in Callers, Step(c)
  PROVE  TypeOK'
<1>1. pc' \in [Callers -> Places]
  BY StepPlaces, GotoFacts
<1>2. CASE \E p \in Payload : FindPut(c, p)
  <2>1. PICK p \in Payload : FindPut(c, p)
    BY <1>2
  <2>2. p.key \in DOMAIN locklst => locklst[p.key] \in Locks
    BY DEF TypeOK
  <2>3. payload' \in [Callers -> Payload] /\ lock' \in [Callers -> Locks]
    BY <2>1, <2>2 DEF TypeOK, FindPut
  <2> QED
    BY <1>1, <2>1, <2>3 DEF TypeOK, FindPut, maps
<1>3. CASE \E p \in Payload : FindGet(c, p)
  BY <1>1, <1>3 DEF TypeOK, FindGet, maps
<1>4. ASSUME NEW from, NEW to, Acquire(c, from, to)
      PROVE  TypeOK'
  BY <1>1, <1>4 DEF TypeOK, Acquire, maps, locals
<1>5. ASSUME NEW from, Insert(c, from)
      PROVE  TypeOK'
  <2>1. Key(c) \in Keys /\ payload[c].version \in Version
    BY DEF TypeOK, Key, Payload
  <2>2. memtable' \in PairMap(Keys)
    BY <1>5, <2>1, PairMapWith DEF TypeOK, Insert
  <2> QED
    BY <1>1, <1>5, <2>2 DEF TypeOK, Insert, locals
<1>6. CASE Compare(c) \/ TestFull(c) \/ WriteOut(c) \/ Read(c)
  BY <1>1, <1>6 DEF TypeOK, Compare, TestFull, WriteOut, Read, maps, locals
<1>7. CASE Clear(c)
  <2>1. memtable' \in PairMap(Keys)
    BY <1>7, EmptyMap DEF Clear, PairMap
  <2> QED
    BY <1>1, <1>7, <2>1 DEF TypeOK, Clear, locals
<1>8. CASE ClearLocks(c)
  <2>1. << >> \in UNION {[ks -> Locks] : ks \in SUBSET Keys}
    BY EmptyMap
  <2> QED
    BY <1>1, <1>8, <2>1 DEF TypeOK, ClearLocks, locals
<1>9. CASE NewLock(c)
  <2>1. ~ Uses(c)
    BY <1>9 DEF NewLock, Goto, Uses, Waiting, Critical
  <2>2. (CHOOSE l \in Locks : l \notin Reachable) \in Locks
    BY <2>1, FreeLock
  <2>3. lock' \in [Callers -> Locks] /\ lock'[c] \in Locks
    BY <1>9, <2>2, LocalFacts DEF TypeOK, NewLock
  <2>4. Key(c) \in Keys
    BY DEF TypeOK, Key, Payload
  <2>5. locklst' \in UNION {[ks -> Locks] : ks \in SUBSET Keys}
    BY <1>9, <2>3, <2>4, WithFacts DEF TypeOK, NewLock
  <2> QED
    BY <1>1, <1>9, <2>3, <2>5 DEF TypeOK, NewLock
<1>10. CASE At(c)
  BY <1>1, <1>10 DEF TypeOK, At, maps
<1>11. CASE Release(c)
  BY <1>1, <1>11 DEF TypeOK, Release, maps, locals
<1> QED
  BY <1>2, <1>3, <1>4, <1>5, <1>6, <1>7, <1>8, <1>9, <1>10, <1>11 DEF Step
-----------------------------------------------------------------------------
(***************************************************************************)
(* The locks.                                                              *)
(***************************************************************************)

\* A mutex is acquired only when free, and the caller that holds one stays
\* between its acquisition and its release.
LEMMA HeldStep ==
  ASSUME TypeOK, HeldIsReleased, NEW c \in Callers, Step(c)
  PROVE  HeldIsReleased'
<1> USE DEF Critical
<1>1. NoOne \notin Callers
  BY CallersAssumption
<1>2. CASE \E p \in Payload : FindPut(c, p) \/ FindGet(c, p)
  BY <1>2, GotoFacts DEF FindPut, FindGet, HeldIsReleased, TypeOK, Goto
<1>3. ASSUME NEW from, NEW to \in {"compare", "insert", "read"}, Acquire(c, from, to),
             from \in Waiting
      PROVE  HeldIsReleased'
  <2>1. /\ \A d \in Callers : d # c => pc'[d] = pc[d]
        /\ pc[c] \in Waiting /\ pc'[c] \in Critical
    BY <1>3 DEF Acquire, Goto, TypeOK, Critical
  <2>2. /\ holder'[lock[c]] = c /\ lock' = lock
        /\ \A l \in Locks : l # lock[c] => holder'[l] = holder[l]
    BY <1>3 DEF Acquire, TypeOK, locals
  <2>3. \A l \in Locks : holder[l] # NoOne =>
          holder[l] \in Callers /\ lock[holder[l]] = l
          /\ pc[holder[l]] \in Critical \cup {"failed"}
    BY DEF HeldIsReleased, TypeOK
  <2> QED
    BY <2>1, <2>2, <2>3 DEF HeldIsReleased, Waiting
<1>4. ASSUME holder' = holder, lock' = lock \/ pc[c] \notin Critical \cup {"failed"},
             \A d \in Callers : d # c => lock'[d] = lock[d] /\ pc'[d] = pc[d],
             pc[c] \in Critical => pc'[c] \in Critical \cup {"failed"},
             pc[c] # "failed"
      PROVE  HeldIsReleased'
  BY <1>4 DEF HeldIsReleased, TypeOK
<1>5. CASE Compare(c) \/ TestFull(c) \/ WriteOut(c) \/ Read(c) \/ Clear(c) \/ ClearLocks(c)
           \/ Insert(c, "update") \/ Insert(c, "insert")
  BY <1>4, <1>5 DEF Compare, TestFull, WriteOut, Read, Clear, ClearLocks, Insert, Goto,
                    TypeOK, locals
<1>6. CASE NewLock(c)
  BY <1>4, <1>6 DEF NewLock, Goto, TypeOK
<1>7. CASE At(c)
  BY <1>4, <1>7 DEF At, Goto, TypeOK
<1>8. CASE Release(c)
  <2>1. /\ \A d \in Callers : d # c => pc'[d] = pc[d]
        /\ lock' = lock
        /\ holder'[lock[c]] = NoOne
        /\ \A l \in Locks : l # lock[c] => holder'[l] = holder[l]
    BY <1>8 DEF Release, Goto, TypeOK, locals
  <2> QED
    BY <2>1 DEF HeldIsReleased, TypeOK
<1> QED
  BY <1>2, <1>3, <1>5, <1>6, <1>7, <1>8 DEF Step, Waiting

\* A lock that a caller uses belongs to its key: found in locklst under the
\* key, or new.
LEMMA LockStep ==
  ASSUME TypeOK, LockInv, NEW c \in Callers, Step(c)
  PROVE  LockInv'
<1> USE DEF Uses, Key
<1>1. ASSUME lock' = lock, payload' = payload, locklst' = locklst,
             \A d \in Callers : Uses(d)' => Uses(d)
      PROVE  LockInv'
  BY <1>1 DEF LockInv
<1>2. CASE \E p \in Payload : FindPut(c, p)
  <2>1. PICK p \in Payload : FindPut(c, p)
    BY <1>2
  <2>2. /\ locklst' = locklst
        /\ payload'[c] = p
        /\ \A d \in Callers : d # c =>
             payload'[d] = payload[d] /\ lock'[d] = lock[d] /\ pc'[d] = pc[d]
    BY <2>1 DEF FindPut, Goto, TypeOK, maps
  <2>3. pc'[c] \in Waiting \cup Critical =>
          p.key \in DOMAIN locklst /\ lock'[c] = locklst[p.key]
    BY <2>1 DEF FindPut, Goto, TypeOK, Waiting, Critical
  <2> QED
    BY <2>2, <2>3 DEF LockInv
<1>3. CASE \E p \in Payload : FindGet(c, p)
  <2>1. /\ locklst' = locklst /\ lock' = lock
        /\ pc'[c] \notin Waiting \cup Critical
        /\ \A d \in Callers : d # c => payload'[d] = payload[d] /\ pc'[d] = pc[d]
    BY <1>3 DEF FindGet, Goto, TypeOK, maps, Waiting, Critical
  <2> QED
    BY <2>1 DEF LockInv
<1>4. CASE Acquire(c, "lock", "compare") \/ Acquire(c, "lockNew", "insert")
           \/ Acquire(c, "lockRead", "read") \/ Compare(c) \/ Insert(c, "update")
           \/ Insert(c, "insert") \/ TestFull(c) \/ WriteOut(c) \/ Clear(c) \/ Read(c)
           \/ Release(c)
  <2>1. lock' = lock /\ payload' = payload /\ locklst' = locklst
    BY <1>4 DEF Acquire, Compare, Insert, TestFull, WriteOut, Clear, Read, Release,
                maps, locals
  <2>2. /\ \A d \in Callers : d # c => pc'[d] = pc[d]
        /\ pc'[c] \in Waiting \cup Critical => pc[c] \in Waiting \cup Critical
    BY <1>4 DEF Acquire, Compare, Insert, TestFull, WriteOut, Clear, Read, Release,
                Goto, TypeOK, Waiting, Critical
  <2> QED
    BY <1>1, <2>1, <2>2
<1>5. CASE ClearLocks(c)
  <2>1. /\ lock' = lock /\ payload' = payload /\ DOMAIN locklst' = {}
        /\ \A d \in Callers : d # c => pc'[d] = pc[d]
        /\ pc'[c] \notin Waiting \cup Critical
    BY <1>5 DEF ClearLocks, Goto, TypeOK, locals, Waiting, Critical
  <2> QED
    BY <2>1 DEF LockInv
<1>6. CASE NewLock(c)
  <2>1. ~ Uses(c)
    BY <1>6 DEF NewLock, Goto, Waiting, Critical
  <2>2. PICK l \in Locks : l = (CHOOSE k \in Locks : k \notin Reachable) /\ l \notin Reachable
    BY <2>1, FreeLock
  <2>3. /\ payload' = payload
        /\ lock'[c] = l
        /\ \A d \in Callers : d # c => lock'[d] = lock[d] /\ pc'[d] = pc[d]
    BY <1>6, <2>2 DEF NewLock, Goto, TypeOK
  <2>5. /\ DOMAIN locklst' = DOMAIN locklst \cup {payload[c].key}
        /\ locklst'[payload[c].key] = l
        /\ \A key \in DOMAIN locklst : key # payload[c].key => locklst'[key] = locklst[key]
    BY <1>6, <2>3 DEF NewLock, With
  <2>6. /\ \A key \in DOMAIN locklst : locklst[key] # l
        /\ \A d \in Callers : Uses(d) => lock[d] # l
    BY <2>2 DEF Reachable
  <2> QED
    BY <2>3, <2>5, <2>6 DEF LockInv
<1>7. CASE At(c)
  <2>1. /\ locklst' = locklst /\ payload' = payload
        /\ \A d \in Callers : d # c => lock'[d] = lock[d] /\ pc'[d] = pc[d]
    BY <1>7 DEF At, Goto, TypeOK, maps
  <2>2. pc'[c] \in Waiting \cup Critical =>
          payload[c].key \in DOMAIN locklst /\ lock'[c] = locklst[payload[c].key]
    BY <1>7 DEF At, Goto, TypeOK, Waiting, Critical
  <2> QED
    BY <2>1, <2>2 DEF LockInv
<1> QED
  BY <1>2, <1>3, <1>4, <1>5, <1>6, <1>7 DEF Step
\* Who waits for a lock waits for a caller that uses the lock, and so has the
\* same key; a caller that fails changes nothing that others wait for.
LEMMA WaitStep ==
  ASSUME TypeOK, HeldIsReleased, LockInv, WaitsOnSameKey, NEW c \in Callers, Step(c),
         HeldIsReleased', LockInv', TypeOK'
  PROVE  WaitsOnSameKey'
<1>1. CASE pc'[c] # "failed"
  <2>1. \A d \in Callers : pc'[d] # "failed"
    BY <1>1, StepPlaces, GotoFacts
  <2>2. \A l \in Locks : holder'[l] # NoOne =>
          holder'[l] \in Callers /\ lock'[holder'[l]] = l /\ pc'[holder'[l]] \in Critical
    BY <2>1 DEF HeldIsReleased, TypeOK
  <2>3. \A d \in Callers : lock'[d] \in Locks
    BY DEF TypeOK
  <2> QED
    BY <2>2, <2>3 DEF LockInv, Uses, WaitsOnSameKey, Key
<1>2. CASE pc'[c] = "failed"
  <2>1. CASE At(c)
    BY <1>2, <2>1 DEF At, Goto, TypeOK, WaitsOnSameKey, Key, Waiting
  <2>2. CASE Compare(c) \/ WriteOut(c) \/ Read(c)
    BY <1>2, <2>2 DEF Compare, WriteOut, Read, Goto, TypeOK, WaitsOnSameKey, Key, Waiting,
                      locals
  <2>3. At(c) \/ Compare(c) \/ WriteOut(c) \/ Read(c)
    BY <1>2 DEF Step, FindPut, FindGet, Acquire, Insert, TestFull, Clear, ClearLocks,
                NewLock, Release, Goto, TypeOK
  <2> QED
    BY <2>1, <2>2, <2>3
<1> QED
  BY <1>1, <1>2

-----------------------------------------------------------------------------
(***************************************************************************)
(* The size.                                                               *)
(***************************************************************************)

\* The sets counted are finite.
LEMMA Finite ==
  ASSUME TypeOK
  PROVE  /\ IsFiniteSet(DOMAIN memtable) /\ Cardinality(DOMAIN memtable) \in Nat
         /\ IsFiniteSet(Pending) /\ Cardinality(Pending) \in Nat
         /\ Cardinality(Pending) <= Cardinality(Callers)
         /\ Cardinality(Callers) \in Nat
<1>1. DOMAIN memtable \in SUBSET Keys /\ Pending \in SUBSET Callers
  BY DEF TypeOK, PairMap, Pending
<1> QED
  BY <1>1, KeysAssumption, CallersAssumption, FS_Subset, FS_CardinalityType

\* A caller is pending from the moment the size has been tested until it
\* has added its pair.
LEMMA CountStep ==
  ASSUME TypeOK, CountInv, NEW c \in Callers, Step(c), TypeOK'
  PROVE  CountInv'
<1> DEFINE Size == Cardinality(DOMAIN memtable)
           Count == Cardinality(Pending)
<1>0. BlockSize \in Nat \ {0}
  BY BlockSizeAssumption
<1>1. /\ Size \in Nat /\ Count \in Nat /\ Cardinality(Callers) \in Nat
      /\ Size' \in Nat /\ Count' \in Nat /\ Count' <= Cardinality(Callers)
  <2>1. /\ Size \in Nat /\ Count \in Nat /\ Cardinality(Callers) \in Nat
    BY Finite
  <2>2. (TypeOK => Size \in Nat /\ Count \in Nat /\ Count <= Cardinality(Callers))'
    BY Finite, PTL
  <2> QED
    BY <2>1, <2>2
<1>2. IsFiniteSet(Pending) /\ IsFiniteSet(DOMAIN memtable)
  BY Finite
<1>3. ASSUME Pending' \subseteq Pending
      PROVE  Count' <= Count
  <2> HIDE DEF Pending
  <2> QED
    BY <1>2, <1>3, FS_Subset
<1>4. ASSUME Pending' \subseteq Pending \ {c}, c \in Pending
      PROVE  Count' <= Count - 1
  <2>1. IsFiniteSet(Pending \ {c}) /\ Cardinality(Pending \ {c}) = Count - 1
    BY <1>2, <1>4, FS_RemoveElement
  <2>2. Count' <= Cardinality(Pending \ {c})
    BY <1>4, <2>1, FS_Subset
  <2> QED
    BY <1>1, <2>1, <2>2
<1>5. CASE UNCHANGED memtable /\ Pending' \subseteq Pending
  BY <1>0, <1>1, <1>3, <1>5 DEF CountInv
<1>6. CASE \E p \in Payload : FindPut(c, p) \/ FindGet(c, p)
  <2>1. /\ memtable' = memtable
        /\ pc'[c] \in {"lock", "full", "at"}
        /\ \A d \in Callers : d # c => pc'[d] = pc[d] /\ payload'[d] = payload[d]
    BY <1>6 DEF FindPut, FindGet, Goto, TypeOK, maps
  <2>2. Pending' \subseteq Pending
    BY <2>1 DEF Pending, Key
  <2> QED
    BY <1>5, <2>1, <2>2
<1>7. CASE \/ Acquire(c, "lock", "compare") \/ Acquire(c, "lockNew", "insert")
           \/ Acquire(c, "lockRead", "read") \/ Compare(c) \/ WriteOut(c)
           \/ ClearLocks(c) \/ Read(c) \/ Release(c)
  <2>1. /\ memtable' = memtable /\ payload' = payload
        /\ \A d \in Callers : d # c => pc'[d] = pc[d]
        /\ pc'[c] \in {"newLock", "lockNew", "insert"} =>
             pc[c] \in {"clearLocks", "newLock", "lockNew"}
        /\ pc'[c] # "clearLocks"
        /\ pc'[c] = "update" => Key(c) \in DOMAIN memtable
    BY <1>7 DEF Acquire, Compare, WriteOut, ClearLocks, Read, Release, Goto,
                TypeOK, maps, locals
  <2>2. Pending' \subseteq Pending
    BY <2>1 DEF Pending, Key
  <2> QED
    BY <1>5, <2>1, <2>2
<1>8. CASE NewLock(c) \/ At(c)
  <2>1. /\ memtable' = memtable /\ payload' = payload
        /\ \A d \in Callers : d # c => pc'[d] = pc[d]
        /\ \/ pc'[c] = "lockNew" /\ pc[c] = "newLock"
           \/ pc'[c] \in {"lockRead", "failed"}
    BY <1>8 DEF NewLock, At, Goto, TypeOK, maps
  <2>2. Pending' \subseteq Pending
    BY <2>1 DEF Pending, Key
  <2> QED
    BY <1>5, <2>1, <2>2
<1>9. CASE TestFull(c)
  <2>1. CASE IsFull
    <3>1. /\ memtable' = memtable /\ payload' = payload
          /\ \A d \in Callers : d # c => pc'[d] = pc[d]
          /\ pc'[c] = "writeOut"
      BY <1>9, <2>1 DEF TestFull, Goto, TypeOK, maps, locals
    <3>2. Pending' \subseteq Pending
      BY <3>1 DEF Pending, Key
    <3> QED
      BY <1>5, <3>1, <3>2
  <2>2. CASE ~ IsFull
    <3>1. Size' = Size /\ Size < BlockSize
      BY <1>0, <1>1, <1>9, <2>2 DEF TestFull, IsFull, maps
    <3> HIDE DEF Size, Count
    <3>2. Size' + Count' <= BlockSize + Cardinality(Callers) - 1
      BY <1>0, <1>1, <3>1
    <3> QED
      BY <3>2 DEF CountInv, Size, Count
  <2> QED
    BY <2>1, <2>2
<1>10. CASE Clear(c)
  <2>1. Size' = 0
    BY <1>10, FS_EmptySet DEF Clear
  <2> HIDE DEF Size, Count
  <2>2. Size' + Count' <= BlockSize + Cardinality(Callers) - 1
    BY <1>0, <1>1, <2>1
  <2> QED
    BY <2>2 DEF CountInv, Size, Count
<1>11. CASE Insert(c, "update") \/ Insert(c, "insert")
  <2>1. /\ payload' = payload
        /\ \A d \in Callers : d # c => pc'[d] = pc[d]
        /\ pc[c] \in {"update", "insert"} /\ pc'[c] = "unlock"
        /\ DOMAIN memtable' = DOMAIN memtable \cup {Key(c)}
    BY <1>11 DEF Insert, Goto, TypeOK, locals, With
  <2>2. Size' = IF Key(c) \in DOMAIN memtable THEN Size ELSE Size + 1
    BY <1>2, <2>1, FS_AddElement
  <2>3. Pending' \subseteq Pending \ {c}
    BY <2>1 DEF Pending, Key
  <2>4. CASE Key(c) \in DOMAIN memtable
    <3>1. Count' <= Count /\ Size' = Size
      BY <1>3, <2>2, <2>3, <2>4
    <3> HIDE DEF Size, Count
    <3>2. Size' + Count' <= BlockSize + Cardinality(Callers) - 1
      BY <1>0, <1>1, <3>1 DEF CountInv, Size, Count
    <3> QED
      BY <3>2 DEF CountInv, Size, Count
  <2>5. CASE Key(c) \notin DOMAIN memtable
    <3>1. c \in Pending
      BY <2>1, <2>5 DEF Pending
    <3>2. Count' <= Count - 1 /\ Size' = Size + 1
      BY <1>4, <2>2, <2>3, <2>5, <3>1
    <3> HIDE DEF Size, Count
    <3>3. Size' + Count' <= BlockSize + Cardinality(Callers) - 1
      BY <1>0, <1>1, <3>2 DEF CountInv, Size, Count
    <3> QED
      BY <3>3 DEF CountInv, Size, Count
  <2> QED
    BY <2>4, <2>5
<1> QED
  BY <1>6, <1>7, <1>8, <1>9, <1>10, <1>11 DEF Step

-----------------------------------------------------------------------------
(***************************************************************************)
(* The theorems.                                                           *)
(***************************************************************************)

\* The inductive invariant holds initially.
LEMMA IInvInit == Init => IInv
<1> SUFFICES ASSUME Init
             PROVE  IInv
  OBVIOUS
<1>1. TypeOK
  BY TypeInit
<1>2. \A l \in Locks : holder[l] = NoOne
  BY DEF Init
<1>3. \A c \in Callers : pc[c] = "idle"
  BY DEF Init
<1>4. HeldIsReleased
  BY <1>2 DEF HeldIsReleased
<1>5. LockInv
  BY <1>3, EmptyMap DEF Init, LockInv, Uses, Waiting, Critical
<1>6. WaitsOnSameKey
  BY <1>3 DEF WaitsOnSameKey, Waiting
<1>7. Pending = {} /\ DOMAIN memtable = {}
  BY <1>3 DEF Pending, Init
<1>8. CountInv
  BY <1>1, <1>7, Finite, FS_EmptySet, BlockSizeAssumption DEF CountInv
<1> QED
  BY <1>1, <1>4, <1>5, <1>6, <1>8 DEF IInv

\* Every step preserves it.
LEMMA IInvNext == IInv /\ [Next]_vars => IInv'
<1> SUFFICES ASSUME IInv, [Next]_vars
             PROVE  IInv'
  OBVIOUS
<1>1. CASE UNCHANGED vars
  BY <1>1 DEF vars, maps, locals, IInv, TypeOK, HeldIsReleased, LockInv, WaitsOnSameKey,
              CountInv, Uses, Key, Pending
<1>2. ASSUME NEW c \in Callers, Step(c)
      PROVE  IInv'
  <2>1. TypeOK'
    BY <1>2, TypeStep DEF IInv
  <2>2. HeldIsReleased'
    BY <1>2, HeldStep DEF IInv
  <2>3. LockInv'
    BY <1>2, LockStep DEF IInv
  <2>4. WaitsOnSameKey'
    BY <1>2, <2>1, <2>2, <2>3, WaitStep DEF IInv
  <2>5. CountInv'
    BY <1>2, <2>1, CountStep DEF IInv
  <2> QED
    BY <2>1, <2>2, <2>3, <2>4, <2>5 DEF IInv
<1> QED
  BY <1>1, <1>2, NextIsStep

\* IInv is an invariant of put and get.
THEOREM Invariance == Spec => []IInv
BY IInvInit, IInvNext, PTL DEF Spec

\* The state has its types; in particular there is always a mutex for
\* another key.
THEOREM TypeCorrect == Spec => []TypeOK
<1>1. IInv => TypeOK
  BY DEF IInv
<1> QED
  BY <1>1, Invariance, PTL

\* Memtable::put and get release every lock they take, whatever other
\* callers replace or clear meanwhile: there is no deadlock.
THEOREM LocksAreReleased == Spec => []HeldIsReleased
<1>1. IInv => HeldIsReleased
  BY DEF IInv
<1> QED
  BY <1>1, Invariance, PTL

\* Callers with different keys never wait for each other.
THEOREM WaitingIsPerKey == Spec => []WaitsOnSameKey
<1>1. IInv => WaitsOnSameKey
  BY DEF IInv
<1> QED
  BY <1>1, Invariance, PTL

\* The memtable outgrows max_size by less than the number of callers,
\* although it is tested and filled without a lock.
THEOREM OvershootIsBounded == Spec => []SizeBound
<1>1. IInv => SizeBound
  <2> SUFFICES ASSUME IInv
               PROVE  SizeBound
    OBVIOUS
  <2>1. TypeOK /\ CountInv
    BY DEF IInv
  <2>2. Cardinality(DOMAIN memtable) \in Nat /\ Cardinality(Pending) \in Nat
        /\ Cardinality(Callers) \in Nat
    BY <2>1, Finite
  <2> QED
    BY <2>1, <2>2, BlockSizeAssumption DEF CountInv, SizeBound
<1> QED
  BY <1>1, Invariance, PTL

=============================================================================
