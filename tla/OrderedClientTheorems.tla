------------------------- MODULE OrderedClientTheorems -------------------------
(***************************************************************************)
(* With clients whose timestamps grow, CapsuleDB is a map, for every value *)
(* of the constants: OrderedSpec implements KVStore.                       *)
(*                                                                         *)
(* The inductive invariant adds to those of CapsuleDBTheorems that no two  *)
(* versions of a key have the same timestamp (OneVersion), so that the     *)
(* newest version stored, which get returns, is one.  A step that neither  *)
(* adds one nor drops it changes no answer.                                *)
(***************************************************************************)
EXTENDS OrderedClient, CapsuleDBTheorems

\* What is known of the put in progress.
PayloadInv ==
  pc # "idle" => \E key \in Keys, version \in Version :
    /\ payload = [key |-> key, version |-> version]
    /\ Later(key, version)
    /\ latest[key] = version

LatestInv ==
  /\ latest \in [Keys -> Version \cup {NotFound}]
  /\ \A key \in Keys : pc = "idle" \/ key # payload.key => latest[key] = get(key)

\* Timestamps tell the versions of a key apart.
OneVersion ==
  \A key : \A v, w \in Stored(key) : v.txn_timestamp = w.txn_timestamp => v = w

ClientInv == ReadInv /\ OneVersion /\ PayloadInv /\ LatestInv

-----------------------------------------------------------------------------
(***************************************************************************)
(* The steps of clients whose timestamps grow.                             *)
(***************************************************************************)

\* A step inserts nothing, or a version later than all those of its key.
LaterStep ==
  \/ UNCHANGED memtable
  \/ \E k \in Keys, version \in Version : Inserts(k, version) /\ Later(k, version)

LEMMA LaterIsFresh ==
  ASSUME IInv, NEW key \in Keys, NEW version \in Version, Later(key, version)
  PROVE  Fresh(key, version)
<1>1. version.txn_timestamp \in Int
  BY TimestampsAssumption DEF Version
<1>2. \A v \in Stored(key) : v.txn_timestamp \in Int
  BY StoredFacts
<1> QED
  BY <1>1, <1>2 DEF Later, Fresh, Newer

LEMMA LaterStepOrdered ==
  IInv /\ LaterStep => OrderedStep
BY LaterIsFresh DEF LaterStep, OrderedStep

LEMMA OneVersionNext ==
  IInv /\ SourceInv /\ OneVersion /\ [Next]_vars /\ LaterStep => OneVersion'
<1> SUFFICES ASSUME IInv, SourceInv, OneVersion, [Next]_vars, LaterStep,
                    NEW key, NEW v \in Stored(key)', NEW w \in Stored(key)',
                    v.txn_timestamp = w.txn_timestamp
             PROVE  v = w
  BY DEF OneVersion
<1>1. CASE v \in Stored(key) /\ w \in Stored(key)
  BY <1>1 DEF OneVersion
<1>2. CASE UNCHANGED memtable
  BY <1>1, <1>2, StoredAfter
<1>3. ASSUME NEW k \in Keys, NEW version \in Version, Inserts(k, version), Later(k, version)
      PROVE  v = w
  <2>1. CASE key # k
    BY <1>1, <1>3, <2>1, StoredAfter
  <2>2. CASE key = k
    <3>1. v \in Stored(k) \cup {version} /\ w \in Stored(k) \cup {version}
      BY <1>3, <2>2, StoredAfter
    <3>2. version.txn_timestamp \in Int /\ \A u \in Stored(k) : u.txn_timestamp \in Int
      BY StoredFacts, TimestampsAssumption DEF Version
    <3>3. \A u \in Stored(k) : version.txn_timestamp > u.txn_timestamp
      BY <1>3 DEF Later
    <3>4. \A u \in Stored(k) : version.txn_timestamp # u.txn_timestamp
      BY <3>2, <3>3
    <3> QED
      BY <1>1, <2>2, <3>1, <3>4
  <2> QED
    BY <2>1, <2>2
<1> QED
  BY <1>2, <1>3 DEF LaterStep

\* A step that stores no new version of a key does not change its answer.
LEMMA SameAnswer ==
  IInv /\ DataInv /\ ReadInv /\ OneVersion /\ (IInv /\ DataInv /\ ReadInv)' /\ [Next]_vars =>
    \A key \in Keys : Stored(key)' \subseteq Stored(key) => get(key)' = get(key)
<1>1. (IInv /\ DataInv /\ ReadInv =>
         \A key \in Keys :
           /\ Stored(key) = {} => get(key) = NotFound
           /\ Stored(key) # {} => /\ get(key) \in Stored(key)
                                  /\ \A w \in Stored(key) : Newer(get(key), w))'
  BY GetIsNewest, NoEmptyKeyAssumption, PTL
<1> SUFFICES ASSUME IInv /\ DataInv /\ ReadInv, OneVersion,
                    (IInv /\ DataInv /\ ReadInv)', [Next]_vars,
                    NEW key \in Keys, Stored(key)' \subseteq Stored(key)
             PROVE  get(key)' = get(key)
  OBVIOUS
<1> DEFINE old == get(key)
           new == get(key)'
<1>2. /\ Stored(key)' = {} => new = NotFound
      /\ Stored(key)' # {} => /\ new \in Stored(key)'
                              /\ \A w \in Stored(key)' : Newer(new, w)
  BY <1>1
<1>3. /\ Stored(key) = {} => old = NotFound
      /\ Stored(key) # {} => /\ old \in Stored(key)
                             /\ \A w \in Stored(key) : Newer(old, w)
  BY GetIsNewest, NoEmptyKeyAssumption
<1>4. CASE Stored(key) = {}
  <2>1. Stored(key)' = {}
    BY <1>4
  <2> QED
    BY <1>2, <1>3, <1>4, <2>1
<1>5. CASE Stored(key) # {}
  <2>1. PICK w \in Stored(key)' : w.txn_timestamp >= old.txn_timestamp
    BY <1>3, <1>5, StepKeeps
  <2>2. w \in Stored(key) /\ Newer(old, w)
    BY <1>3, <1>5, <2>1
  <2>3. w.txn_timestamp \in Int /\ old.txn_timestamp \in Int
    BY <1>3, <1>5, <2>2, StoredFacts
  <2> HIDE DEF old, new
  <2>4. old \in Stored(key)'
    <3>1. w = old
      BY <1>3, <1>5, <2>1, <2>2, <2>3 DEF Newer, OneVersion
    <3> QED
      BY <2>1, <3>1
  <2>5. new \in Stored(key) /\ Newer(new, old) /\ Newer(old, new)
    BY <1>2, <1>3, <1>5, <2>4
  <2>6. new.txn_timestamp \in Int
    BY <2>5, StoredFacts
  <2> QED
    BY <1>3, <1>5, <2>3, <2>5, <2>6 DEF Newer, OneVersion, old, new
<1> QED
  BY <1>4, <1>5

\* The clients' steps are steps of CapsuleDB, and in order.
LEMMA ClientStep ==
  IInv /\ PayloadInv /\ [OrderedNext]_<<vars, latest>> => [Next]_vars /\ LaterStep
<1> SUFFICES ASSUME IInv, PayloadInv, [OrderedNext]_<<vars, latest>>
             PROVE  [Next]_vars /\ LaterStep
  OBVIOUS
<1>1. [Next]_vars
  BY DEF OrderedNext, ClientPut, Next
<1>2. CASE UNCHANGED vars
  BY <1>1, <1>2 DEF vars, LaterStep
<1>3. ASSUME NEW key \in Keys, NEW version \in Version, Later(key, version), put(key, version)
      PROVE  LaterStep
  <2>1. CASE PutEarlier(key, version) \/ PutCompact(key, version)
    BY <2>1 DEF PutEarlier, PutCompact, vars, LaterStep
  <2>2. CASE PutLater(key, version) \/ PutNew(key, version) \/ PutWriteOut(key, version)
    BY <1>3, <2>2 DEF Inserts, LaterStep
  <2> QED
    BY <1>3, <2>1, <2>2 DEF put
<1>4. CASE Compaction
  <2>1. CASE CompactReturn
    <3>1. PICK key \in Keys, version \in Version :
            payload = [key |-> key, version |-> version] /\ Later(key, version)
      BY <2>1 DEF CompactReturn, PayloadInv
    <3>2. key = payload.key /\ version = payload.version
      BY <3>1
    <3>3. Inserts(key, version)
      BY <2>1, <3>2 DEF Inserts
    <3> QED
      BY <1>1, <3>1, <3>3 DEF LaterStep
  <2>2. CASE ~ CompactReturn
    <3>1. UNCHANGED memtable
      BY <1>4, <2>2 DEF Compaction, CompactMergeL0, CompactCall, HelperEvict, HelperFits,
         HelperReturn, HelperMerge
    <3> QED
      BY <1>1, <3>1 DEF LaterStep
  <2> QED
    BY <2>1, <2>2
<1> QED
  BY <1>1, <1>2, <1>3, <1>4 DEF OrderedNext, ClientPut

\* A put shows at once, and to the gets of its own key only; or it shows to
\* none yet.
PutShows(key, version) ==
  /\ pc = "idle" /\ pc' = "idle"
  /\ get(key)' = version
  /\ \A x \in Keys : x # key => get(x)' = get(x)
PutWaits(key, version) ==
  /\ pc = "idle" /\ pc' # "idle"
  /\ payload' = [key |-> key, version |-> version]
  /\ \A x \in Keys : get(x)' = get(x)

\* A step of a compaction shows to no get, until the put returns.
CompactionHides ==
  /\ pc # "idle" /\ pc' # "idle" /\ payload' = payload
  /\ \A x \in Keys : get(x)' = get(x)
CompactionShows ==
  /\ pc # "idle" /\ pc' = "idle"
  /\ \A x \in Keys : get(x)' = IF x = payload.key THEN payload.version ELSE get(x)

\* What the answers are after a step.
LEMMA AnswersNext ==
  IInv /\ DataInv /\ ReadInv /\ OneVersion /\ PayloadInv /\ (IInv /\ DataInv /\ ReadInv)'
    /\ OrderedNext =>
    \/ \E key \in Keys, version \in Version :
         /\ Later(key, version) /\ latest' = [latest EXCEPT ![key] = version]
         /\ PutShows(key, version) \/ PutWaits(key, version)
    \/ /\ CompactionHides \/ CompactionShows
       /\ latest' = latest
<1> SUFFICES ASSUME IInv /\ DataInv /\ ReadInv, OneVersion, PayloadInv,
                    (IInv /\ DataInv /\ ReadInv)', OrderedNext
             PROVE  \/ \E key \in Keys, version \in Version :
                         /\ Later(key, version) /\ latest' = [latest EXCEPT ![key] = version]
                         /\ PutShows(key, version) \/ PutWaits(key, version)
                    \/ /\ CompactionHides \/ CompactionShows
                       /\ latest' = latest
  OBVIOUS
<1>1. [Next]_vars /\ SourceInv
  BY ClientStep DEF ReadInv
<1>2. UNCHANGED memtable => \A x \in Keys : get(x)' = get(x)
  BY <1>1, StoredAfter, SameAnswer
<1>3. ASSUME NEW k \in Keys, NEW version \in Version, Inserts(k, version)
      PROVE  /\ get(k)' = version
             /\ \A x \in Keys : x # k => get(x)' = get(x)
  <2>1. /\ k \in DOMAIN memtable' /\ memtable'[k] = version
        /\ \A x \in Keys : x # k => get(x)' = get(x)
    BY <1>1, <1>3, InsertFacts, StoredAfter, SameAnswer
  <2>2. locklst' = DOMAIN memtable' /\ k # EmptyKey
    BY NoEmptyKeyAssumption DEF IInv, TypeInv
  <2> QED
    BY <2>1, <2>2 DEF get
<1> HIDE DEF get
<1>4. ASSUME NEW key \in Keys, NEW version \in Version, Later(key, version),
             ClientPut(key, version)
      PROVE  /\ latest' = [latest EXCEPT ![key] = version]
             /\ PutShows(key, version) \/ PutWaits(key, version)
  <2>1. latest' = [latest EXCEPT ![key] = version] /\ put(key, version)
    BY <1>4 DEF ClientPut
  <2>2. ~ PutEarlier(key, version)
    <3> SUFFICES ASSUME PutEarlier(key, version)
                 PROVE  FALSE
      OBVIOUS
    <3>1. key \in DOMAIN memtable /\ version.txn_timestamp <= memtable[key].txn_timestamp
      BY DEF PutEarlier, IInv, TypeInv
    <3>2. memtable[key] \in Stored(key) /\ memtable[key].txn_timestamp \in Int
      BY <3>1, StoredHolds, MemtableVersions
    <3>3. version.txn_timestamp \in Int
      BY TimestampsAssumption DEF Version
    <3> QED
      BY <1>4, <3>1, <3>2, <3>3 DEF Later
  <2>3. CASE PutLater(key, version) \/ PutNew(key, version) \/ PutWriteOut(key, version)
    <3>1. pc = "idle" /\ pc' = "idle"
      BY <2>3 DEF PutLater, PutNew, PutWriteOut, call
    <3>2. Inserts(key, version)
      BY <2>3 DEF Inserts
    <3> QED
      BY <1>3, <2>1, <3>1, <3>2 DEF PutShows
  <2>4. CASE PutCompact(key, version)
    BY <1>2, <2>1, <2>4 DEF PutWaits, PutCompact
  <2> QED
    BY <2>1, <2>2, <2>3, <2>4 DEF put
<1>5. CASE CompactReturn /\ latest' = latest
  <2>1. pc # "idle" /\ pc' = "idle" /\ payload.key \in Keys /\ payload.version \in Version
    BY <1>5 DEF CompactReturn, IInv, TypeInv, Payload
  <2>2. Inserts(payload.key, payload.version)
    BY <1>5 DEF Inserts
  <2>3. CompactionShows
    <3> DEFINE k == payload.key
               version == payload.version
    <3>1. k \in Keys /\ version \in Version /\ Inserts(k, version)
      BY <2>1, <2>2
    <3> HIDE DEF k, version
    <3>2. \A x \in Keys : get(x)' = IF x = k THEN version ELSE get(x)
      BY <1>3, <3>1
    <3> QED
      BY <2>1, <3>2 DEF CompactionShows, k, version
  <2> QED
    BY <1>5, <2>3
<1>6. CASE Compaction /\ ~ CompactReturn /\ latest' = latest
  <2>1. pc # "idle" /\ pc' # "idle" /\ payload' = payload /\ memtable' = memtable
    BY <1>6 DEF Compaction, CompactMergeL0, CompactCall, HelperEvict, HelperFits,
       HelperReturn, HelperMerge
  <2> QED
    BY <1>2, <1>6, <2>1 DEF CompactionHides
<1> QED
  BY <1>4, <1>5, <1>6 DEF OrderedNext

-----------------------------------------------------------------------------
(***************************************************************************)
(* The invariant.                                                          *)
(***************************************************************************)

\* A new database and its clients agree that there is nothing in it.
LEMMA ClientInit == OrderedInit => IInv /\ DataInv /\ ClientInv
<1> SUFFICES ASSUME OrderedInit
             PROVE  IInv /\ DataInv /\ ClientInv
  OBVIOUS
<1>1. Init
  BY DEF OrderedInit
<1>2. IInv /\ DataInv
  BY <1>1, IInvInit, DataInit
<1>3. ReadInv /\ OneVersion
  BY <1>1, ReadInit, NothingStored DEF OneVersion
<1>4. PayloadInv
  BY <1>1 DEF PayloadInv, Init
<1>5. LatestInv
  <2>1. \A key \in Keys : get(key) = NotFound
    BY <1>1, <1>2, <1>3, NothingStored, GetIsNewest, NoEmptyKeyAssumption
  <2> HIDE DEF get
  <2> QED
    BY <2>1 DEF LatestInv, OrderedInit
<1> QED
  BY <1>2, <1>3, <1>4, <1>5 DEF ClientInv

\* The put in progress stays the latest of its key.
LEMMA PayloadNext ==
  IInv /\ ReadInv /\ PayloadInv /\ LatestInv /\ OrderedNext => PayloadInv'
<1> SUFFICES ASSUME IInv, ReadInv, PayloadInv, LatestInv, OrderedNext
             PROVE  PayloadInv'
  OBVIOUS
<1>1. [Next]_vars /\ SourceInv
  BY ClientStep DEF ReadInv
<1>2. ASSUME UNCHANGED memtable, NEW key, NEW version, Later(key, version)
      PROVE  Later(key, version)'
  BY <1>1, <1>2, StoredAfter DEF Later
<1>3. CASE pc' = "idle"
  BY <1>3 DEF PayloadInv
<1>4. ASSUME NEW key \in Keys, NEW version \in Version, Later(key, version),
             ClientPut(key, version), pc' # "idle"
      PROVE  PayloadInv'
  <2>1. PutCompact(key, version) /\ latest' = [latest EXCEPT ![key] = version]
    BY <1>4 DEF ClientPut, put, PutEarlier, PutLater, PutNew, PutWriteOut, call, vars
  <2>2. UNCHANGED memtable /\ payload' = [key |-> key, version |-> version]
    BY <2>1 DEF PutCompact
  <2>3. Later(key, version)' /\ latest'[key] = version
    BY <1>2, <1>4, <2>1, <2>2 DEF LatestInv
  <2> QED
    BY <2>2, <2>3 DEF PayloadInv
<1>5. CASE Compaction /\ latest' = latest /\ pc' # "idle"
  <2>1. pc # "idle" /\ UNCHANGED <<memtable, payload>>
    BY <1>5 DEF Compaction, CompactMergeL0, CompactCall, HelperEvict, HelperFits,
       HelperReturn, HelperMerge, CompactReturn
  <2>2. PICK key \in Keys, version \in Version :
          /\ payload = [key |-> key, version |-> version]
          /\ Later(key, version)
          /\ latest[key] = version
    BY <2>1 DEF PayloadInv
  <2>3. Later(key, version)'
    BY <1>2, <2>1, <2>2
  <2> QED
    BY <1>5, <2>1, <2>2, <2>3 DEF PayloadInv
<1> QED
  BY <1>3, <1>4, <1>5 DEF OrderedNext

\* A get goes on answering with the latest put, that in progress excepted.
LEMMA LatestNext ==
  /\ IInv /\ DataInv /\ ReadInv /\ (IInv /\ DataInv /\ ReadInv)'
  /\ OneVersion /\ PayloadInv /\ LatestInv /\ OrderedNext
  => LatestInv'
<1> HIDE DEF get
<1> SUFFICES ASSUME IInv /\ DataInv /\ ReadInv, (IInv /\ DataInv /\ ReadInv)',
                    OneVersion, PayloadInv, LatestInv, OrderedNext
             PROVE  LatestInv'
  OBVIOUS
<1>1. latest \in [Keys -> Version \cup {NotFound}]
  BY DEF LatestInv
<1>2. ASSUME NEW key \in Keys, NEW version \in Version,
             latest' = [latest EXCEPT ![key] = version],
             PutShows(key, version) \/ PutWaits(key, version)
      PROVE  LatestInv'
  <2>1. latest' \in [Keys -> Version \cup {NotFound}]
    BY <1>1, <1>2
  <2>2. \A x \in Keys : latest'[x] = IF x = key THEN version ELSE latest[x]
    BY <1>1, <1>2
  <2>3. \A x \in Keys : latest[x] = get(x)
    BY <1>2 DEF PutShows, PutWaits, LatestInv
  <2>4. CASE PutShows(key, version)
    BY <2>1, <2>2, <2>3, <2>4 DEF PutShows, LatestInv
  <2>5. CASE PutWaits(key, version)
    <3>1. payload'.key = key /\ pc' # "idle" /\ \A x \in Keys : get(x)' = get(x)
      BY <2>5 DEF PutWaits
    <3> QED
      BY <2>1, <2>2, <2>3, <3>1 DEF LatestInv
  <2> QED
    BY <1>2, <2>4, <2>5
<1>3. CASE CompactionHides /\ latest' = latest
  BY <1>3 DEF CompactionHides, LatestInv
<1>4. CASE CompactionShows /\ latest' = latest
  <2>1. latest[payload.key] = payload.version
    BY <1>4 DEF CompactionShows, PayloadInv
  <2> QED
    BY <1>1, <1>4, <2>1 DEF CompactionShows, LatestInv
<1> QED
  BY <1>2, <1>3, <1>4, AnswersNext

\* Every step preserves the whole of it.
LEMMA ClientNext ==
  IInv /\ DataInv /\ ClientInv /\ [OrderedNext]_<<vars, latest>>
  => IInv' /\ DataInv' /\ ClientInv'
<1> SUFFICES ASSUME IInv, DataInv, ClientInv, [OrderedNext]_<<vars, latest>>
             PROVE  IInv' /\ DataInv' /\ ClientInv'
  OBVIOUS
<1>1. ReadInv /\ OneVersion /\ PayloadInv /\ LatestInv
  BY DEF ClientInv
<1>2. [Next]_vars /\ LaterStep
  BY <1>1, ClientStep
<1>3. IInv' /\ DataInv' /\ ReadInv' /\ OneVersion'
  BY <1>1, <1>2, LaterStepOrdered, IInvNext, DataNext, ReadNext, OneVersionNext DEF ReadInv
<1>4. CASE OrderedNext
  BY <1>1, <1>3, <1>4, PayloadNext, LatestNext DEF ClientInv
<1>5. CASE UNCHANGED <<vars, latest>>
  <2>1. UNCHANGED <<memtable, locklst, numLevels, levels, pc, payload, latest>>
    BY <1>5 DEF vars, index, call
  <2>2. PayloadInv' /\ LatestInv'
    BY <1>1, <2>1 DEF PayloadInv, LatestInv, Later, Stored, get, Hits
  <2> QED
    BY <1>3, <2>2 DEF ClientInv
<1> QED
  BY <1>4, <1>5

\* The answers of a CapsuleDB are, between puts, those of its clients' last
\* puts, along with what that rests on.
THEOREM ClientInvariance == OrderedSpec => [](IInv /\ DataInv /\ ClientInv)
<1> QED
  BY ClientInit, ClientNext, PTL DEF OrderedSpec

-----------------------------------------------------------------------------
(***************************************************************************)
(* The properties.                                                         *)
(***************************************************************************)

\* The answer of a get is always the newest version stored, though older ones
\* stay in the levels below it.
THEOREM NewestIsOnTop == OrderedSpec => []NewestOnTop
<1>1. IInv /\ DataInv /\ ClientInv => NewestOnTop
  <2> SUFFICES ASSUME IInv, DataInv, ClientInv, NEW key \in Keys, NEW v \in Stored(key)
               PROVE  v.txn_timestamp <= get(key).txn_timestamp
    BY DEF NewestOnTop
  <2>1. get(key) \in Stored(key) /\ Newer(get(key), v)
    BY GetIsNewest, NoEmptyKeyAssumption DEF ClientInv
  <2>2. v.txn_timestamp \in Int /\ get(key).txn_timestamp \in Int
    BY <2>1, StoredFacts
  <2> HIDE DEF get
  <2> QED
    BY <2>1, <2>2 DEF Newer
<1> QED
  BY <1>1, ClientInvariance, PTL

\* A compaction changes no get but, at its end, that of the put it is part of.
THEOREM CompactionKeepsAnswers == OrderedSpec => CompactionPreservesReads
<1> HIDE DEF get
<1>1. ASSUME IInv /\ DataInv /\ ClientInv, (IInv /\ DataInv /\ ClientInv)',
             [OrderedNext]_<<vars, latest>>
      PROVE  [pc # "idle" =>
                \A key \in Keys :
                  get(key)' = IF pc' = "idle" /\ key = payload.key THEN payload.version
                                                                   ELSE get(key)]_vars
  <2>1. CASE UNCHANGED vars
    BY <2>1
  <2>2. CASE OrderedNext
    <3>1. \/ pc = "idle"
          \/ CompactionHides \/ CompactionShows
      BY <1>1, <2>2, AnswersNext DEF ClientInv, PutShows, PutWaits
    <3> QED
      BY <3>1 DEF CompactionHides, CompactionShows
  <2> QED
    BY <1>1, <2>1, <2>2
<1> QED
  BY <1>1, ClientInvariance, PTL DEF OrderedSpec, CompactionPreservesReads

\* CapsuleDB is a map to clients whose timestamps grow: put, get, write-out
\* and compaction implement KVStore.
THEOREM CapsuleDBIsAMap == OrderedSpec => ImplementsKVStore
<1> HIDE DEF get
<1>1. OrderedInit => KV!Init
  <2> SUFFICES ASSUME OrderedInit
               PROVE  KV!Init
    OBVIOUS
  <2>1. latest = [key \in Keys |-> NotFound] /\ pc = "idle"
    BY DEF OrderedInit, Init
  <2>2. \A key \in Keys : latest[key] = get(key)
    BY <2>1, ClientInit DEF ClientInv, LatestInv
  <2> QED
    BY <2>1, <2>2 DEF KV!Init
<1>2. ASSUME IInv /\ DataInv /\ ClientInv, (IInv /\ DataInv /\ ClientInv)',
             [OrderedNext]_<<vars, latest>>
      PROVE  [KV!Next]_<<latest, [key \in Keys |-> get(key)]>>
  <2> DEFINE store == [key \in Keys |-> get(key)]
  <2>1. /\ latest \in [Keys -> Version \cup {NotFound}]
        /\ \A key \in Keys : pc = "idle" \/ key # payload.key => latest[key] = get(key)
        /\ latest' \in [Keys -> Version \cup {NotFound}]
        /\ \A key \in Keys : pc' = "idle" \/ key # payload'.key => latest'[key] = get(key)'
    BY <1>2 DEF ClientInv, LatestInv
  <2>2. CASE UNCHANGED <<vars, latest>>
    <3>1. \A key \in Keys : get(key)' = get(key)
      BY <2>2 DEF get, Hits, vars, index
    <3> QED
      BY <2>2, <3>1
  <2>3. ASSUME NEW key \in Keys, NEW version \in Version, Later(key, version),
               latest' = [latest EXCEPT ![key] = version],
               PutShows(key, version) \/ PutWaits(key, version)
        PROVE  KV!Put(key, version)
    <3>1. pc = "idle" /\ \A x \in Keys : latest[x] = get(x)
      BY <2>1, <2>3 DEF PutShows, PutWaits
    <3>2. store = latest
      BY <2>1, <3>1
    <3>3. latest[key] # NotFound => version.txn_timestamp > latest[key].txn_timestamp
      <4>1. get(key) # NotFound => get(key) \in Stored(key)
        BY <1>2, GetIsNewest, NoEmptyKeyAssumption DEF ClientInv
      <4> QED
        BY <2>3, <3>1, <4>1 DEF Later
    <3>4. store' \in {store, latest'}
      <4>1. CASE PutShows(key, version)
        <5>1. \A x \in Keys : latest'[x] = get(x)'
          BY <2>1, <4>1 DEF PutShows
        <5>2. store' = latest'
          BY <2>1, <5>1
        <5> QED
          BY <5>2
      <4>2. CASE PutWaits(key, version)
        <5>1. store' = store
          BY <4>2 DEF PutWaits
        <5> QED
          BY <5>1
      <4> QED
        BY <2>3, <4>1, <4>2
    <3> QED
      BY <2>3, <3>2, <3>3, <3>4 DEF KV!Put
  <2>4. CASE CompactionHides /\ latest' = latest
    BY <2>4 DEF CompactionHides
  <2>5. CASE CompactionShows /\ latest' = latest
    <3>1. \A x \in Keys : latest'[x] = get(x)'
      BY <2>1, <2>5 DEF CompactionShows
    <3>2. store' = latest'
      BY <2>1, <3>1
    <3> QED
      BY <2>5, <3>2 DEF KV!Return, KV!Next
  <2>6. CASE OrderedNext
    <3>1. \/ \E key \in Keys, version \in Version :
               /\ Later(key, version) /\ latest' = [latest EXCEPT ![key] = version]
               /\ PutShows(key, version) \/ PutWaits(key, version)
          \/ /\ CompactionHides \/ CompactionShows
             /\ latest' = latest
      BY <1>2, <2>6, AnswersNext DEF ClientInv
    <3> QED
      BY <2>3, <2>4, <2>5, <3>1 DEF KV!Next
  <2> QED
    BY <1>2, <2>2, <2>6
<1> QED
  BY <1>1, <1>2, ClientInvariance, PTL DEF OrderedSpec, ImplementsKVStore, KV!Spec
=============================================================================
