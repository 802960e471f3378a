------------------------ MODULE CapsuleServerTheorems ------------------------
(***************************************************************************)
(* A client that has the server to itself reads back its own put, for      *)
(* every value of the other constants: the request loop, the socket and    *)
(* the database behind it together.                                        *)
(*                                                                         *)
(* The inductive invariant follows the messages of the one client that is  *)
(* connected: its put is queued, being worked on, applied, or answered for *)
(* by the get behind it.                                                   *)
(***************************************************************************)
EXTENDS CapsuleServer, CapsuleDBTheorems

StoreInv == IInv /\ DataInv /\ ReadInv

SocketTypes ==
  /\ client \in [Clients -> {"off", "put", "get", "wait", "done"}]
  /\ DOMAIN own = Clients /\ DOMAIN answer = Clients
  /\ DOMAIN requests = Clients /\ DOMAIN replies = Clients

Connected(c) == client[c] \in {"put", "get", "wait"}

\* At most one client is connected, and the socket's turn is its own.
PeersInv ==
  /\ turn = 1
  /\ peers = << >> \/ \E c \in Clients : peers = <<c>>
  /\ \A c \in Clients : Connected(c) <=> peers = <<c>>

\* The client has sent its put, and has not got its answer.
Talks(c) == client[c] \in {"get", "wait"}

\* The get behind a put p that the server has received.
Asked(c, p) == IF client[c] = "wait" THEN <<GetRequest(p.key)>> ELSE << >>

\* The put has not been received.
Queued(c, p) ==
  /\ requests[c] = IF client[c] = "wait" THEN <<PutRequest(p), GetRequest(p.key)>>
                                         ELSE <<PutRequest(p)>>
  /\ replies[c] = << >>
  /\ pc = "idle"
  /\ Fresh(p.key, p.version)

\* The put has started a compaction.
Working(c, p) ==
  /\ requests[c] = Asked(c, p) /\ replies[c] = << >>
  /\ pc # "idle" /\ payload = p
  /\ Fresh(p.key, p.version)

\* The put has returned: its version, or one as late, is stored.
Applied(c, p) ==
  /\ requests[c] = Asked(c, p) /\ replies[c] = << >>
  /\ pc = "idle"
  /\ \E v \in Stored(p.key) : Newer(v, p.version)

\* The get has been served.
Answered(c, p) ==
  /\ client[c] = "wait" /\ requests[c] = << >> /\ pc = "idle"
  /\ \E r : replies[c] = <<r>> /\ r.key = p.key /\ Newer(r.version, p.version)

Phase(c, p) == Queued(c, p) \/ Working(c, p) \/ Applied(c, p) \/ Answered(c, p)

TalkOf(c) ==
  IF Talks(c) THEN \E p \in Payload : /\ own[c] = p
                                      /\ p.version.txn_timestamp <= clock
                                      /\ Phase(c, p)
              ELSE requests[c] = << >> /\ replies[c] = << >>

TalkInv == \A c \in Clients : TalkOf(c)

\* A put in progress is a client's, and leaves nothing behind.
BusyInv ==
  /\ pc # "idle" => \E c \in Clients : Talks(c)
  /\ pc = "idle" => payload = NoPayload
  /\ pc # "compact" => l0Ind = 0

\* Nothing has been put at a time to come.
ClockInv ==
  /\ clock \in Timestamps
  /\ \A key : \A v \in Stored(key) : v.txn_timestamp <= clock

\* The inductive invariant.
ServerInv ==
  /\ StoreInv
  /\ SocketTypes
  /\ PeersInv
  /\ TalkInv
  /\ BusyInv
  /\ ClockInv
  /\ ReadsOwnPut

-----------------------------------------------------------------------------
(***************************************************************************)
(* The database and the other clients.                                     *)
(***************************************************************************)

\* A step that inserts no old version keeps the invariant of the database.
LEMMA StoreNext ==
  StoreInv /\ [Next]_vars /\ OrderedStep => StoreInv'
BY IInvNext, DataNext, ReadNext DEF StoreInv

\* So does a step that leaves the database alone.
LEMMA StoreSame ==
  ASSUME StoreInv, UNCHANGED db
  PROVE  /\ StoreInv'
         /\ pc' = pc /\ payload' = payload /\ l0Ind' = l0Ind
         /\ \A key : Stored(key)' = Stored(key)
<1>1. UNCHANGED vars
  BY DEF db, vars
<1>2. UNCHANGED <<memtable, numLevels, levels, pc, payload, l0Ind>>
  BY <1>1 DEF vars, index, call
<1>3. StoreInv'
  BY <1>1, <1>2, StoreNext DEF OrderedStep
<1>4. \A key : Stored(key)' = Stored(key)
  BY <1>2 DEF Stored
<1> QED
  BY <1>2, <1>3, <1>4

\* The types of versions and payloads.
LEMMA TimesAreInt ==
  /\ \A t \in Timestamps : t \in Int
  /\ \A v \in Version : v.txn_timestamp \in Timestamps /\ v.txn_timestamp \in Int
  /\ \A p \in Payload : /\ p.key \in Keys /\ p.version \in Version
                        /\ p.key # EmptyKey
                        /\ p = [key |-> p.key, version |-> p.version]
<1>1. \A t \in Timestamps : t \in Int
  BY TimestampsAssumption
<1>2. \A v \in Version : v.txn_timestamp \in Timestamps
  BY DEF Version
<1>3. \A p \in Payload : p.key \in Keys /\ p.version \in Version
  BY DEF Payload
<1>4. \A p \in Payload : p = [key |-> p.key, version |-> p.version]
  BY DEF Payload
<1> QED
  BY <1>1, <1>2, <1>3, <1>4, NoEmptyKeyAssumption

\* Only the client at the socket talks.
LEMMA OneConnected ==
  ASSUME PeersInv, NEW c \in Clients, Connected(c), NEW d \in Clients, d # c
  PROVE  peers = <<c>> /\ ~ Connected(d) /\ ~ Talks(d)
<1>1. peers = <<c>>
  BY DEF PeersInv
<1>2. peers # <<d>>
  BY <1>1
<1> QED
  BY <1>1, <1>2 DEF PeersInv, Connected, Talks

\* Who talks is connected.
LEMMA TalksConnected ==
  ASSUME NEW c, Talks(c)
  PROVE  Connected(c)
BY DEF Talks, Connected

\* The messages of the other clients stay as they are.
LEMMA OthersTalk ==
  ASSUME PeersInv, TalkInv, NEW c \in Clients, Connected(c), TalkOf(c)',
         \A d \in Clients : d # c => /\ client'[d] = client[d]
                                     /\ requests'[d] = requests[d]
                                     /\ replies'[d] = replies[d]
  PROVE  TalkInv'
<1>1. ASSUME NEW d \in Clients, d # c
      PROVE  TalkOf(d)'
  <2>1. ~ Talks(d)
    BY <1>1, OneConnected
  <2>2. ~ Talks(d)'
    BY <1>1, <2>1 DEF Talks
  <2> QED
    BY <1>1, <2>1, <2>2 DEF TalkInv, TalkOf
<1> QED
  BY <1>1 DEF TalkInv

\* A client whose messages stay as they are, in a step that leaves the
\* database as it is.
LEMMA SamePhase ==
  ASSUME NEW c, NEW p, Phase(c, p), pc' = pc, payload' = payload,
         \A key : Stored(key)' = Stored(key),
         client'[c] = client[c], requests'[c] = requests[c], replies'[c] = replies[c]
  PROVE  Phase(c, p)'
<1>1. Fresh(p.key, p.version)' <=> Fresh(p.key, p.version)
  BY DEF Fresh
<1>2. Asked(c, p)' = Asked(c, p)
  BY DEF Asked
<1>3. Queued(c, p) => Queued(c, p)'
  BY <1>1 DEF Queued
<1>4. Working(c, p) => Working(c, p)'
  BY <1>1, <1>2 DEF Working
<1>5. Applied(c, p) => Applied(c, p)'
  BY <1>2 DEF Applied
<1>6. Answered(c, p) => Answered(c, p)'
  BY DEF Answered
<1> QED
  BY <1>3, <1>4, <1>5, <1>6 DEF Phase

\* The same for all clients, while the clock may tick.
LEMMA SameTalk ==
  ASSUME TalkInv, pc' = pc, payload' = payload, \A key : Stored(key)' = Stored(key),
         UNCHANGED <<client, own, requests, replies>>,
         clock \in Timestamps, clock' \in Timestamps, clock' >= clock
  PROVE  TalkInv'
<1> SUFFICES ASSUME NEW c \in Clients
             PROVE  TalkOf(c)'
  BY DEF TalkInv
<1>1. TalkOf(c) /\ Talks(c)' = Talks(c)
  BY DEF TalkInv, Talks
<1>2. CASE ~ Talks(c)
  BY <1>1, <1>2 DEF TalkOf
<1>3. CASE Talks(c)
  <2>1. PICK p \in Payload : /\ own[c] = p
                             /\ p.version.txn_timestamp <= clock
                             /\ Phase(c, p)
    BY <1>1, <1>3 DEF TalkOf
  <2>2. Phase(c, p)'
    BY <2>1, SamePhase
  <2>3. p.version.txn_timestamp <= clock'
    BY <2>1, TimesAreInt
  <2> QED
    BY <1>1, <1>3, <2>1, <2>2, <2>3 DEF TalkOf
<1> QED
  BY <1>2, <1>3

-----------------------------------------------------------------------------
(***************************************************************************)
(* The clients' steps.                                                     *)
(***************************************************************************)

\* Time passes.
LEMMA TickStep ==
  ASSUME ServerInv, Tick
  PROVE  ServerInv'
<1>1. /\ StoreInv /\ SocketTypes /\ PeersInv /\ TalkInv /\ BusyInv /\ ClockInv /\ ReadsOwnPut
      /\ UNCHANGED db /\ UNCHANGED <<client, own, answer, requests, replies, peers, turn>>
  BY DEF ServerInv, Tick, clientVars, socketVars
<1>2. PICK t \in Timestamps : t > clock /\ clock' = t
  BY DEF Tick
<1>3. /\ StoreInv' /\ pc' = pc /\ payload' = payload /\ l0Ind' = l0Ind
      /\ \A key : Stored(key)' = Stored(key)
  BY <1>1, StoreSame
<1>4. clock \in Timestamps /\ clock' \in Timestamps /\ clock' >= clock
  BY <1>1, <1>2, TimesAreInt DEF ClockInv
<1>5. TalkInv'
  BY <1>1, <1>3, <1>4, SameTalk
<1>6. SocketTypes' /\ PeersInv' /\ BusyInv' /\ ReadsOwnPut'
  BY <1>1, <1>3 DEF SocketTypes, PeersInv, Connected, BusyInv, Talks, ReadsOwnPut
<1>7. ClockInv'
  <2>1. ASSUME NEW key, NEW v \in Stored(key)'
        PROVE  v.txn_timestamp <= clock'
    <3>1. v \in Stored(key) /\ v.txn_timestamp <= clock
      BY <1>1, <1>3 DEF ClockInv
    <3>2. v.txn_timestamp \in Int
      BY <1>1, <3>1, StoredFacts DEF StoreInv
    <3> QED
      BY <1>4, <3>1, <3>2, TimesAreInt
  <2> QED
    BY <1>4, <2>1 DEF ClockInv
<1> QED
  BY <1>3, <1>5, <1>6, <1>7 DEF ServerInv

\* What the steps of clients and the service of a get leave alone.
LEMMA DbFrame ==
  ASSUME ServerInv, UNCHANGED db, clock' = clock
  PROVE  /\ StoreInv' /\ ClockInv'
         /\ pc' = pc /\ payload' = payload /\ l0Ind' = l0Ind
         /\ \A key : Stored(key)' = Stored(key)
<1>1. /\ StoreInv' /\ pc' = pc /\ payload' = payload /\ l0Ind' = l0Ind
      /\ \A key : Stored(key)' = Stored(key)
  BY StoreSame DEF ServerInv
<1>2. ClockInv'
  BY <1>1 DEF ServerInv, ClockInv
<1> QED
  BY <1>1, <1>2

\* A client connects: it finds nobody connected, as it is the only peer.
LEMMA ConnectStep ==
  ASSUME MaxPeers = 1, ServerInv, NEW c \in Clients, Connect(c)
  PROVE  ServerInv'
<1>1. /\ StoreInv /\ SocketTypes /\ PeersInv /\ TalkInv /\ BusyInv /\ ClockInv /\ ReadsOwnPut
      /\ UNCHANGED db /\ UNCHANGED <<clock, own, answer, requests, replies, turn>>
      /\ client[c] = "off" /\ client' = [client EXCEPT ![c] = "put"]
      /\ Len(peers) < 1 /\ peers' = Append(peers, c)
  BY DEF ServerInv, Connect
<1>2. peers = << >> /\ peers' = <<c>>
  <2>1. peers = << >>
    BY <1>1 DEF PeersInv
  <2> QED
    BY <1>1, <2>1
<1>3. \A d \in Clients : ~ Connected(d) /\ ~ Talks(d)
  BY <1>1, <1>2, TalksConnected DEF PeersInv
<1>4. /\ \A d \in Clients : client'[d] = IF d = c THEN "put" ELSE client[d]
      /\ client' \in [Clients -> {"off", "put", "get", "wait", "done"}]
  BY <1>1 DEF SocketTypes
<1>5. StoreInv' /\ ClockInv' /\ pc' = pc /\ payload' = payload /\ l0Ind' = l0Ind
  BY <1>1, DbFrame
<1>6. \A d \in Clients : ~ Talks(d)'
  BY <1>3, <1>4 DEF Talks
<1>7. TalkInv'
  BY <1>1, <1>3, <1>6 DEF TalkInv, TalkOf
<1>8. PeersInv'
  <2>1. \A d \in Clients : Connected(d)' <=> d = c
    BY <1>3, <1>4 DEF Connected
  <2>2. \A d \in Clients : peers' = <<d>> <=> d = c
    BY <1>2
  <2> QED
    BY <1>1, <1>2, <2>1, <2>2 DEF PeersInv
<1>9. BusyInv' /\ SocketTypes' /\ ReadsOwnPut'
  BY <1>1, <1>3, <1>4, <1>5 DEF BusyInv, SocketTypes, ReadsOwnPut
<1> QED
  BY <1>5, <1>7, <1>8, <1>9 DEF ServerInv

\* Nothing stored is later than the clock, from which the put has its time.
LEMMA SendPutStep ==
  ASSUME ServerInv, NEW c \in Clients, SendPut(c)
  PROVE  ServerInv'
<1>1. /\ StoreInv /\ SocketTypes /\ PeersInv /\ TalkInv /\ BusyInv /\ ClockInv /\ ReadsOwnPut
      /\ UNCHANGED db /\ UNCHANGED <<clock, answer, replies, peers, turn>>
      /\ client[c] = "put" /\ client' = [client EXCEPT ![c] = "get"]
  BY DEF ServerInv, SendPut
<1>2. PICK key \in Keys, value \in Values :
        LET p == [key |-> key, version |-> [value |-> value, txn_timestamp |-> clock]]
        IN  /\ own' = [own EXCEPT ![c] = p]
            /\ requests' = [requests EXCEPT ![c] = Append(@, PutRequest(p))]
  BY DEF SendPut
<1> DEFINE q == [key |-> key, version |-> [value |-> value, txn_timestamp |-> clock]]
<1>3. PICK p \in Payload : /\ p = q /\ p.key \in Keys /\ p.version.txn_timestamp = clock
                           /\ p.version \in Version
  <2>1. q \in Payload
    BY <1>1 DEF Payload, Version, ClockInv
  <2> QED
    BY <2>1, TimesAreInt
<1>4. Connected(c) /\ ~ Talks(c)
  BY <1>1 DEF Connected, Talks
<1>5. \A d \in Clients : ~ Talks(d)
  BY <1>1, <1>4, OneConnected
<1>6. pc = "idle" /\ requests[c] = << >> /\ replies[c] = << >>
  BY <1>1, <1>5 DEF BusyInv, TalkInv, TalkOf
<1>7. /\ \A d \in Clients : client'[d] = IF d = c THEN "get" ELSE client[d]
      /\ client' \in [Clients -> {"off", "put", "get", "wait", "done"}]
      /\ own'[c] = p /\ \A d \in Clients : d # c => own'[d] = own[d]
      /\ \A d \in Clients : d # c => requests'[d] = requests[d]
      /\ DOMAIN own' = Clients /\ DOMAIN requests' = Clients
  BY <1>1, <1>2, <1>3 DEF SocketTypes
<1>8. requests'[c] = <<PutRequest(p)>>
  <2>1. requests'[c] = Append(requests[c], PutRequest(p))
    BY <1>1, <1>2, <1>3 DEF SocketTypes
  <2> QED
    BY <1>6, <2>1
<1>9. /\ StoreInv' /\ ClockInv' /\ pc' = pc /\ payload' = payload /\ l0Ind' = l0Ind
      /\ \A k : Stored(k)' = Stored(k)
  BY <1>1, DbFrame
<1>10. Fresh(p.key, p.version)'
  BY <1>1, <1>3, <1>9, StoredFacts, TimesAreInt DEF Fresh, Newer, ClockInv, StoreInv
<1>11. Talks(c)' /\ Connected(c)'
  BY <1>7 DEF Talks, Connected
<1>12. TalkOf(c)'
  <2>1. Queued(c, p)'
    BY <1>1, <1>6, <1>7, <1>8, <1>9, <1>10 DEF Queued
  <2>2. p.version.txn_timestamp <= clock'
    BY <1>1, <1>3, TimesAreInt DEF ClockInv
  <2> QED
    BY <1>7, <1>11, <2>1, <2>2 DEF TalkOf, Phase
<1>13. TalkInv'
  BY <1>1, <1>4, <1>7, <1>12, OthersTalk
<1>14. PeersInv'
  BY <1>1, <1>7 DEF PeersInv, Connected
<1>15. BusyInv' /\ SocketTypes'
  BY <1>1, <1>6, <1>7, <1>9 DEF BusyInv, SocketTypes
<1>16. ReadsOwnPut'
  BY <1>1, <1>7 DEF ReadsOwnPut
<1> QED
  BY <1>9, <1>13, <1>14, <1>15, <1>16 DEF ServerInv

\* A queue of two messages.
LEMMA AppendToOne ==
  ASSUME NEW x, NEW y
  PROVE  Append(<<x>>, y) = <<x, y>>
<1> DEFINE S == {x, y}
           s == Append(<<x>>, y)
           t == <<x, y>>
<1>1. <<x>> \in Seq(S) /\ y \in S /\ Len(<<x>>) = 1 /\ <<x>>[1] = x
  OBVIOUS
<1>2. s \in Seq(S) /\ Len(s) = 2 /\ s[1] = x /\ s[2] = y
  <2>1. 1 \in 1 .. Len(<<x>>) /\ Len(<<x>>) + 1 = 2
    BY <1>1
  <2> HIDE DEF S
  <2> QED
    BY <1>1, <2>1, AppendProperties
<1>3. t \in Seq(S) /\ Len(t) = 2 /\ t[1] = x /\ t[2] = y
  OBVIOUS
<1> HIDE DEF S, s, t
<1>4. \A i \in 1 .. 2 : s[i] = t[i]
  BY <1>2, <1>3
<1>5. s = t
  BY <1>2, <1>3, <1>4, SeqEqual
<1> QED
  BY <1>5 DEF s, t

\* The get is queued behind the put, or behind nothing if that is served.
LEMMA SendGetStep ==
  ASSUME ServerInv, NEW c \in Clients, SendGet(c)
  PROVE  ServerInv'
<1>1. /\ StoreInv /\ SocketTypes /\ PeersInv /\ TalkInv /\ BusyInv /\ ClockInv /\ ReadsOwnPut
      /\ UNCHANGED db /\ UNCHANGED <<clock, own, answer, replies, peers, turn>>
      /\ client[c] = "get" /\ client' = [client EXCEPT ![c] = "wait"]
      /\ requests' = [requests EXCEPT ![c] = Append(@, GetRequest(own[c].key))]
  BY DEF ServerInv, SendGet
<1>2. Connected(c) /\ Talks(c)
  BY <1>1 DEF Connected, Talks
<1>3. PICK p \in Payload : own[c] = p /\ p.version.txn_timestamp <= clock /\ Phase(c, p)
  BY <1>1, <1>2 DEF TalkInv, TalkOf
<1>4. /\ \A d \in Clients : client'[d] = IF d = c THEN "wait" ELSE client[d]
      /\ client' \in [Clients -> {"off", "put", "get", "wait", "done"}]
      /\ \A d \in Clients : d # c => requests'[d] = requests[d]
      /\ DOMAIN requests' = Clients
      /\ requests'[c] = Append(requests[c], GetRequest(p.key))
  BY <1>1, <1>3 DEF SocketTypes
<1>5. /\ StoreInv' /\ ClockInv' /\ pc' = pc /\ payload' = payload /\ l0Ind' = l0Ind
      /\ \A k : Stored(k)' = Stored(k)
  BY <1>1, DbFrame
<1>6. Fresh(p.key, p.version)' <=> Fresh(p.key, p.version)
  BY <1>5 DEF Fresh
<1>7. Asked(c, p) = << >> /\ Asked(c, p)' = <<GetRequest(p.key)>>
  BY <1>1, <1>4 DEF Asked
<1>8. Phase(c, p)'
  <2>1. CASE Queued(c, p)
    <3>1. requests[c] = <<PutRequest(p)>>
      BY <1>1, <2>1 DEF Queued
    <3>2. requests'[c] = <<PutRequest(p), GetRequest(p.key)>>
      BY <1>4, <3>1, AppendToOne
    <3> QED
      BY <1>1, <1>4, <1>5, <1>6, <2>1, <3>2 DEF Queued, Phase
  <2>2. CASE Working(c, p) \/ Applied(c, p)
    <3>1. requests[c] = << >>
      BY <1>7, <2>2 DEF Working, Applied
    <3>2. requests'[c] = <<GetRequest(p.key)>>
      BY <1>4, <3>1
    <3> QED
      BY <1>1, <1>5, <1>6, <1>7, <2>2, <3>2 DEF Working, Applied, Phase
  <2> QED
    BY <1>1, <1>3, <2>1, <2>2 DEF Phase, Answered
<1>9. Talks(c)' /\ TalkOf(c)'
  <2>1. Talks(c)'
    BY <1>4 DEF Talks
  <2> QED
    BY <1>1, <1>3, <1>8, <2>1 DEF TalkOf
<1>10. TalkInv'
  BY <1>1, <1>2, <1>4, <1>9, OthersTalk
<1>11. PeersInv'
  BY <1>1, <1>4 DEF PeersInv, Connected
<1>12. BusyInv' /\ SocketTypes'
  BY <1>1, <1>4, <1>5, <1>9 DEF BusyInv, SocketTypes
<1>13. ReadsOwnPut'
  BY <1>1, <1>4 DEF ReadsOwnPut
<1> QED
  BY <1>5, <1>10, <1>11, <1>12, <1>13 DEF ServerInv

\* The only reply there can be is the answer.
LEMMA ReceiveStep ==
  ASSUME ServerInv, NEW c \in Clients, Receive(c)
  PROVE  ServerInv'
<1>1. /\ StoreInv /\ SocketTypes /\ PeersInv /\ TalkInv /\ BusyInv /\ ClockInv /\ ReadsOwnPut
      /\ UNCHANGED db /\ UNCHANGED <<clock, own, requests>>
      /\ client[c] = "wait" /\ client' = [client EXCEPT ![c] = "done"]
      /\ replies[c] # << >> /\ replies' = [replies EXCEPT ![c] = << >>]
      /\ answer' = [answer EXCEPT ![c] = Head(replies[c])]
      /\ Detach(c)
  BY DEF ServerInv, Receive
<1>2. Connected(c) /\ Talks(c)
  BY <1>1 DEF Connected, Talks
<1>3. PICK p \in Payload : own[c] = p /\ p.version.txn_timestamp <= clock /\ Phase(c, p)
  BY <1>1, <1>2 DEF TalkInv, TalkOf
<1>4. Answered(c, p)
  BY <1>1, <1>3 DEF Phase, Queued, Working, Applied
<1>5. PICK r : replies[c] = <<r>> /\ r.key = p.key /\ Newer(r.version, p.version)
  BY <1>4 DEF Answered
<1>6. peers = <<c>> /\ turn = 1
  BY <1>1, <1>2 DEF PeersInv
<1>7. peers' = << >> /\ turn' = 1
  <2>1. Len(peers) = 1 /\ Len(peers) - 1 = 0
    BY <1>6
  <2> DEFINE i == CHOOSE j \in DOMAIN peers : peers[j] = c
             s == [peers EXCEPT ![i] = peers[Len(peers)]]
  <2>2. peers' = SubSeq(s, 1, Len(peers) - 1) /\ turn' = 1
    BY <1>1, <1>6, <2>1 DEF Detach
  <2>3. s \in Seq(Clients)
    <3>1. peers \in Seq(Clients) /\ DOMAIN peers = {1} /\ peers[1] = c
      BY <1>6
    <3>2. i = 1
      BY <3>1
    <3>3. s = peers
      BY <2>1, <3>1, <3>2
    <3> QED
      BY <3>1, <3>3
  <2> HIDE DEF s
  <2>4. SubSeq(s, 1, 0) = << >>
    BY <2>3
  <2> QED
    BY <2>1, <2>2, <2>4
<1>8. /\ \A d \in Clients : client'[d] = IF d = c THEN "done" ELSE client[d]
      /\ client' \in [Clients -> {"off", "put", "get", "wait", "done"}]
      /\ \A d \in Clients : d # c => replies'[d] = replies[d] /\ answer'[d] = answer[d]
      /\ DOMAIN replies' = Clients /\ DOMAIN answer' = Clients
      /\ replies'[c] = << >> /\ answer'[c] = r
  BY <1>1, <1>5 DEF SocketTypes
<1>9. /\ StoreInv' /\ ClockInv' /\ pc' = pc /\ payload' = payload /\ l0Ind' = l0Ind
  BY <1>1, DbFrame
<1>10. TalkOf(c)'
  BY <1>1, <1>4, <1>8 DEF TalkOf, Talks, Answered
<1>11. TalkInv'
  BY <1>1, <1>2, <1>8, <1>10, OthersTalk
<1>12. PeersInv'
  <2>1. \A d \in Clients : ~ Connected(d)'
    BY <1>1, <1>2, <1>8, OneConnected DEF Connected
  <2>2. \A d \in Clients : << >> # <<d>>
    OBVIOUS
  <2> QED
    BY <1>7, <2>1, <2>2 DEF PeersInv
<1>13. BusyInv' /\ SocketTypes'
  BY <1>1, <1>4, <1>8, <1>9 DEF BusyInv, SocketTypes, Answered
<1>14. ReadsOwnPut'
  BY <1>1, <1>3, <1>5, <1>8 DEF ReadsOwnPut, Newer
<1> QED
  BY <1>9, <1>11, <1>12, <1>13, <1>14 DEF ServerInv

-----------------------------------------------------------------------------
(***************************************************************************)
(* The server's steps.                                                     *)
(***************************************************************************)

\* A step of the database for a put that nothing stored is newer than.
LEMMA PutStep ==
  ASSUME StoreInv, ClockInv, [Next]_vars, clock' = clock,
         NEW p \in Payload, p.version.txn_timestamp <= clock, Fresh(p.key, p.version),
         UNCHANGED memtable \/ Inserts(p.key, p.version)
  PROVE  /\ StoreInv' /\ ClockInv' /\ Fresh(p.key, p.version)'
         /\ Inserts(p.key, p.version) => p.version \in Stored(p.key)'
<1>1. p.key \in Keys /\ p.version \in Version
  BY TimesAreInt
<1>2. OrderedStep
  BY <1>1 DEF OrderedStep
<1>3. StoreInv'
  BY <1>2, StoreNext
<1>4. \A key : \A v \in Stored(key)' : v \in Stored(key) \/ (key = p.key /\ v = p.version)
  BY <1>1, StoredAfter DEF StoreInv, ReadInv
<1>5. ClockInv'
  BY <1>4 DEF ClockInv
<1>6. Fresh(p.key, p.version)'
  BY <1>1, <1>4, NewerItself DEF Fresh
<1>7. ASSUME Inserts(p.key, p.version)
      PROVE  p.version \in Stored(p.key)'
  <2>1. p.key \in DOMAIN memtable' /\ memtable'[p.key] = p.version
    BY <1>1, <1>7, InsertFacts DEF StoreInv
  <2>2. (\A key : \A v : v \in Stored(key) <=>
          \/ key \in DOMAIN memtable /\ v = memtable[key]
          \/ \E i \in 0 .. numLevels - 1 : InLevel(i, key, v))'
    BY StoredHolds, PTL
  <2> QED
    BY <2>1, <2>2
<1> QED
  BY <1>3, <1>5, <1>6, <1>7

\* The request the server takes next is the put of the client that talks, or
\* its get once the put has been applied, with or without an enclave.
LEMMA NextRequest ==
  ASSUME ServerInv, NEW c \in Clients, pc = "idle", requests[c] # << >>
  PROVE  /\ Talks(c)
         /\ \E p \in Payload :
              /\ own[c] = p /\ p.version.txn_timestamp <= clock
              /\ \/ /\ Queued(c, p) /\ Received(c) = PutRequest(p)
                    /\ Tail(requests[c]) = Asked(c, p)
                 \/ /\ Applied(c, p) /\ Received(c) = GetRequest(p.key)
                    /\ client[c] = "wait" /\ Tail(requests[c]) = << >>
<1>1. Talks(c)
  BY DEF ServerInv, TalkInv, TalkOf
<1>2. PICK p \in Payload : own[c] = p /\ p.version.txn_timestamp <= clock /\ Phase(c, p)
  BY <1>1 DEF ServerInv, TalkInv, TalkOf
<1>3. p.key # EmptyKey
  BY TimesAreInt
<1>4. CASE Queued(c, p)
  <2>1. Head(requests[c]) = PutRequest(p) /\ Tail(requests[c]) = Asked(c, p)
    <3> DEFINE x == PutRequest(p)
               y == GetRequest(p.key)
    <3>1. /\ client[c] = "wait" => requests[c] = <<x, y>> /\ Asked(c, p) = <<y>>
          /\ client[c] # "wait" => requests[c] = <<x>> /\ Asked(c, p) = << >>
      BY <1>4 DEF Queued, Asked
    <3> HIDE DEF x, y
    <3>2. /\ Head(<<x, y>>) = x /\ Tail(<<x, y>>) = <<y>>
          /\ Head(<<x>>) = x /\ Tail(<<x>>) = << >>
      OBVIOUS
    <3>3. Head(requests[c]) = x /\ Tail(requests[c]) = Asked(c, p)
      BY <3>1, <3>2
    <3> QED
      BY <3>3 DEF x
  <2>2. EnclaveInput(PutRequest(p)) = PutRequest(p)
    BY DEF EnclaveInput, PutRequest
  <2> QED
    BY <1>1, <1>2, <1>4, <2>1, <2>2 DEF Received
<1>5. CASE Applied(c, p)
  <2>1. client[c] = "wait" /\ requests[c] = <<GetRequest(p.key)>>
    BY <1>5 DEF Applied, Asked
  <2>2. Head(requests[c]) = GetRequest(p.key) /\ Tail(requests[c]) = << >>
    <3> DEFINE y == GetRequest(p.key)
    <3>1. requests[c] = <<y>>
      BY <2>1
    <3> HIDE DEF y
    <3>2. Head(requests[c]) = y /\ Tail(requests[c]) = << >>
      BY <3>1
    <3> QED
      BY <3>2 DEF y
  <2>3. EnclaveInput(GetRequest(p.key)) = GetRequest(p.key)
    BY <1>3 DEF EnclaveInput, GetRequest
  <2> QED
    BY <1>1, <1>2, <1>5, <2>1, <2>2, <2>3 DEF Received
<1> QED
  BY <1>2, <1>4, <1>5 DEF Phase, Working, Answered

\* The put is discarded for one as late, applied, or starts to compact.
LEMMA ServePutStep ==
  ASSUME ServerInv, NEW c \in Clients, ServePut(c)
  PROVE  ServerInv'
<1>1. /\ StoreInv /\ SocketTypes /\ PeersInv /\ TalkInv /\ BusyInv /\ ClockInv /\ ReadsOwnPut
      /\ UNCHANGED <<clock, client, own, answer, replies, peers, turn>>
      /\ pc = "idle" /\ requests[c] # << >>
      /\ requests' = [requests EXCEPT ![c] = Tail(@)]
      /\ Received(c).requestedkey = EmptyKey
      /\ put(Received(c).payload.key, Received(c).payload.version)
  BY DEF ServerInv, ServePut, Receives, clientVars
<1>2. Talks(c) /\ Connected(c)
  BY <1>1, NextRequest, TalksConnected
<1>3. PICK p \in Payload :
        /\ own[c] = p /\ p.version.txn_timestamp <= clock
        /\ \/ /\ Queued(c, p) /\ Received(c) = PutRequest(p)
              /\ Tail(requests[c]) = Asked(c, p)
           \/ /\ Applied(c, p) /\ Received(c) = GetRequest(p.key)
              /\ client[c] = "wait" /\ Tail(requests[c]) = << >>
  BY <1>1, NextRequest
<1>4. p.key \in Keys /\ p.version \in Version /\ p.key # EmptyKey
  BY TimesAreInt
<1>5. GetRequest(p.key).requestedkey = p.key /\ PutRequest(p).payload = p
  BY DEF GetRequest, PutRequest
<1>6. /\ Queued(c, p) /\ Tail(requests[c]) = Asked(c, p) /\ put(p.key, p.version)
      /\ Fresh(p.key, p.version) /\ replies[c] = << >>
  <2>1. Received(c) # GetRequest(p.key)
    BY <1>1, <1>4, <1>5
  <2>2. Queued(c, p) /\ Received(c) = PutRequest(p) /\ Tail(requests[c]) = Asked(c, p)
    BY <1>3, <2>1
  <2> QED
    BY <1>1, <1>5, <2>2 DEF Queued
<1>7. /\ \A d \in Clients : d # c => requests'[d] = requests[d]
      /\ DOMAIN requests' = Clients /\ requests'[c] = Asked(c, p)
  BY <1>1, <1>6 DEF SocketTypes
<1>8. Asked(c, p)' = Asked(c, p) /\ Talks(c)'
  BY <1>1, <1>2 DEF Asked, Talks
<1>9. [Next]_vars
  BY <1>4, <1>6 DEF Next
<1>10. UNCHANGED memtable \/ Inserts(p.key, p.version)
  BY <1>6 DEF put, Inserts, PutEarlier, PutCompact, vars
<1>11. /\ StoreInv' /\ ClockInv' /\ Fresh(p.key, p.version)'
       /\ Inserts(p.key, p.version) => p.version \in Stored(p.key)'
  BY <1>1, <1>3, <1>6, <1>9, <1>10, PutStep
<1>12. Phase(c, p)' /\ BusyInv'
  <2>1. CASE PutEarlier(p.key, p.version)
    <3>1. /\ p.key \in DOMAIN memtable /\ UNCHANGED db
          /\ p.version.txn_timestamp <= memtable[p.key].txn_timestamp
      BY <1>1, <2>1 DEF PutEarlier, vars, db, StoreInv, IInv, TypeInv
    <3>2. memtable[p.key] \in Stored(p.key)
      BY <3>1, StoredHolds
    <3>3. Newer(memtable[p.key], p.version)
      BY <1>1, <1>4, <3>1, <3>2, StoredFacts, TimesAreInt DEF Newer, StoreInv
    <3>4. /\ pc' = pc /\ payload' = payload /\ l0Ind' = l0Ind
          /\ Stored(p.key)' = Stored(p.key)
      BY <1>1, <3>1, StoreSame
    <3>5. Applied(c, p)'
      BY <1>1, <1>6, <1>7, <1>8, <3>2, <3>3, <3>4 DEF Applied
    <3> QED
      BY <1>1, <3>4, <3>5 DEF Phase, BusyInv
  <2>2. CASE \/ PutLater(p.key, p.version) \/ PutNew(p.key, p.version)
             \/ PutWriteOut(p.key, p.version)
    <3>1. /\ Inserts(p.key, p.version)
          /\ pc' = pc /\ payload' = payload /\ l0Ind' = l0Ind
      BY <2>2 DEF Inserts, PutLater, PutNew, PutWriteOut, call
    <3>2. Applied(c, p)'
      BY <1>1, <1>4, <1>6, <1>7, <1>8, <1>11, <3>1, NewerItself DEF Applied
    <3> QED
      BY <1>1, <3>1, <3>2 DEF Phase, BusyInv
  <2>3. CASE PutCompact(p.key, p.version)
    <3>1. pc' = "compact" /\ payload' = [key |-> p.key, version |-> p.version]
      BY <2>3 DEF PutCompact
    <3>2. payload' = p
      BY <3>1, TimesAreInt
    <3>3. Working(c, p)'
      BY <1>1, <1>6, <1>7, <1>8, <1>11, <3>1, <3>2 DEF Working
    <3> QED
      BY <1>8, <3>1, <3>3 DEF Phase, BusyInv
  <2> QED
    BY <1>6, <2>1, <2>2, <2>3 DEF put
<1>13. TalkOf(c)'
  BY <1>1, <1>3, <1>8, <1>12 DEF TalkOf
<1>14. TalkInv'
  BY <1>1, <1>2, <1>7, <1>13, OthersTalk
<1>15. SocketTypes' /\ PeersInv' /\ ReadsOwnPut'
  BY <1>1, <1>7 DEF SocketTypes, PeersInv, Connected, ReadsOwnPut
<1> QED
  BY <1>11, <1>12, <1>14, <1>15 DEF ServerInv

\* get returns the newest version, and the only peer is the one who asked.
LEMMA ServeGetStep ==
  ASSUME ServerInv, NEW c \in Clients, ServeGet(c)
  PROVE  ServerInv'
<1>1. /\ StoreInv /\ SocketTypes /\ PeersInv /\ TalkInv /\ BusyInv /\ ClockInv /\ ReadsOwnPut
      /\ UNCHANGED db /\ UNCHANGED <<clock, client, own, answer, peers>>
      /\ pc = "idle" /\ requests[c] # << >>
      /\ requests' = [requests EXCEPT ![c] = Tail(@)]
      /\ Received(c).requestedkey # EmptyKey
      /\ replies' = [replies EXCEPT ![peers[turn]] =
                       Append(@, Retrieved(Received(c).requestedkey))]
      /\ turn' = (turn % Len(peers)) + 1
  BY DEF ServerInv, ServeGet, Receives, clientVars
<1>2. Talks(c) /\ Connected(c)
  BY <1>1, NextRequest, TalksConnected
<1>3. PICK p \in Payload :
        /\ own[c] = p /\ p.version.txn_timestamp <= clock
        /\ \/ /\ Queued(c, p) /\ Received(c) = PutRequest(p)
              /\ Tail(requests[c]) = Asked(c, p)
           \/ /\ Applied(c, p) /\ Received(c) = GetRequest(p.key)
              /\ client[c] = "wait" /\ Tail(requests[c]) = << >>
  BY <1>1, NextRequest
<1>4. p.key \in Keys /\ p.version \in Version /\ p.key # EmptyKey
  BY TimesAreInt
<1>5. GetRequest(p.key).requestedkey = p.key /\ PutRequest(p).requestedkey = EmptyKey
  BY DEF GetRequest, PutRequest
<1>6. /\ Applied(c, p) /\ client[c] = "wait" /\ Tail(requests[c]) = << >>
      /\ Received(c).requestedkey = p.key /\ replies[c] = << >>
  <2>1. Received(c) # PutRequest(p)
    BY <1>1, <1>5
  <2>2. Applied(c, p) /\ Received(c) = GetRequest(p.key)
    BY <1>3, <2>1
  <2> QED
    BY <1>3, <1>5, <2>1, <2>2 DEF Applied
<1>7. peers = <<c>> /\ turn = 1 /\ turn' = 1 /\ peers[turn] = c
  <2>1. peers = <<c>> /\ turn = 1
    BY <1>1, <1>2 DEF PeersInv
  <2>2. Len(peers) = 1 /\ peers[1] = c
    BY <2>1
  <2>3. (1 % 1) + 1 = 1
    OBVIOUS
  <2> QED
    BY <1>1, <2>1, <2>2, <2>3
<1>8. /\ get(p.key) \in Version /\ Newer(get(p.key), p.version)
  <2>1. PICK v \in Stored(p.key) : Newer(v, p.version)
    BY <1>6 DEF Applied
  <2>2. get(p.key) \in Stored(p.key) /\ Newer(get(p.key), v)
    BY <1>1, <1>4, <2>1, GetIsNewest, NoEmptyKeyAssumption DEF StoreInv
  <2>3. v \in Version /\ get(p.key) \in Version
    BY <1>1, <2>1, <2>2, StoredFacts DEF StoreInv
  <2> QED
    BY <1>4, <2>1, <2>2, <2>3, NewerTransitive
<1>9. PICK r : /\ r = Retrieved(p.key) /\ r.key = p.key /\ Newer(r.version, p.version)
  <2>1. get(p.key) # NotFound
    BY <1>8, NotFoundAssumption
  <2>2. /\ Retrieved(p.key).key = p.key /\ Retrieved(p.key).version = get(p.key)
    BY <2>1 DEF Retrieved
  <2> QED
    BY <1>8, <2>2
<1>10. /\ \A d \in Clients : d # c => requests'[d] = requests[d] /\ replies'[d] = replies[d]
       /\ DOMAIN requests' = Clients /\ DOMAIN replies' = Clients
       /\ requests'[c] = << >> /\ replies'[c] = Append(replies[c], r)
  BY <1>1, <1>6, <1>7, <1>9 DEF SocketTypes
<1>11. replies'[c] = <<r>>
  BY <1>6, <1>10
<1>12. /\ StoreInv' /\ ClockInv' /\ pc' = pc /\ payload' = payload /\ l0Ind' = l0Ind
  BY <1>1, DbFrame
<1>13. Talks(c)' /\ TalkOf(c)'
  <2>1. Talks(c)'
    BY <1>1, <1>2 DEF Talks
  <2>2. Answered(c, p)'
    BY <1>1, <1>6, <1>9, <1>10, <1>11, <1>12 DEF Answered
  <2> QED
    BY <1>1, <1>3, <2>1, <2>2 DEF TalkOf, Phase
<1>14. TalkInv'
  BY <1>1, <1>2, <1>10, <1>13, OthersTalk
<1>15. SocketTypes' /\ PeersInv' /\ ReadsOwnPut' /\ BusyInv'
  BY <1>1, <1>7, <1>10, <1>12, <1>13
     DEF SocketTypes, PeersInv, Connected, ReadsOwnPut, BusyInv
<1> QED
  BY <1>12, <1>14, <1>15 DEF ServerInv

\* A step of the compaction belongs to the put of the client that talks.
LEMMA CompactionStep ==
  ASSUME ServerInv, Compaction, UNCHANGED <<enclave, clock, clientVars, socketVars>>
  PROVE  ServerInv'
<1>1. /\ StoreInv /\ SocketTypes /\ PeersInv /\ TalkInv /\ BusyInv /\ ClockInv /\ ReadsOwnPut
      /\ UNCHANGED <<clock, client, own, answer, requests, replies, peers, turn>>
  BY DEF ServerInv, clientVars, socketVars
<1>2. pc # "idle"
  BY DEF Compaction, CompactMergeL0, CompactCall, HelperEvict, HelperFits, HelperReturn,
         CompactReturn
<1>3. PICK c \in Clients : Talks(c)
  BY <1>1, <1>2 DEF BusyInv
<1>4. Connected(c)
  BY <1>3, TalksConnected
<1>5. PICK p \in Payload : own[c] = p /\ p.version.txn_timestamp <= clock /\ Phase(c, p)
  BY <1>1, <1>3 DEF TalkInv, TalkOf
<1>6. Working(c, p) /\ payload = p /\ Fresh(p.key, p.version)
  BY <1>2, <1>5 DEF Phase, Queued, Applied, Answered, Working
<1>7. p.key \in Keys /\ p.version \in Version
  BY TimesAreInt
<1>8. /\ ~ CompactReturn => /\ UNCHANGED memtable /\ payload' = payload /\ pc' # "idle"
                            /\ pc' # "compact" => l0Ind' = 0
      /\ CompactReturn => /\ Inserts(p.key, p.version) /\ pc' = "idle"
                          /\ payload' = NoPayload /\ l0Ind' = 0
  <2>1. CASE CompactMergeL0
    BY <1>2, <2>1 DEF CompactMergeL0, CompactReturn
  <2>2. CASE CompactCall
    BY <2>2 DEF CompactCall, CompactReturn
  <2>3. CASE HelperEvict
    BY <1>1, <2>3 DEF HelperEvict, CompactReturn, BusyInv
  <2>4. CASE HelperFits \/ HelperReturn
    BY <1>1, <2>4 DEF HelperFits, HelperReturn, HelperMerge, CompactReturn, BusyInv
  <2>5. CASE CompactReturn
    BY <1>1, <1>6, <2>5 DEF CompactReturn, Inserts, BusyInv
  <2> QED
    BY <2>1, <2>2, <2>3, <2>4, <2>5 DEF Compaction
<1>9. [Next]_vars
  BY DEF Next
<1>10. /\ StoreInv' /\ ClockInv' /\ Fresh(p.key, p.version)'
       /\ Inserts(p.key, p.version) => p.version \in Stored(p.key)'
  BY <1>1, <1>5, <1>6, <1>8, <1>9, PutStep
<1>11. Asked(c, p)' = Asked(c, p) /\ Talks(c)'
  BY <1>1, <1>3 DEF Asked, Talks
<1>12. Phase(c, p)'
  <2>1. CASE CompactReturn
    <3>1. Applied(c, p)'
      BY <1>1, <1>6, <1>7, <1>8, <1>10, <1>11, <2>1, NewerItself DEF Applied, Working
    <3> QED
      BY <3>1 DEF Phase
  <2>2. CASE ~ CompactReturn
    <3>1. Working(c, p)'
      BY <1>1, <1>6, <1>8, <1>10, <1>11, <2>2 DEF Working
    <3> QED
      BY <3>1 DEF Phase
  <2> QED
    BY <2>1, <2>2
<1>13. TalkOf(c)'
  BY <1>1, <1>5, <1>11, <1>12 DEF TalkOf
<1>14. TalkInv'
  BY <1>1, <1>4, <1>13, OthersTalk
<1>15. BusyInv'
  BY <1>8, <1>11 DEF BusyInv
<1>16. SocketTypes' /\ PeersInv' /\ ReadsOwnPut'
  BY <1>1 DEF SocketTypes, PeersInv, Connected, ReadsOwnPut
<1> QED
  BY <1>10, <1>14, <1>15, <1>16 DEF ServerInv

\* A new database has its invariant.
LEMMA StoreInit == Init => StoreInv
BY IInvInit, DataInit, ReadInit DEF StoreInv

\* The server is restarted while nobody talks.
LEMMA RestartStep ==
  ASSUME ServerInv, Restart
  PROVE  ServerInv'
<1>1. /\ StoreInv /\ SocketTypes /\ PeersInv /\ TalkInv /\ BusyInv /\ ClockInv /\ ReadsOwnPut
      /\ UNCHANGED <<clock, client, own, answer, requests, replies, peers, turn>>
      /\ UNCHANGED <<pc, payload, l0Ind, frames>>
      /\ pc = "idle" /\ peers = << >>
      /\ memtable' = << >> /\ locklst' = {} /\ numLevels' = 1
      /\ levels' = [i \in {0} |-> NewLevel(2 * BlockSize)]
  BY DEF ServerInv, Restart, clientVars, socketVars, call
<1>2. payload = NoPayload /\ l0Ind = 0 /\ frames = << >>
  BY <1>1 DEF BusyInv, StoreInv, IInv, CallInv
<1>3. Init'
  BY <1>1, <1>2 DEF Init
<1>4. (Init => StoreInv)' /\ (Init => \A key : Stored(key) = {})'
  BY StoreInit, NothingStored, PTL
<1>5. StoreInv' /\ ClockInv'
  BY <1>1, <1>3, <1>4 DEF ClockInv
<1>6. \A c \in Clients : ~ Talks(c) /\ ~ Talks(c)'
  <2>1. ASSUME NEW c \in Clients
        PROVE  ~ Talks(c)
    <3>1. << >> # <<c>>
      OBVIOUS
    <3>2. ~ Connected(c)
      BY <1>1, <3>1 DEF PeersInv
    <3> QED
      BY <3>2, TalksConnected
  <2> QED
    BY <1>1, <2>1 DEF Talks
<1>7. TalkInv'
  BY <1>1, <1>6 DEF TalkInv, TalkOf
<1>8. SocketTypes' /\ PeersInv' /\ ReadsOwnPut' /\ BusyInv'
  BY <1>1 DEF SocketTypes, PeersInv, Connected, ReadsOwnPut, BusyInv
<1> QED
  BY <1>5, <1>7, <1>8 DEF ServerInv

-----------------------------------------------------------------------------

\* Nobody has connected, and nothing is stored.
LEMMA ServerInvInit == ServerInit => ServerInv
<1> SUFFICES ASSUME ServerInit PROVE ServerInv
  OBVIOUS
<1>1. StoreInv
  BY StoreInit DEF ServerInit
<1>2. clock \in Timestamps
  <2>1. PICK t \in Timestamps : \A u \in Timestamps : t <= u
    BY ClockAssumption
  <2> QED
    BY <2>1 DEF ServerInit, Min
<1>3. ClockInv
  BY <1>2, NothingStored DEF ServerInit, ClockInv
<1>4. \A c \in Clients : client[c] = "off" /\ requests[c] = << >> /\ replies[c] = << >>
  BY DEF ServerInit
<1>5. SocketTypes
  BY DEF ServerInit, SocketTypes
<1>6. PeersInv
  <2>1. \A c \in Clients : << >> # <<c>>
    OBVIOUS
  <2>2. \A c \in Clients : ~ Connected(c)
    BY <1>4 DEF Connected
  <2>3. turn = 1 /\ peers = << >>
    BY DEF ServerInit
  <2> QED
    BY <2>1, <2>2, <2>3 DEF PeersInv
<1>7. TalkInv
  BY <1>4 DEF TalkInv, TalkOf, Talks
<1>8. BusyInv
  BY DEF ServerInit, Init, BusyInv
<1>9. ReadsOwnPut
  BY <1>4 DEF ReadsOwnPut
<1> QED
  BY <1>1, <1>3, <1>5, <1>6, <1>7, <1>8, <1>9 DEF ServerInv

\* Every step preserves the invariant, with one client at a time.
LEMMA ServerInvNext ==
  ASSUME MaxPeers = 1, ServerInv, [ServerNext]_allVars
  PROVE  ServerInv'
<1>1. CASE UNCHANGED allVars
  <2>1. /\ StoreInv /\ SocketTypes /\ PeersInv /\ TalkInv /\ BusyInv /\ ClockInv
        /\ ReadsOwnPut /\ UNCHANGED db
        /\ UNCHANGED <<clock, client, own, answer, requests, replies, peers, turn>>
    BY <1>1 DEF ServerInv, allVars, clientVars, socketVars
  <2>2. /\ StoreInv' /\ ClockInv' /\ pc' = pc /\ payload' = payload /\ l0Ind' = l0Ind
        /\ \A key : Stored(key)' = Stored(key)
    BY <2>1, DbFrame
  <2>3. clock \in Timestamps /\ clock' \in Timestamps /\ clock' >= clock
    BY <2>1, TimesAreInt DEF ClockInv
  <2>4. TalkInv'
    BY <2>1, <2>2, <2>3, SameTalk
  <2>5. SocketTypes' /\ PeersInv' /\ BusyInv' /\ ReadsOwnPut'
    BY <2>1, <2>2 DEF SocketTypes, PeersInv, Connected, BusyInv, Talks, ReadsOwnPut
  <2> QED
    BY <2>2, <2>4, <2>5 DEF ServerInv
<1>2. ASSUME NEW c \in Clients,
             Connect(c) \/ SendPut(c) \/ SendGet(c) \/ Receive(c) \/ Serve(c)
      PROVE  ServerInv'
  BY <1>2, ConnectStep, SendPutStep, SendGetStep, ReceiveStep, ServePutStep, ServeGetStep
     DEF Serve
<1> QED
  BY <1>1, <1>2, TickStep, CompactionStep, RestartStep DEF ServerNext

(***************************************************************************)
(* A client that has the server to itself while it runs reads back its own *)
(* put or one of its key as late by its timestamp (a put of another client *)
(* in the same second, say), whatever other clients have put before,       *)
(* whatever compactions its put starts, in any number of levels, and       *)
(* whether the database is in an enclave or not: the loop of               *)
(* capsuleDB_server.cc answers the get behind the put with the put         *)
(* applied, and the only message that comes for the client is that answer. *)
(***************************************************************************)
THEOREM LoneClientReadsOwnPut ==
  ASSUME MaxPeers = 1
  PROVE  ServerSpec => []ReadsOwnPut
<1>1. ServerInv /\ [ServerNext]_allVars => ServerInv'
  BY ServerInvNext
<1>2. ServerInv => ReadsOwnPut
  BY DEF ServerInv
<1> QED
  BY <1>1, <1>2, ServerInvInit, PTL DEF ServerSpec
=============================================================================
