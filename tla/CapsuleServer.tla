---------------------------- MODULE CapsuleServer ----------------------------
(***************************************************************************)
(* A CapsuleDB behind a ZeroMQ socket: the request loop of                 *)
(* src/src/network/capsuleDB_server.cc, or the same loop of                *)
(* capsuleDB_enclave_server.cc with the database in an enclave             *)
(* (src/src/enclave), and clients that run test_files/test_network.cc.     *)
(*                                                                         *)
(* The server's socket is a DEALER: it takes requests from its clients in  *)
(* turn, and gives each message it sends to the next client in turn,       *)
(* whoever asked.  The clients send a put and a get of the same key, wait  *)
(* for one message, and leave.                                             *)
(***************************************************************************)
EXTENDS CapsuleDB

CONSTANTS
  Clients,  \* the runs of the client program
  MaxPeers  \* bound: clients connected at the same time

ASSUME NoEmptyKeyAssumption == EmptyKey \notin Keys

\* There is a time at which the clients' clock starts.
ASSUME ClockAssumption ==
  \E t \in Timestamps : \A u \in Timestamps : t <= u

VARIABLES
  enclave,   \* whether the database is in an enclave
  clock,     \* the clock of the clients, in seconds
  client,    \* where each client stands
  own,       \* what each client puts, and gets
  requests,  \* messages from each client, not yet received
  replies,   \* messages to each client, not yet received
  answer,    \* the payload each client has received
  peers,     \* the clients the socket sends to, in its order
  turn       \* which of them is next

db == <<index, memtable, locklst, call>>
clientVars == <<client, own, answer>>
socketVars == <<requests, replies, peers, turn>>
allVars == <<db, enclave, clock, clientVars, socketVars>>

\* DBRequest.  Protobuf reads a field that is not set as empty.
Request == [requestedkey : Keys \cup {EmptyKey}, payload : Payload \cup {NoPayload}]
PutRequest(p) == [requestedkey |-> EmptyKey, payload |-> p]
GetRequest(key) == [requestedkey |-> key, payload |-> NoPayload]

\* The payload in a reply: one without a key if the get has missed.
Reply == [key : Keys \cup {EmptyKey}, version : Version \cup {NotFound}]

ServerTypeOK ==
  /\ TypeOK
  /\ enclave \in BOOLEAN
  /\ clock \in Timestamps
  /\ client \in [Clients -> {"off", "put", "get", "wait", "done"}]
  /\ own \in [Clients -> Payload \cup {NoPayload}]
  /\ requests \in [Clients -> Seq(Request)]
  /\ replies \in [Clients -> Seq(Reply)]
  /\ answer \in [Clients -> Reply \cup {NotFound}]
  /\ peers \in Seq(Clients)
  /\ turn \in Nat

ServerInit ==
  /\ Init
  /\ enclave \in BOOLEAN
  /\ clock = Min(Timestamps)
  /\ client = [c \in Clients |-> "off"]
  /\ own = [c \in Clients |-> NoPayload]
  /\ requests = [c \in Clients |-> << >>]
  /\ replies = [c \in Clients |-> << >>]
  /\ answer = [c \in Clients |-> NotFound]
  /\ peers = << >>
  /\ turn = 1

-----------------------------------------------------------------------------
(***************************************************************************)
(* The clients.                                                            *)
(***************************************************************************)

Tick ==
  /\ \E t \in Timestamps : t > clock /\ clock' = t
  /\ UNCHANGED <<db, enclave, clientVars, socketVars>>

\* The client connects; the socket's load balancer appends it.
Connect(c) ==
  /\ client[c] = "off"
  /\ Len(peers) < MaxPeers
  /\ client' = [client EXCEPT ![c] = "put"]
  /\ peers' = Append(peers, c)
  /\ UNCHANGED <<db, enclave, clock, own, answer, requests, replies, turn>>

\* It sends its put, with the time of day.
SendPut(c) ==
  /\ client[c] = "put"
  /\ \E key \in Keys, value \in Values :
       LET p == [key |-> key, version |-> [value |-> value, txn_timestamp |-> clock]]
       IN  /\ own' = [own EXCEPT ![c] = p]
           /\ requests' = [requests EXCEPT ![c] = Append(@, PutRequest(p))]
  /\ client' = [client EXCEPT ![c] = "get"]
  /\ UNCHANGED <<db, enclave, clock, answer, replies, peers, turn>>

\* It sends its get, without waiting.
SendGet(c) ==
  /\ client[c] = "get"
  /\ requests' = [requests EXCEPT ![c] = Append(@, GetRequest(own[c].key))]
  /\ client' = [client EXCEPT ![c] = "wait"]
  /\ UNCHANGED <<db, enclave, clock, own, answer, replies, peers, turn>>

\* The load balancer removes a client: the last takes its place.
Detach(c) ==
  LET i == CHOOSE j \in DOMAIN peers : peers[j] = c
  IN  /\ peers' = SubSeq([peers EXCEPT ![i] = peers[Len(peers)]], 1, Len(peers) - 1)
      /\ turn' = IF turn = Len(peers) THEN 1 ELSE turn

\* It takes the first message that comes for the answer, and leaves; what
\* else was on its way to it is lost.  The socket notices later that a client
\* has left; here that is the same step.  With one client at a time it makes
\* no difference, as the next connects when the one before is gone.
Receive(c) ==
  /\ client[c] = "wait"
  /\ replies[c] # << >>
  /\ answer' = [answer EXCEPT ![c] = Head(replies[c])]
  /\ client' = [client EXCEPT ![c] = "done"]
  /\ replies' = [replies EXCEPT ![c] = << >>]
  /\ Detach(c)
  /\ UNCHANGED <<db, enclave, clock, own, requests>>

-----------------------------------------------------------------------------
(***************************************************************************)
(* The server.                                                             *)
(***************************************************************************)

\* What the enclave is given: CapsuleDB_Driver::put and get copy the payload
\* or the key into a new request, and Run tells them apart as main does.
EnclaveInput(request) ==
  IF request.requestedkey = EmptyKey THEN PutRequest(request.payload)
                                     ELSE GetRequest(request.requestedkey)

\* The request as the database's side of the server sees it.
Received(c) ==
  IF enclave THEN EnclaveInput(Head(requests[c])) ELSE Head(requests[c])

\* Mutant of Receives: all that is queued is taken for one message.
ReceivesAll(c) ==
  /\ pc = "idle"
  /\ requests[c] # << >>
  /\ requests' = [requests EXCEPT ![c] = << >>]

\* The server receives a message of a client.
Receives(c) ==
  /\ pc = "idle"
  /\ requests[c] # << >>
  /\ requests' = [requests EXCEPT ![c] = Tail(@)]

\* Mutant of ServePut: an acknowledgement.
ServePutAnswered(c) ==
  /\ Receives(c)
  /\ Received(c).requestedkey = EmptyKey
  /\ peers # << >>
  /\ LET p == Received(c).payload IN put(p.key, p.version)
  /\ replies' = [replies EXCEPT ![peers[turn]] =
                   Append(@, [key |-> EmptyKey, version |-> NotFound])]
  /\ turn' = (turn % Len(peers)) + 1
  /\ UNCHANGED <<enclave, clock, clientVars, peers>>

\* A request without a requested key is a put, and is not answered.  The
\* next request waits until the put, with its compaction, has returned.
ServePut(c) ==
  /\ Receives(c)
  /\ Received(c).requestedkey = EmptyKey
  /\ LET p == Received(c).payload IN put(p.key, p.version)
  /\ UNCHANGED <<enclave, clock, clientVars, replies, peers, turn>>

\* What get returns for a key, as a reply.
Retrieved(key) ==
  [key |-> IF get(key) = NotFound THEN EmptyKey ELSE key, version |-> get(key)]

\* Any other is a get, and its answer goes to the client whose turn it is.
\* send waits while there is none.
ServeGet(c) ==
  /\ Receives(c)
  /\ Received(c).requestedkey # EmptyKey
  /\ peers # << >>
  /\ replies' = [replies EXCEPT ![peers[turn]] =
                   Append(@, Retrieved(Received(c).requestedkey))]
  /\ turn' = (turn % Len(peers)) + 1
  /\ UNCHANGED <<db, enclave, clock, clientVars, peers>>

Serve(c) == ServePut(c) \/ ServeGet(c)

\* The server is stopped and started again while no test runs.  The
\* database, which was in memory, is empty.
Restart ==
  /\ pc = "idle" /\ peers = << >>
  /\ \A c \in Clients : requests[c] = << >>
  /\ memtable' = << >> /\ locklst' = {}
  /\ numLevels' = 1 /\ levels' = [i \in {0} |-> NewLevel(2 * BlockSize)]
  /\ UNCHANGED <<call, enclave, clock, clientVars, socketVars>>

ServerNext ==
  \/ Tick
  \/ \E c \in Clients :
       Connect(c) \/ SendPut(c) \/ SendGet(c) \/ Receive(c) \/ Serve(c)
  \/ Compaction /\ UNCHANGED <<enclave, clock, clientVars, socketVars>>
  \/ Restart

ServerSpec == ServerInit /\ [][ServerNext]_allVars

\* The server and the clients that have connected run on; the socket takes
\* requests from all clients in turn.
ServerFairness ==
  /\ Fairness
  /\ \A c \in Clients :
       WF_allVars(Serve(c)) /\ WF_allVars(SendPut(c) \/ SendGet(c) \/ Receive(c))

FairServerSpec == ServerSpec /\ ServerFairness

-----------------------------------------------------------------------------
(***************************************************************************)
(* Properties.                                                             *)
(***************************************************************************)

\* A client reads back its own put, or one of the same key as late by its
\* timestamp (for one of the same second its own is discarded): the message
\* it takes for the answer to its get is that answer, the put before it has
\* been applied, and nothing older has come back since.
ReadsOwnPut ==
  \A c \in Clients : client[c] = "done" =>
    /\ answer[c].key = own[c].key
    /\ answer[c].version.txn_timestamp >= own[c].version.txn_timestamp

\* "If it is successful, you should see": every client that connects gets an
\* answer.  It has no timeout, so an answer that goes astray is never missed.
TestEnds == \A c \in Clients : client[c] = "put" ~> client[c] = "done"
=============================================================================
