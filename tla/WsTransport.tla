----------------------------- MODULE WsTransport -----------------------------
(***************************************************************************)
(* Broadcasts to the browsers (web_ws_transport.cpp): producers leave      *)
(* complete messages in a bounded mailbox, a small task asks httpd to      *)
(* drain one, and httpd alone touches sockets.  httpd_queue_work() may     *)
(* lose the request although it reports success.                           *)
(***************************************************************************)
EXTENDS Integers, Sequences, FiniteSets

CONSTANTS
  Fds,          \* sockets
  MaxOpens,     \* bound: connections opened in all; a generation is one of them
  MaxJobs,      \* bound: work items waiting in httpd
  MaxPending,   \* MAX_PENDING (8)
  MaxBytes      \* MAX_BYTES (8192), in units of a log line

ASSUME MailboxAssumption == MaxPending \in Nat \ {0} /\ MaxBytes \in Nat

VARIABLES
  clients,   \* _clients: the generation of each socket, 0 when it has none
  opened,    \* _generation
  socket,    \* the connection on each socket, 0 when it is closed
  broken,    \* connections with a failed or partial frame on the wire
  pending,   \* _pending
  bytes,     \* _bytes
  flight,    \* the message httpd is sending, and the sockets still to serve
  jobs,      \* work items in httpd's control mailbox
  worker,    \* where run() waits: "ready", "submit" or "sent"
  ready,     \* the semaphore _ready
  strayed    \* whether a frame went to another connection than it was published for,
             \* or to a broken one

wsVars == <<clients, opened, socket, broken, pending, bytes, flight, jobs, worker, ready, strayed>>

None == [kind |-> "none"]
NoBody == 0   \* of the messages only the end of a scan is told apart, by its number
Kinds == {"state", "discovery", "log"}
SizeOf(kind) == CASE kind = "state" -> 2 [] kind = "discovery" -> 2 [] OTHER -> 1

WsInit ==
  /\ clients = [f \in Fds |-> 0]
  /\ opened = 0
  /\ socket = [f \in Fds |-> 0]
  /\ broken = {}
  /\ pending = << >>
  /\ bytes = 0
  /\ flight = None
  /\ jobs = 0
  /\ worker = "ready"
  /\ ready = FALSE
  /\ strayed = FALSE

HasClients == \E f \in Fds : clients[f] # 0

---------------------------------------------------------------------------
(***************************************************************************)
(* publish()                                                               *)
(***************************************************************************)
Places(q, kind) == {i \in DOMAIN q : q[i].kind = kind}
Weight(q) == Len(q) + Cardinality({i \in DOMAIN q : q[i].kind # "log"})

\* q with what is at the places of keep, in its order: discard() of the others
Kept(q, keep) ==
  LET Place(k) == CHOOSE i \in keep : Cardinality({j \in keep : j < i}) = k - 1
  IN  IF keep = DOMAIN q THEN q ELSE [k \in 1 .. Cardinality(keep) |-> q[Place(k)]]
NotKind(q, kind) == Kept(q, {i \in DOMAIN q : q[i].kind # kind})
\* q without its n oldest messages of the kind
Without(q, kind, n) ==
  Kept(q, DOMAIN q \ {i \in Places(q, kind) : Cardinality({j \in Places(q, kind) : j < i}) < n})

\* _bytes once the rest of what is pending has been discarded; what is in flight
\* stays charged.
BytesWith(q) == bytes - (Weight(pending) - Weight(q))

Fits(q, kind) == Len(q) < MaxPending /\ BytesWith(q) + SizeOf(kind) <= MaxBytes

\* Logs make room for a snapshot, oldest first; a state makes room for a scan.
MakeRoom(q, kind) ==
  LET logs == Cardinality(Places(q, "log"))
      enough == {n \in 0 .. logs : Fits(Without(q, "log", n), kind)}
      noLogs == NotKind(q, "log")
  IN  IF kind = "log" THEN q
      ELSE IF enough # {} THEN Without(q, "log", CHOOSE n \in enough : \A k \in enough : n <= k)
      ELSE IF kind = "discovery" THEN NotKind(noLogs, "state") ELSE noLogs

\* An unsent snapshot is replaced by a newer one.
Room(kind) == MakeRoom(IF kind = "log" THEN pending ELSE NotKind(pending, kind), kind)

\* Mutant: what has been discarded is not given back.
CountedOnly(q, added) == bytes + added
\* _bytes after discard() and the new message
Charged(q, added) == BytesWith(q) + added

\* busy: the lock is taken, or there is no memory.
Accepted(kind, busy) == HasClients /\ ~busy /\ Fits(Room(kind), kind)

Publish(kind, body, busy) ==
  IF ~HasClients \/ busy THEN UNCHANGED <<pending, bytes, ready>>
  ELSE \E room \in {Room(kind)} : \E fits \in {Fits(room, kind)} :
           /\ pending' = IF fits THEN Append(room, [kind |-> kind, body |-> body, to |-> clients]) ELSE room
           /\ bytes' = Charged(room, IF fits THEN SizeOf(kind) ELSE 0)
           /\ ready' = (ready \/ fits)

\* A publication that is not made changes nothing.
PublishState == /\ Publish("state", NoBody, FALSE)
                /\ UNCHANGED <<clients, opened, socket, broken, flight, jobs, worker, strayed>>

PublishLog == /\ Publish("log", NoBody, FALSE)
              /\ UNCHANGED <<clients, opened, socket, broken, flight, jobs, worker, strayed>>

---------------------------------------------------------------------------
(***************************************************************************)
(* run(): the scheduler                                                    *)
(***************************************************************************)
Wake ==
  /\ worker = "ready" /\ ready
  /\ ready' = FALSE
  /\ worker' = "submit"
  /\ UNCHANGED <<clients, opened, socket, broken, pending, bytes, flight, jobs, strayed>>

QueueWork ==
  /\ worker = "submit"
  /\ IF pending = << >> THEN worker' = "ready" /\ UNCHANGED jobs
     ELSE /\ worker' = "sent"
          /\ jobs' \in {jobs} \cup (IF jobs < MaxJobs THEN {jobs + 1} ELSE {})
  /\ UNCHANGED <<clients, opened, socket, broken, pending, bytes, flight, ready, strayed>>

\* The callback has signalled _sent, or 500 ms have passed and its signal will
\* be discarded: either may come first, so the semaphore itself is left out.
Resubmit ==
  /\ worker = "sent"
  /\ worker' = "submit"
  /\ UNCHANGED <<clients, opened, socket, broken, pending, bytes, flight, jobs, ready, strayed>>

---------------------------------------------------------------------------
(***************************************************************************)
(* httpd's task                                                            *)
(***************************************************************************)
\* Mutant: a socket is taken for the connection that had it before.
SameSocket(fd, generation) == clients[fd] # 0
Current(fd, generation) == generation # 0 /\ clients[fd] = generation

\* disconnected()
Retired(fd) == [clients EXCEPT ![fd] = 0]

\* sendTo(): the frame is written whole, or the connection is given up.
SendTo(fd, generation) ==
  IF ~Current(fd, generation) THEN UNCHANGED <<clients, broken, strayed>>
  ELSE /\ strayed' = (strayed \/ generation # socket[fd] \/ socket[fd] \in broken)
       /\ \/ UNCHANGED <<clients, broken>>
          \/ clients' = Retired(fd) /\ broken' = broken \cup {socket[fd]}

Take ==
  /\ flight = None /\ jobs > 0
  /\ jobs' = jobs - 1
  /\ IF pending = << >> THEN UNCHANGED <<pending, flight>>
     ELSE /\ flight' = [kind |-> "taken", message |-> Head(pending), left |-> Fds]
          /\ pending' = Tail(pending)
  /\ UNCHANGED <<clients, opened, socket, broken, bytes, worker, ready, strayed>>

Deliver ==
  /\ flight # None
  /\ \E fd \in flight.left :
       /\ flight' = [flight EXCEPT !.left = @ \ {fd}]
       /\ SendTo(fd, flight.message.to[fd])
  /\ UNCHANGED <<opened, socket, pending, bytes, jobs, worker, ready>>

Delivered ==
  /\ flight # None /\ flight.left = {}
  /\ bytes' = bytes - SizeOf(flight.message.kind)
  /\ flight' = None
  /\ UNCHANGED <<clients, opened, socket, broken, pending, jobs, worker, ready, strayed>>

\* The handshake of handleWebSocket(): connected(), and a first state for all
Connect(fd) ==
  /\ flight = None
  /\ socket[fd] = 0 /\ opened < MaxOpens
  /\ opened' = opened + 1
  /\ socket' = [socket EXCEPT ![fd] = opened']
  /\ clients' = [clients EXCEPT ![fd] = opened']
  /\ UNCHANGED <<broken, pending, bytes, flight, jobs, worker, ready, strayed>>

\* sendText(): the reply to a command, sent at once
Reply(fd) ==
  /\ flight = None
  /\ clients[fd] # 0
  /\ SendTo(fd, clients[fd])
  /\ UNCHANGED <<opened, socket, pending, bytes, flight, jobs, worker, ready>>

\* closeClient(): the browser has gone, or a broken connection is reaped.
Close(fd) ==
  /\ flight = None
  /\ socket[fd] # 0
  /\ clients' = Retired(fd)
  /\ socket' = [socket EXCEPT ![fd] = 0]
  /\ broken' = broken \ {socket[fd]}
  /\ UNCHANGED <<opened, pending, bytes, flight, jobs, worker, ready, strayed>>

Scheduler == Wake \/ QueueWork \/ Resubmit
Httpd == Take \/ Deliver \/ Delivered

WsNext ==
  \/ PublishState \/ PublishLog
  \/ Scheduler \/ Httpd
  \/ \E fd \in Fds : Reply(fd) \/ Close(fd)

---------------------------------------------------------------------------
(***************************************************************************)
(* Properties                                                              *)
(***************************************************************************)
\* _bytes is what is pending plus what httpd is sending, and within the bound:
\* a frame counted twice, or given back twice, would shut the mailbox, or
\* take the memory the bound is for (web_ws_transport.cpp 83-141, 175-188).
InFlight == IF flight = None THEN 0 ELSE SizeOf(flight.message.kind)
BytesAccounted == bytes = Weight(pending) + InFlight /\ bytes <= MaxBytes

\* A frame goes to the connection that was open when it was published, never
\* to another one on the same socket, nor to one whose last frame was cut off
\* (web_ws_transport.cpp 201-224, web_ws_transport.h 37-39).
SentToItsOwn == ~strayed
===============================================================================
