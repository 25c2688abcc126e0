------------------------------- MODULE UdpFlow -------------------------------
(***************************************************************************)
(* UdpClient sends numbered packets to UdpServer, which counts what it     *)
(* received and, with PacketLossCounter, what was lost (udp-client.cc,     *)
(* udp-server.cc).  The network between them loses, repeats and reorders.  *)
(*                                                                         *)
(* One action is one event of the simulator.  Time is left out: the        *)
(* interval of the client only decides which event comes first.            *)
(***************************************************************************)
EXTENDS PacketLossCounter

CONSTANTS
  MaxPackets,    \* m_count, the attribute MaxPackets
  WindowSizes,   \* the values that PacketWindowSize is given, in bits
  MaxCopies,     \* bound: packets the network delivers twice
  MaxResizes     \* bound: changes of the window while packets arrive

\* m_count and the numbers are of type uint32_t: the client never sends the
\* number 2^32 - 1, for which the loop of NotifyReceived would not end, so no
\* arithmetic wraps and the numbers may be naturals here.
ASSUME FlowAssumption ==
  /\ MaxPackets \in Nat
  /\ WindowSizes \subseteq Nat \ {0}
  /\ MaxCopies \in Nat
  /\ MaxResizes \in Nat

VARIABLES
  client,      \* "idle", "running" or "stopped"
  sent,        \* m_sent
  sendEvent,   \* is m_sendEvent pending?
  ipv6,        \* do the packets go to m_socket6 of the server, or to m_socket?
  inFlight,    \* the numbers of the packets on their way
  copies,      \* how many packets have been delivered twice so far
  server,      \* "idle", "running" or "stopped"
  received,    \* m_received
  counter,     \* m_lossCounter
  resizes,     \* how often the window has been changed
  judged,      \* history: the largest number that has left the window
  inTime,      \* history: the numbers received before they had left it
  orderly      \* history: none was received later, and the window never changed

clientVars == <<client, sent, sendEvent, ipv6>>
netVars    == <<inFlight, copies>>
serverVars == <<server, received, counter, resizes>>
history    == <<judged, inTime, orderly>>
vars == <<clientVars, netVars, serverVars, history>>

AppState == {"idle", "running", "stopped"}

Init ==
  /\ client = "idle"
  /\ sent = 0
  /\ sendEvent = FALSE
  /\ ipv6 \in BOOLEAN
  /\ inFlight = {}
  /\ copies = 0
  /\ server = "idle"
  /\ received = 0
  /\ \E size \in WindowSizes : counter = NewCounter(size) /\ judged = -size
  /\ resizes = 0
  /\ inTime = {}
  /\ orderly = TRUE

-------------------------------------------------------------------------------
(* UdpClient.                                                              *)

StartClient ==
  /\ client = "idle"
  /\ client' = "running"
  /\ sendEvent' = TRUE
  /\ UNCHANGED <<sent, ipv6, netVars, serverVars, history>>

\* Is another Send scheduled when n packets are out?
AnotherBug(n) == n + 1 < MaxPackets
Another(n) == n < MaxPackets

\* The socket takes the packet, or refuses it and the number is used again.
Send ==
  /\ sendEvent
  /\ \/ /\ sent' = sent + 1
        /\ inFlight' = inFlight \cup {sent}
     \/ UNCHANGED <<sent, inFlight>>
  /\ sendEvent' = Another(sent')
  /\ UNCHANGED <<client, ipv6, copies, serverVars, history>>

\* StopApplication cancels the event.
StopClient ==
  /\ client = "running"
  /\ client' = "stopped"
  /\ sendEvent' = FALSE
  /\ UNCHANGED <<sent, ipv6, netVars, serverVars, history>>

-------------------------------------------------------------------------------
(* UdpServer.                                                              *)

StartServer ==
  /\ server = "idle"
  /\ server' = "running"
  /\ UNCHANGED <<clientVars, netVars, received, counter, resizes, history>>

\* The receive callback of m_socket is taken away, that of m_socket6 is not.
StopServer ==
  /\ server = "running"
  /\ server' = "stopped"
  /\ UNCHANGED <<clientVars, netVars, received, counter, resizes, history>>

\* The largest number judged so far, when the counter is c.
JudgedBy(c) ==
  IF c.lastMaxSeqNum - c.size > judged THEN c.lastMaxSeqNum - c.size ELSE judged

\* Has the socket that the packets go to its receive callback?
Attended == server = "running" \/ (server = "stopped" /\ ipv6)

\* Packet n arrives and is read; a copy of it may still be on its way.
HandleRead(n) ==
  /\ Attended
  /\ \/ inFlight' = inFlight \ {n} /\ UNCHANGED copies
     \/ copies < MaxCopies /\ copies' = copies + 1 /\ UNCHANGED inFlight
  /\ counter' = NotifyReceived(counter, n)
  /\ received' = received + 1
  /\ judged' = JudgedBy(counter')
  /\ inTime' = IF n > judged THEN inTime \cup {n} ELSE inTime
  /\ orderly' = (orderly /\ n > judged)
  /\ UNCHANGED <<clientVars, server, resizes>>

SetPacketWindowSize(size) ==
  /\ resizes < MaxResizes
  /\ resizes' = resizes + 1
  /\ counter' = SetBitMapSize(counter, size)
  /\ judged' = JudgedBy(counter')
  /\ orderly' = FALSE
  /\ UNCHANGED <<clientVars, netVars, server, received, inTime>>

-------------------------------------------------------------------------------
\* A packet is dropped on its way, or finds no open or no attended socket.
Drop(n) ==
  /\ inFlight' = inFlight \ {n}
  /\ UNCHANGED <<clientVars, copies, serverVars, history>>

Next ==
  \/ StartClient \/ Send \/ StopClient
  \/ StartServer \/ StopServer
  \/ \E n \in inFlight : HandleRead(n) \/ Drop(n)
  \/ \E size \in WindowSizes : SetPacketWindowSize(size)

Spec == Init /\ [][Next]_vars

\* The simulator starts the client and runs each event that it has scheduled;
\* a socket does not refuse every packet for ever.
Accepted == Send /\ sent' # sent
FairSpec == Spec /\ WF_vars(StartClient) /\ SF_vars(Accepted)

-------------------------------------------------------------------------------
(* Properties.                                                             *)

\* Every variable has its type; the ring has one bit for each number of the
\* window (SetBitMapSize) and is never indexed outside (GetBit, SetBit).
TypeOK ==
  /\ client \in AppState
  /\ sent \in Nat
  /\ sendEvent \in BOOLEAN
  /\ ipv6 \in BOOLEAN
  /\ inFlight \subseteq Nat
  /\ copies \in Nat
  /\ server \in AppState
  /\ received \in Nat
  /\ counter.lost \in Nat
  /\ counter.lastMaxSeqNum \in Nat
  /\ counter.size \in WindowSizes
  /\ counter.bitMap \in [0..(counter.size - 1) -> BOOLEAN]
  /\ resizes \in Nat
  /\ judged \in Int
  /\ inTime \subseteq Nat
  /\ orderly \in BOOLEAN

\* The numbers from the given one on that left the window without having arrived.
MissedFrom(first) == {n \in first..judged : n \notin inTime}

\* "All the packets outside a given window [...] are considered lost"
\* (packet-loss-counter.h:42): as long as none is later than the window,
\* NotifyReceived counts each packet that left the window and never came.
LostIsExact == orderly => counter.lost = Cardinality(MissedFrom(0))

\* The same of the packets behind the first: number 0 is never counted, because
\* m_lastMaxSeqNum is 0 from the start, as if it had been received.  However
\* packets are lost, repeated and reordered within the window, NotifyReceived
\* counts all the others that never came, and no other.
LaterLossesExact == orderly => counter.lost = Cardinality(MissedFrom(1))

\* Whatever arrives, however late, and even if SetPacketWindowSize replaces the
\* ring in between: a packet that came in time is never counted as lost, and
\* none is counted twice.  (Packets that are too late can hide losses: their
\* bit is now that of another number.)
LostNeverOvercounts ==
  counter.lost <= Cardinality(MissedFrom(1))

\* A client that is not stopped sends packet after packet until MaxPackets are
\* out, though its socket refuses some: Send schedules itself again after a
\* failure too, with the number that failed.
AllSent == <>(client = "stopped" \/ sent >= MaxPackets)
==============================================================================
