----------------------------- MODULE BulkTransfer -----------------------------
(***************************************************************************)
(* BulkSendApplication fills the send buffer of a TCP socket, waits until  *)
(* the socket reports free space, and closes the connection when MaxBytes  *)
(* are out; PacketSink at the other end counts what it reads               *)
(* (bulk-send-application.cc, packet-sink.cc).                             *)
(*                                                                         *)
(* TCP is outside the repository.  Here it is what the application relies  *)
(* on: a buffer that frees space when data is acknowledged and tells so,   *)
(* a stream that arrives in order and once, a connection that the other    *)
(* end accepts, refuses or resets.  A packet that does not fit is refused  *)
(* or taken in part: SendData is prepared for both.                        *)
(***************************************************************************)
EXTENDS Integers

CONSTANTS
  SendSizes,    \* the values that SendSize is given
  BufSize,      \* capacity of the socket's send buffer
  Limits,       \* the values that MaxBytes is given; 0 means no limit
  MaxTotal,     \* bound: an unlimited transfer is followed up to here
  MaxChanges    \* bound: calls of SetMaxBytes during the transfer

\* The attribute SendSize is 1 at least; nothing relates it to the buffer.
ASSUME BulkAssumption ==
  /\ SendSizes \subseteq Nat \ {0}
  /\ BufSize \in Nat
  /\ Limits \subseteq Nat
  /\ MaxTotal \in Nat
  /\ MaxChanges \in Nat

VARIABLES
  app,          \* the sender: "idle", "running" or "stopped"
  socket,       \* m_socket and the state of its connection
  connected,    \* m_connected
  sendSize,     \* m_sendSize, chosen before the start
  maxBytes,     \* m_maxBytes
  totBytes,     \* m_totBytes
  changes,      \* how often SetMaxBytes has been called
  arrived,      \* how many bytes have reached the other host
  acked,        \* how many of them have left the send buffer
  sink,         \* the receiver: "idle", "running" or "stopped"
  accepted,     \* the accepted socket: "none", "open" (in m_socketList) or "closed"
  totalRx       \* m_totalRx

attributes == <<sendSize, maxBytes, changes>>
senderVars == <<app, socket, connected, totBytes, attributes>>
tcpVars    == <<arrived, acked>>
sinkVars   == <<sink, accepted, totalRx>>
vars == <<senderVars, tcpVars, sinkVars>>

AppState == {"idle", "running", "stopped"}

\* "finished": closed by SendData; "closed": closed by StopApplication; "dead":
\* refused or reset by the peer.  After a close the data in the buffer goes on.
SocketState == {"none", "connecting", "open", "finished", "closed", "dead"}

Init ==
  /\ app = "idle"
  /\ socket = "none"
  /\ connected = FALSE
  /\ sendSize \in SendSizes
  /\ maxBytes \in Limits
  /\ totBytes = 0
  /\ changes = 0
  /\ arrived = 0
  /\ acked = 0
  /\ sink = "idle"
  /\ accepted = "none"
  /\ totalRx = 0

-------------------------------------------------------------------------------
(* BulkSendApplication.                                                    *)

SetMaxBytes(limit) ==
  /\ changes < MaxChanges
  /\ changes' = changes + 1
  /\ maxBytes' = limit
  /\ UNCHANGED <<app, socket, connected, sendSize, totBytes, tcpVars, sinkVars>>

\* The first start creates the socket; a later one finds it there, closed, and
\* m_connected false, and does nothing.
StartApplication ==
  /\ app \in {"idle", "stopped"}
  /\ app' = "running"
  /\ socket' = IF socket = "none" THEN "connecting" ELSE socket
  /\ UNCHANGED <<connected, totBytes, attributes, tcpVars, sinkVars>>

\* How many bytes the loop of SendData brings into a buffer with this much room:
\* all that remain or, if they do not fit, whole packets and perhaps a part of one.
Remaining == IF totBytes < maxBytes THEN maxBytes - totBytes ELSE 0
WholePacketsBug(room) == sendSize * ((room + sendSize - 1) \div sendSize)
WholePackets(room) == sendSize * (room \div sendSize)
AddedBug(room) == {WholePackets(room), room}
Added(room) ==
  IF maxBytes > 0 /\ Remaining <= room
  THEN {Remaining}
  ELSE {WholePackets(room), room}

\* The check behind the loop.
AllOutBug(tot) == tot >= maxBytes
AllOut(tot) == tot = maxBytes

\* SendData on an open connection whose buffer holds the bytes from ack to
\* totBytes; everything out, it closes the connection.
SendDataBug(ack) ==
  /\ \E n \in Added(BufSize - (totBytes - ack)) : totBytes' = totBytes + n
  /\ socket' = (IF AllOut(totBytes') THEN "finished" ELSE "open")
  /\ connected' = TRUE
SendData(ack) ==
  /\ \E n \in Added(BufSize - (totBytes - ack)) : totBytes' = totBytes + n
  /\ IF AllOut(totBytes')
     THEN socket' = "finished" /\ connected' = FALSE
     ELSE socket' = "open" /\ connected' = TRUE

ConnectionSucceeded ==
  /\ socket = "connecting"
  /\ sink = "running"
  /\ SendData(acked)
  /\ UNCHANGED <<app, attributes, tcpVars, sinkVars>>

ConnectionFailed ==
  /\ socket = "connecting"
  /\ sink # "running"
  /\ socket' = "dead"
  /\ UNCHANGED <<app, connected, totBytes, attributes, tcpVars, sinkVars>>

\* An acknowledgement frees a part of the buffer; TCP calls DataSend, which goes
\* on if the connection is in use.
ResumesBug(ack) == FALSE
Resumes(ack) == connected
DataSend ==
  /\ socket \in {"open", "finished", "closed"}
  /\ totBytes <= MaxTotal
  /\ \E ack \in (acked + 1)..arrived :
       /\ acked' = ack
       /\ IF Resumes(ack)
          THEN SendData(ack)
          ELSE UNCHANGED <<socket, connected, totBytes>>
  /\ UNCHANGED <<app, attributes, arrived, sinkVars>>

StopApplication ==
  /\ app = "running"
  /\ app' = "stopped"
  /\ socket' = IF socket \in {"connecting", "open"} THEN "closed" ELSE socket
  /\ connected' = FALSE
  /\ UNCHANGED <<totBytes, attributes, tcpVars, sinkVars>>

-------------------------------------------------------------------------------
(* PacketSink.                                                             *)

StartSink ==
  /\ sink = "idle"
  /\ sink' = "running"
  /\ UNCHANGED <<senderVars, tcpVars, accepted, totalRx>>

HandleAccept ==
  /\ sink = "running" /\ accepted = "none"
  /\ socket = "open" \/ arrived < totBytes
  /\ accepted' = "open"
  /\ UNCHANGED <<senderVars, tcpVars, sink, totalRx>>

\* Some more bytes arrive and are read to the last, also on an accepted socket
\* that is closed: its receive callback stays.
HandleRead ==
  /\ accepted # "none"
  /\ socket \in {"open", "finished", "closed"}
  /\ \E n \in 1..(totBytes - arrived) :
       /\ arrived' = arrived + n
       /\ totalRx' = totalRx + n
  /\ UNCHANGED <<senderVars, acked, sink, accepted>>

\* StopApplication closes the accepted sockets and the listening one; it takes the
\* receive callback from the latter only.
StopSink ==
  /\ sink = "running"
  /\ sink' = "stopped"
  /\ accepted' = IF accepted = "open" THEN "closed" ELSE accepted
  /\ UNCHANGED <<senderVars, tcpVars, totalRx>>

\* A closed socket may answer what comes with a reset, of which the sender takes
\* no notice: it has no close callback.
Reset ==
  /\ sink = "stopped"
  /\ socket \in {"open", "finished", "closed"}
  /\ socket' = "dead"
  /\ UNCHANGED <<app, connected, totBytes, attributes, tcpVars, sinkVars>>

Next ==
  \/ StartApplication \/ StopApplication \/ \E limit \in Limits : SetMaxBytes(limit)
  \/ ConnectionSucceeded \/ ConnectionFailed \/ DataSend
  \/ StartSink \/ StopSink \/ HandleAccept \/ HandleRead \/ Reset

Spec == Init /\ [][Next]_vars

\* The simulator starts the applications once; TCP delivers, acknowledges and
\* reports.  Stops, restarts and resets need not happen.
FairSpec ==
  /\ Spec
  /\ WF_vars(app = "idle" /\ StartApplication)
  /\ WF_vars(StartSink)
  /\ WF_vars(ConnectionSucceeded \/ ConnectionFailed)
  /\ WF_vars(DataSend)
  /\ WF_vars(HandleAccept)
  /\ WF_vars(HandleRead)

-------------------------------------------------------------------------------
(* Properties.                                                             *)

\* Types; the send buffer never holds more than it can, and nothing is
\* acknowledged that has not arrived nor arrives that SendData has not sent.
TypeOK ==
  /\ app \in AppState
  /\ socket \in SocketState
  /\ connected \in BOOLEAN
  /\ sendSize \in SendSizes
  /\ maxBytes \in Limits
  /\ totBytes \in Nat
  /\ changes \in Nat
  /\ arrived \in 0..totBytes
  /\ acked \in 0..arrived
  /\ totBytes - acked <= BufSize
  /\ sink \in AppState
  /\ accepted \in {"none", "open", "closed"}
  /\ totalRx \in Nat

\* SendData never goes beyond the MaxBytes in force, though the loop works with
\* whole packets, the buffer takes parts of them and MaxBytes may have been
\* lowered below what is out already.
WithinLimit ==
  [][totBytes' # totBytes => maxBytes = 0 \/ totBytes' <= maxBytes]_vars

\* SendData closes the connection only when exactly MaxBytes are out.  An unlimited
\* transfer, whose MaxBytes, 0, equals the count of bytes as long as nothing could
\* be sent, is closed only when its packets are larger than the empty buffer; the
\* comment at bulk-send-application.h:88 promises that it never is.
ClosedWhenAllOut ==
  [][socket' = "finished" /\ socket # "finished" =>
       \/ maxBytes > 0 /\ totBytes' = maxBytes
       \/ maxBytes = 0 /\ totBytes' = 0 /\ sendSize > BufSize]_vars

\* m_connected says that SendData may use the socket: then the socket is open, or
\* the peer has reset it behind the application's back.
ConnectedIsOpen == connected => socket \in {"open", "dead"} /\ app = "running"

\* Each packet of the transfer fits into the empty buffer.
PacketsFit == sendSize <= BufSize \/ maxBytes \in 1..BufSize

\* What ends or changes a transfer from outside.
Disturbed == app = "stopped" \/ sink = "stopped" \/ socket = "dead" \/ changes > 0

\* If the packets fit and nobody interferes the sink counts MaxBytes in the end,
\* however often the buffer was full and whatever pieces were acknowledged at a
\* time; an unlimited transfer passes any bound.
EverythingArrives ==
  <>(\/ Disturbed \/ ~PacketsFit
     \/ maxBytes > 0 /\ totalRx = maxBytes
     \/ maxBytes = 0 /\ totalRx >= MaxTotal)

\* "If the application is stopped during the simulation and restarted [...] the
\* application will continue sending up to maxBytes" (bulk-send-application.h:84):
\* once it runs for good, and the sink too, MaxBytes arrive.
RestartContinues ==
  <>[](/\ app = "running" /\ sink = "running" /\ socket # "dead" /\ changes = 0
       /\ PacketsFit /\ maxBytes > 0)
    => <>(totalRx = maxBytes)
===============================================================================
