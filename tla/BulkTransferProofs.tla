-------------------------- MODULE BulkTransferProofs --------------------------
(***************************************************************************)
(* Proofs about BulkTransfer, for every size of the packets and of the     *)
(* buffer, every set of limits and any number of changes of the limit,     *)
(* stops, restarts and resets.                                             *)
(***************************************************************************)
EXTENDS BulkTransfer, TLAPS

\* A stopped application is not waiting for a connection.
ConnectingInv == socket = "connecting" => app = "running"

IInv == TypeOK /\ ConnectedIsOpen /\ ConnectingInv

\* Whole packets fill a buffer at most, and a buffer with room for one packet
\* takes at least one (the loop of SendData).
LEMMA WholePacketsFit ==
  ASSUME TypeOK, NEW room \in Nat
  PROVE  /\ WholePackets(room) \in 0..room
         /\ room >= sendSize => WholePackets(room) > 0
<1> DEFINE s == sendSize
           q == room \div sendSize
<1>1. s \in Nat \ {0}
  BY BulkAssumption DEF TypeOK
<1>2. q \in Nat /\ room = s * q + (room % s) /\ room % s \in 0..(s - 1)
  BY <1>1, Z3
<1>3. WholePackets(room) = s * q
  BY DEF WholePackets
<1> HIDE DEF s, q
<1>4. s * q \in Nat
  BY <1>1, <1>2, Z3
<1>5. s * q <= room
  BY <1>1, <1>2, <1>4
<1>6. ASSUME room >= s PROVE s * q > 0
  <2>1. s * q # 0
    BY <1>1, <1>2, <1>4, <1>6
  <2> QED BY <2>1, <1>4
<1> QED BY <1>3, <1>4, <1>5, <1>6 DEF s

\* What SendData adds fits in the buffer, keeps to the limit, and is something
\* if the buffer has room for a packet and there is no limit.
LEMMA AddedFits ==
  ASSUME TypeOK, NEW room \in Nat, NEW n \in Added(room)
  PROVE  /\ n \in 0..room
         /\ maxBytes > 0 /\ n > 0 => totBytes + n <= maxBytes
         /\ maxBytes = 0 /\ room >= sendSize => n > 0
<1>1. maxBytes \in Nat /\ totBytes \in Nat /\ Remaining \in Nat
  BY BulkAssumption DEF TypeOK, Remaining
<1>2. WholePackets(room) \in 0..room /\ (room >= sendSize => WholePackets(room) > 0)
  BY WholePacketsFit
<1>3. sendSize \in Nat \ {0}
  BY BulkAssumption DEF TypeOK
<1>4. CASE maxBytes > 0 /\ Remaining <= room
  <2>1. n = Remaining
    BY <1>4 DEF Added
  <2> QED BY <2>1, <1>1, <1>4 DEF Remaining
<1>5. CASE ~(maxBytes > 0 /\ Remaining <= room)
  <2>1. n = WholePackets(room) \/ n = room
    BY <1>5 DEF Added
  <2>2. n \in 0..room
    BY <2>1, <1>2
  <2>3. maxBytes > 0 /\ n > 0 => totBytes + n <= maxBytes
    BY <2>2, <1>1, <1>5 DEF Remaining
  <2>4. maxBytes = 0 /\ room >= sendSize => n > 0
    BY <2>1, <1>2, <1>3
  <2> QED BY <2>2, <2>3, <2>4
<1> QED BY <1>4, <1>5

\* The states after which SendData may close the connection.
CloseOK ==
  \/ maxBytes > 0 /\ totBytes' = maxBytes
  \/ maxBytes = 0 /\ totBytes' = 0 /\ sendSize > BufSize

\* One call of SendData when the bytes up to ack have left the buffer.
LEMMA SendDataStep ==
  ASSUME TypeOK, NEW ack \in acked..arrived, SendData(ack)
  PROVE  /\ totBytes' \in Nat /\ totBytes <= totBytes' /\ totBytes' - ack <= BufSize
         /\ totBytes' # totBytes => maxBytes = 0 \/ totBytes' <= maxBytes
         /\ socket' \in {"open", "finished"}
         /\ connected' = (socket' = "open")
         /\ socket' = "finished" => CloseOK
<1> DEFINE room == BufSize - (totBytes - ack)
<1>1. /\ totBytes \in Nat /\ ack \in Nat /\ ack <= totBytes /\ maxBytes \in Nat
      /\ BufSize \in Nat /\ sendSize \in Nat \ {0}
      /\ room \in Nat
  BY BulkAssumption DEF TypeOK
<1>2. PICK n \in Added(room) : totBytes' = totBytes + n
  BY DEF SendData
<1>3. room \in Nat /\ room = BufSize - (totBytes - ack)
  BY <1>1
<1> HIDE DEF room
<1>4. /\ n \in 0..room
      /\ maxBytes > 0 /\ n > 0 => totBytes + n <= maxBytes
      /\ maxBytes = 0 /\ room >= sendSize => n > 0
  BY <1>2, <1>3, AddedFits
<1>5. totBytes' \in Nat /\ totBytes <= totBytes' /\ totBytes' - ack <= BufSize
  BY <1>1, <1>2, <1>3, <1>4
<1>6. totBytes' # totBytes => maxBytes = 0 \/ totBytes' <= maxBytes
  BY <1>1, <1>2, <1>3, <1>4
<1>7. ASSUME totBytes' = maxBytes PROVE CloseOK
  <2>1. CASE maxBytes > 0
    BY <2>1, <1>7 DEF CloseOK
  <2>2. CASE maxBytes = 0
    <3>1. totBytes = 0 /\ n = 0 /\ ack = 0
      BY <2>2, <1>1, <1>2, <1>3, <1>4, <1>7
    <3>2. room = BufSize /\ ~(room >= sendSize)
      BY <3>1, <2>2, <1>1, <1>3, <1>4
    <3> QED BY <3>2, <2>2, <1>1, <1>7 DEF CloseOK
  <2> QED BY <2>1, <2>2, <1>1
<1>8. CASE totBytes' = maxBytes
  <2>1. socket' = "finished" /\ connected' = FALSE
    BY <1>8 DEF SendData, AllOut
  <2> QED BY <2>1, <1>5, <1>6, <1>7, <1>8
<1>9. CASE totBytes' # maxBytes
  <2>1. socket' = "open" /\ connected' = TRUE
    BY <1>9 DEF SendData, AllOut
  <2> QED BY <2>1, <1>5, <1>6
<1> QED BY <1>8, <1>9

-------------------------------------------------------------------------------
LEMMA InitInv == Init => IInv
<1> SUFFICES ASSUME Init PROVE IInv
  OBVIOUS
<1>1. arrived \in 0..totBytes /\ acked \in 0..arrived /\ totBytes - acked <= BufSize
  BY BulkAssumption DEF Init
<1>2. TypeOK
  BY <1>1 DEF Init, TypeOK, AppState, SocketState
<1> QED BY <1>2 DEF Init, IInv, ConnectedIsOpen, ConnectingInv

\* What a step may do to the transfer.
StepOK ==
  /\ totBytes' # totBytes => maxBytes = 0 \/ totBytes' <= maxBytes
  /\ socket' = "finished" /\ socket # "finished" => CloseOK

\* The fields that SendData changes, in a state after it (see SendDataStep).
LEMMA AfterSendData ==
  ASSUME IInv, app = "running", NEW ack \in acked..arrived, SendData(ack),
         acked' = ack, UNCHANGED <<app, attributes, arrived, sinkVars>>
  PROVE  IInv' /\ StepOK
<1>1. TypeOK
  BY DEF IInv
<1>2. /\ totBytes' \in Nat /\ totBytes <= totBytes' /\ totBytes' - ack <= BufSize
      /\ totBytes' # totBytes => maxBytes = 0 \/ totBytes' <= maxBytes
      /\ socket' \in {"open", "finished"}
      /\ connected' = (socket' = "open")
      /\ socket' = "finished" => CloseOK
  BY <1>1, SendDataStep
<1>3. StepOK
  BY <1>2 DEF StepOK
<1>4. arrived' \in 0..totBytes' /\ acked' \in 0..arrived' /\ totBytes' - acked' <= BufSize
  BY <1>1, <1>2 DEF TypeOK
<1>5. /\ app' \in AppState /\ sink' \in AppState
      /\ sendSize' \in SendSizes /\ maxBytes' \in Limits /\ changes' \in Nat
      /\ accepted' \in {"none", "open", "closed"} /\ totalRx' \in Nat
  BY <1>1 DEF TypeOK, attributes, sinkVars
<1>6. socket' \in SocketState /\ connected' \in BOOLEAN
  BY <1>2 DEF SocketState
<1>7. TypeOK'
  BY <1>2, <1>4, <1>5, <1>6 DEF TypeOK
<1>8. ConnectedIsOpen' /\ ConnectingInv'
  BY <1>2 DEF ConnectedIsOpen, ConnectingInv
<1> QED BY <1>3, <1>7, <1>8 DEF IInv

LEMMA ConnectionSucceededInv ==
  ASSUME IInv, ConnectionSucceeded PROVE IInv' /\ StepOK
<1>1. app = "running" /\ acked \in acked..arrived /\ SendData(acked)
  BY DEF IInv, TypeOK, ConnectingInv, ConnectionSucceeded
<1>2. acked' = acked /\ UNCHANGED <<app, attributes, arrived, sinkVars>>
  BY DEF ConnectionSucceeded, tcpVars
<1> QED BY <1>1, <1>2, AfterSendData

LEMMA DataSendInv ==
  ASSUME IInv, DataSend PROVE IInv' /\ StepOK
<1>1. PICK ack \in (acked + 1)..arrived :
         /\ acked' = ack
         /\ IF Resumes(ack) THEN SendData(ack) ELSE UNCHANGED <<socket, connected, totBytes>>
  BY DEF DataSend
<1>2. UNCHANGED <<app, attributes, arrived, sinkVars>>
  BY DEF DataSend
<1>3. TypeOK /\ ack \in acked..arrived
  BY <1>1 DEF IInv, TypeOK
<1>4. CASE connected
  <2>1. app = "running" /\ SendData(ack)
    BY <1>1, <1>4 DEF IInv, ConnectedIsOpen, Resumes
  <2> QED BY <2>1, <1>1, <1>2, <1>3, AfterSendData
<1>5. CASE ~connected
  <2>1. UNCHANGED <<socket, connected, totBytes>>
    BY <1>1, <1>5 DEF Resumes
  <2>2. acked' \in 0..arrived' /\ totBytes' - acked' <= BufSize /\ arrived' \in 0..totBytes'
    BY <2>1, <1>1, <1>2, <1>3, BulkAssumption DEF TypeOK
  <2> QED BY <2>1, <2>2, <1>2, <1>3
       DEF IInv, TypeOK, ConnectedIsOpen, ConnectingInv, StepOK, attributes, sinkVars
<1> QED BY <1>4, <1>5

LEMMA HandleReadInv ==
  ASSUME IInv, HandleRead PROVE IInv' /\ StepOK
<1>1. TypeOK
  BY DEF IInv
<1>2. PICK n \in 1..(totBytes - arrived) : arrived' = arrived + n /\ totalRx' = totalRx + n
  BY DEF HandleRead
<1>3. UNCHANGED <<senderVars, acked, sink, accepted>>
  BY DEF HandleRead
<1>4. arrived' \in 0..totBytes /\ acked \in 0..arrived' /\ totalRx' \in Nat
  BY <1>1, <1>2 DEF TypeOK
<1> QED BY <1>1, <1>3, <1>4 DEF IInv, TypeOK, ConnectedIsOpen, ConnectingInv, StepOK, senderVars,
                            attributes

LEMMA NextInv == IInv /\ [Next]_vars => IInv' /\ StepOK
<1> SUFFICES ASSUME IInv, [Next]_vars PROVE IInv' /\ StepOK
  OBVIOUS
<1> USE DEF IInv, TypeOK, ConnectedIsOpen, ConnectingInv, StepOK, AppState, SocketState,
            senderVars, attributes, tcpVars, sinkVars
<1>1. CASE StartApplication
  BY <1>1 DEF StartApplication
<1>2. CASE StopApplication
  BY <1>2 DEF StopApplication
<1>3. ASSUME NEW limit \in Limits, SetMaxBytes(limit) PROVE IInv' /\ StepOK
  BY <1>3 DEF SetMaxBytes
<1>4. CASE ConnectionSucceeded
  BY <1>4, ConnectionSucceededInv
<1>5. CASE ConnectionFailed
  BY <1>5 DEF ConnectionFailed
<1>6. CASE DataSend
  BY <1>6, DataSendInv
<1>7. CASE StartSink
  BY <1>7 DEF StartSink
<1>8. CASE StopSink
  BY <1>8 DEF StopSink
<1>9. CASE HandleAccept
  BY <1>9 DEF HandleAccept
<1>10. CASE HandleRead
  BY <1>10, HandleReadInv
<1>11. CASE Reset
  BY <1>11 DEF Reset
<1>12. CASE UNCHANGED vars
  BY <1>12 DEF vars
<1> QED BY <1>1, <1>2, <1>3, <1>4, <1>5, <1>6, <1>7, <1>8, <1>9, <1>10, <1>11, <1>12 DEF Next

-------------------------------------------------------------------------------
LEMMA Invariance == Spec => []IInv
<1>1. IInv /\ [Next]_vars => IInv'
  BY NextInv
<1> QED BY <1>1, InitInv, PTL DEF Spec

\* BulkSendApplication and PacketSink keep their types, and the send buffer is
\* never overfilled.
THEOREM BulkTypeCorrect == Spec => []TypeOK
<1>1. IInv => TypeOK
  BY DEF IInv
<1> QED BY <1>1, Invariance, PTL

\* Whenever m_connected lets SendData use the socket, the application runs and has
\* not closed it.
THEOREM ConnectedAlwaysOpen == Spec => []ConnectedIsOpen
<1>1. IInv => ConnectedIsOpen
  BY DEF IInv
<1> QED BY <1>1, Invariance, PTL

\* No call of SendData goes beyond the MaxBytes in force.
THEOREM LimitKept == Spec => WithinLimit
<1> DEFINE A == totBytes' # totBytes => maxBytes = 0 \/ totBytes' <= maxBytes
<1>1. IInv /\ [Next]_vars => A
  BY NextInv DEF StepOK
<1>2. IInv /\ [Next]_vars => [A]_vars
  BY <1>1
<1> QED BY <1>2, Invariance, PTL DEF Spec, WithinLimit

\* For every SendSize and every buffer, SendData closes the connection only when
\* exactly MaxBytes are out, and an unlimited transfer only when a packet does not
\* fit into the empty buffer.
THEOREM ClosedExactly == Spec => ClosedWhenAllOut
<1> DEFINE A == socket' = "finished" /\ socket # "finished" =>
                  \/ maxBytes > 0 /\ totBytes' = maxBytes
                  \/ maxBytes = 0 /\ totBytes' = 0 /\ sendSize > BufSize
<1>1. IInv /\ [Next]_vars => A
  BY NextInv DEF StepOK, CloseOK
<1>2. IInv /\ [Next]_vars => [A]_vars
  BY <1>1
<1> QED BY <1>2, Invariance, PTL DEF Spec, ClosedWhenAllOut
===============================================================================
