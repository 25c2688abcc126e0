---------------------------- MODULE ScdtDataProofs ----------------------------
(***************************************************************************)
(* Proofs about ScdtData, for every tree of nodes, every set of start      *)
(* times, every SENDTCPTIME that leaves the timers in the future and every *)
(* number of packets: the types, that no socket is used before it exists,  *)
(* that along a connection nothing is lost, repeated or reordered, and     *)
(* that the data phase implements DataRelay, so that everybody has the     *)
(* first packets of the root and nobody more than its parent.              *)
(***************************************************************************)
EXTENDS ScdtData, TLAPS, SequenceTheorems

\* The arrays that are parallel to Children.
Array(S) == {f \in [Node -> Seq(S)] : \A n \in Node : Len(f[n]) = Len(Children[n])}

SocketState == {"null", "connecting", "open", "failed"}
Stream == Seq(1..Packets)

\* A pending timer lies in the future.
TimersInv == \A n \in Node : \A f \in Timers(n) :
  <<n, f>> \in timers => now <= FiresAt(n, f)

\* Nothing travels before the root has sent, which it does not do before its time.
RootSent == <<Root, "rootSendData">> \notin timers
SentInv == RootSent => startTime[Root] + SENDTCPTIME <= now
QuietInv == ~RootSent =>
  \A p \in Node : \A i \in DOMAIN Children[p] : stream[p][i] = <<>>

\* The sockets of the children exist if and only if SetSockets has run.
SocketsInv == \A n \in Node : \A i \in DOMAIN Children[n] :
  (childrenSockets[n][i] = "null") <=> (<<n, "SetSockets">> \in timers)

\* Forwarded, for the sockets that do not exist yet too.
StreamsInv == \A p \in Node : \A i \in DOMAIN Children[p] :
  childrenSockets[p][i] # "failed" /\ ~aborted =>
    received[Children[p][i]] \o stream[p][i] = Given(p)

IInv == TypeOK /\ TimersInv /\ SentInv /\ QuietInv /\ SocketsInv /\ StreamsInv /\ SocketsReady

-------------------------------------------------------------------------------
\* A function on the positions up to k is a sequence of length k.
LEMMA FcnIsSeq ==
  ASSUME NEW S, NEW k \in Nat, NEW f \in [1..k -> S]
  PROVE  f \in Seq(S) /\ Len(f) = k
<1>1. f \in Seq(S)
  BY SeqDef
<1>2. Len(f) \in Nat /\ DOMAIN f = 1..Len(f)
  BY <1>1, LenProperties
<1>3. 1..Len(f) = 1..k
  BY <1>2
<1>4. Len(f) = k
  BY <1>2, <1>3
<1> QED BY <1>1, <1>4

\* The children of a node are nodes, numbered from 1.
LEMMA ChildrenType ==
  ASSUME NEW n \in Node
  PROVE  /\ Len(Children[n]) \in Nat
         /\ DOMAIN Children[n] = 1..Len(Children[n])
         /\ \A i \in DOMAIN Children[n] : Children[n][i] \in Node \ {Root}
<1>1. Children[n] \in Seq(Node \ {Root})
  BY TreeAssumption
<1>2. Len(Children[n]) \in Nat /\ DOMAIN Children[n] = 1..Len(Children[n])
  BY <1>1, LenProperties
<1>3. ASSUME NEW i \in DOMAIN Children[n] PROVE Children[n][i] \in Node \ {Root}
  BY <1>1, <1>2, ElementOfSeq
<1> QED BY <1>2, <1>3

\* The elements of an array.
LEMMA ArrayElement ==
  ASSUME NEW S, NEW f \in Array(S), NEW n \in Node
  PROVE  /\ f[n] \in Seq(S)
         /\ DOMAIN f[n] = DOMAIN Children[n]
         /\ \A i \in DOMAIN Children[n] : f[n][i] \in S
<1>1. f[n] \in Seq(S) /\ Len(f[n]) = Len(Children[n])
  BY DEF Array
<1>2. DOMAIN f[n] = 1..Len(Children[n])
  BY <1>1, LenProperties
<1>3. ASSUME NEW i \in DOMAIN Children[n] PROVE f[n][i] \in S
  BY <1>1, <1>2, ChildrenType, ElementOfSeq
<1> QED BY <1>1, <1>2, <1>3, ChildrenType

\* An assignment of a whole row of an array.
LEMMA SetRow ==
  ASSUME NEW S, NEW f \in Array(S), NEW n \in Node,
         NEW row \in [DOMAIN Children[n] -> S]
  PROVE  [f EXCEPT ![n] = row] \in Array(S)
<1>1. row \in Seq(S) /\ Len(row) = Len(Children[n])
  BY ChildrenType, FcnIsSeq
<1> QED BY <1>1 DEF Array

\* An assignment of one element of an array.
Put(f, p, i, e) == [f EXCEPT ![p] = [f[p] EXCEPT ![i] = e]]

\* It changes that element only.
LEMMA PutEffect ==
  ASSUME NEW S, NEW f \in Array(S), NEW p \in Node, NEW i \in DOMAIN Children[p], NEW e \in S
  PROVE  /\ Put(f, p, i, e) \in Array(S)
         /\ \A q \in Node : \A j \in DOMAIN Children[q] :
              Put(f, p, i, e)[q][j] = IF q = p /\ j = i THEN e ELSE f[q][j]
<1>1. f \in [Node -> Seq(S)]
  BY DEF Array
<1>2. [f[p] EXCEPT ![i] = e] \in [DOMAIN Children[p] -> S]
  BY ArrayElement
<1>3. Put(f, p, i, e) \in Array(S)
  BY <1>2, SetRow DEF Put
<1>4. ASSUME NEW q \in Node, NEW j \in DOMAIN Children[q]
      PROVE  Put(f, p, i, e)[q][j] = IF q = p /\ j = i THEN e ELSE f[q][j]
  BY <1>1, ArrayElement DEF Put
<1> QED BY <1>3, <1>4

\* What SendData leaves in the streams.
LEMMA SendDataEffect ==
  ASSUME NEW st \in Array(Stream), NEW n \in Node, NEW data \in Stream
  PROVE  /\ SendData(n, data, st) \in Array(Stream)
         /\ \A q \in Node : \A j \in DOMAIN Children[q] :
              SendData(n, data, st)[q][j] =
                IF q = n /\ childrenSockets[n][j] \in {"connecting", "open"}
                THEN st[q][j] \o data ELSE st[q][j]
<1> DEFINE row == [i \in DOMAIN Children[n] |->
                     IF childrenSockets[n][i] \in {"connecting", "open"}
                     THEN st[n][i] \o data ELSE st[n][i]]
<1>1. SendData(n, data, st) = [st EXCEPT ![n] = row]
  BY DEF SendData
<1>2. ASSUME NEW i \in DOMAIN Children[n] PROVE row[i] \in Stream
  <2>1. st[n][i] \in Stream
    BY ArrayElement
  <2>2. st[n][i] \o data \in Stream
    BY <2>1, ConcatProperties DEF Stream
  <2> QED BY <2>1, <2>2
<1>3. row \in [DOMAIN Children[n] -> Stream]
  BY <1>2
<1>4. [st EXCEPT ![n] = row] \in Array(Stream)
  BY <1>3, SetRow
<1>5. st \in [Node -> Seq(Stream)]
  BY DEF Array
<1>6. ASSUME NEW q \in Node, NEW j \in DOMAIN Children[q]
      PROVE  SendData(n, data, st)[q][j] =
               IF q = n /\ childrenSockets[n][j] \in {"connecting", "open"}
               THEN st[q][j] \o data ELSE st[q][j]
  <2>1. CASE q = n
    <3>1. SendData(n, data, st)[q] = row
      BY <1>1, <1>5, <2>1
    <3> QED BY <3>1, <2>1
  <2>2. CASE q # n
    <3>1. SendData(n, data, st)[q] = st[q]
      BY <1>1, <1>5, <2>2
    <3> QED BY <3>1, <2>2
  <2> QED BY <2>1, <2>2
<1> QED BY <1>1, <1>4, <1>6

\* The types, in terms of arrays.
LEMMA TypeIsArray ==
  TypeOK <=>
    /\ now \in Nat
    /\ startTime \in [Node -> StartTimes]
    /\ timers \subseteq UNION {{n} \X Timers(n) : n \in Node}
    /\ listening \subseteq Node
    /\ childrenSockets \in Array(SocketState)
    /\ stream \in Array(Stream)
    /\ received \in [Node -> Stream]
    /\ aborted \in BOOLEAN
BY DEF TypeOK, Array, SocketState, Stream

\* When the timers of an application fire.
LEMMA Times ==
  ASSUME TypeOK, NEW n \in Node
  PROVE  /\ startTime[n] \in Nat
         /\ FiresAt(n, "SetTcpReceiveSocket") = startTime[n] + (SENDTCPTIME - 20)
         /\ FiresAt(n, "SetSockets") = startTime[n] + (SENDTCPTIME - 10)
         /\ FiresAt(n, "rootSendData") = startTime[n] + SENDTCPTIME
         /\ \A f \in Timers(n) : FiresAt(n, f) \in Nat
<1>1. startTime[n] \in Nat /\ startTime[n] < SENDTCPTIME - 20 /\ SENDTCPTIME \in Nat
  BY TimeAssumption DEF TypeOK
<1>2. /\ FiresAt(n, "SetTcpReceiveSocket") = startTime[n] + (SENDTCPTIME - 20)
      /\ FiresAt(n, "SetSockets") = startTime[n] + (SENDTCPTIME - 10)
      /\ FiresAt(n, "rootSendData") = startTime[n] + SENDTCPTIME
  BY DEF FiresAt, Delay
<1>3. Timers(n) \subseteq {"SetTcpReceiveSocket", "SetSockets", "rootSendData"}
  BY DEF Timers
<1>4. /\ FiresAt(n, "SetTcpReceiveSocket") \in Nat
      /\ FiresAt(n, "SetSockets") \in Nat
      /\ FiresAt(n, "rootSendData") \in Nat
  BY <1>1, <1>2
<1> QED BY <1>1, <1>2, <1>3, <1>4

\* The data is a sequence of packets.
LEMMA DataType == Data \in Stream
<1>1. Data \in [1..Packets -> 1..Packets]
  BY DEF Data
<1> QED BY <1>1, PacketsAssumption, FcnIsSeq DEF Stream

\* What a node has to send is a sequence of packets.
LEMMA GivenType ==
  ASSUME TypeOK, NEW n \in Node
  PROVE  Given(n) \in Stream
<1>1. received[n] \in Stream
  BY DEF TypeOK, Stream
<1>2. <<>> \in Stream
  BY EmptySeq DEF Stream
<1> QED BY <1>1, <1>2, DataType DEF Given

\* The first state.
LEMMA InitInv == Init => IInv
<1> SUFFICES ASSUME Init PROVE IInv
  OBVIOUS
<1> USE DEF Init
<1>1. childrenSockets \in Array(SocketState)
  <2>1. ASSUME NEW n \in Node
        PROVE  /\ childrenSockets[n] \in Seq(SocketState)
               /\ Len(childrenSockets[n]) = Len(Children[n])
    <3>1. childrenSockets[n] \in [DOMAIN Children[n] -> SocketState]
      BY DEF SocketState
    <3> QED BY <3>1, ChildrenType, FcnIsSeq
  <2> QED BY <2>1 DEF Array
<1>2. stream \in Array(Stream)
  <2>1. ASSUME NEW n \in Node
        PROVE  /\ stream[n] \in Seq(Stream)
               /\ Len(stream[n]) = Len(Children[n])
    <3>1. <<>> \in Stream
      BY EmptySeq DEF Stream
    <3>2. stream[n] \in [DOMAIN Children[n] -> Stream]
      BY <3>1
    <3> QED BY <3>2, ChildrenType, FcnIsSeq
  <2> QED BY <2>1 DEF Array
<1>3. received \in [Node -> Stream]
  BY EmptySeq DEF Stream
<1>4. TypeOK
  <2>1. startTime \in [Node -> StartTimes]
    OBVIOUS
  <2> QED BY <1>1, <1>2, <1>3, <2>1, TypeIsArray
<1>5. ~RootSent
  BY TreeAssumption DEF RootSent, Timers
<1>6. TimersInv
  BY <1>4, Times DEF TimersInv
<1>7. SentInv
  BY <1>5 DEF SentInv
<1>8. QuietInv
  BY DEF QuietInv
<1>9. SocketsInv
  <2>1. \A n \in Node : <<n, "SetSockets">> \in timers
    BY DEF Timers
  <2> QED BY <2>1 DEF SocketsInv
<1>10. StreamsInv
  <2> SUFFICES ASSUME NEW p \in Node, NEW i \in DOMAIN Children[p]
               PROVE  received[Children[p][i]] \o stream[p][i] = Given(p)
    BY DEF StreamsInv
  <2>1. received[Children[p][i]] = <<>> /\ stream[p][i] = <<>>
    BY ChildrenType
  <2>2. Given(p) = <<>>
    BY <1>5 DEF Given, RootSent
  <2>3. <<>> \o <<>> = <<>>
    BY EmptySeq, ConcatEmptySeq
  <2> QED BY <2>1, <2>2, <2>3
<1>11. SocketsReady
  BY DEF SocketsReady
<1> QED BY <1>4, <1>6, <1>7, <1>8, <1>9, <1>10, <1>11 DEF IInv

-------------------------------------------------------------------------------
\* A timer that fires is removed from the pending ones, and nothing else happens to
\* the timers.
LEMMA FiresTimers ==
  ASSUME TypeOK, TimersInv, NEW n \in Node, NEW f, Fires(n, f)
  PROVE  /\ f \in Timers(n) /\ FiresAt(n, f) = now
         /\ timers' \subseteq UNION {{m} \X Timers(m) : m \in Node}
         /\ TimersInv'
<1>1. <<n, f>> \in UNION {{m} \X Timers(m) : m \in Node}
  BY DEF TypeOK, Fires
<1>2. f \in Timers(n)
  BY <1>1
<1>3. now <= FiresAt(n, f) /\ FiresAt(n, f) <= now
  BY <1>2 DEF TimersInv, Fires
<1>4. FiresAt(n, f) = now
  BY <1>2, <1>3, Times DEF TypeOK
<1>5. timers' \subseteq timers
  BY DEF Fires
<1>6. \A m, g : FiresAt(m, g)' = FiresAt(m, g)
  BY DEF Fires, FiresAt
<1>7. TimersInv'
  BY <1>5, <1>6 DEF TimersInv, Fires
<1>8. timers' \subseteq UNION {{m} \X Timers(m) : m \in Node}
  BY <1>5 DEF TypeOK
<1> QED BY <1>2, <1>4, <1>7, <1>8

\* A step of the clock.
LEMMA TickInv == IInv /\ Tick => IInv'
<1> SUFFICES ASSUME IInv, Tick PROVE IInv'
  OBVIOUS
<1> USE DEF Tick
<1>1. /\ TypeOK /\ TimersInv /\ SentInv /\ QuietInv
      /\ SocketsInv /\ StreamsInv /\ SocketsReady
  BY DEF IInv
<1>2. PICK n \in Node : \E f \in Timers(n) :
        /\ <<n, f>> \in timers
        /\ \A m \in Node : \A g \in Timers(m) :
             <<m, g>> \in timers => FiresAt(n, f) <= FiresAt(m, g)
        /\ now' = FiresAt(n, f)
  OBVIOUS
<1>3. PICK f \in Timers(n) :
        /\ <<n, f>> \in timers
        /\ \A m \in Node : \A g \in Timers(m) :
             <<m, g>> \in timers => FiresAt(n, f) <= FiresAt(m, g)
        /\ now' = FiresAt(n, f)
  BY <1>2
<1>4. now' \in Nat
  BY <1>1, <1>3, Times
<1>5. now <= now'
  BY <1>1, <1>3 DEF TimersInv
<1>6. UNCHANGED <<startTime, timers, listening, childrenSockets, stream, received, aborted>>
  BY DEF socketVars, dataVars
<1>7. TypeOK'
  BY <1>1, <1>4, <1>6 DEF TypeOK
<1>8. TimersInv'
  <2>1. \A m, g : FiresAt(m, g)' = FiresAt(m, g)
    BY DEF FiresAt
  <2> QED BY <1>3, <1>6, <2>1 DEF TimersInv
<1>9. SentInv'
  <2>1. startTime[Root] + SENDTCPTIME \in Nat
    BY <1>1, Times, TreeAssumption, TimeAssumption
  <2>2. now \in Nat
    BY <1>1 DEF TypeOK
  <2> QED BY <1>1, <1>4, <1>5, <1>6, <2>1, <2>2 DEF SentInv, RootSent
<1>10. QuietInv'
  BY <1>1, <1>6 DEF QuietInv, RootSent
<1>11. SocketsInv'
  BY <1>1, <1>6 DEF SocketsInv
<1>12. StreamsInv'
  BY <1>1, <1>6 DEF StreamsInv, Given
<1>13. SocketsReady'
  BY <1>1, <1>6 DEF SocketsReady, InTimeForRoot
<1> QED BY <1>7, <1>8, <1>9, <1>10, <1>11, <1>12, <1>13 DEF IInv

\* A node that begins to listen.
LEMMA SetTcpReceiveSocketInv ==
  ASSUME IInv, NEW n \in Node, SetTcpReceiveSocket(n)
  PROVE  IInv'
<1>1. /\ TypeOK /\ TimersInv /\ SentInv /\ QuietInv
      /\ SocketsInv /\ StreamsInv /\ SocketsReady
  BY DEF IInv
<1>2. Fires(n, "SetTcpReceiveSocket")
  BY DEF SetTcpReceiveSocket
<1>3. /\ timers' \subseteq UNION {{m} \X Timers(m) : m \in Node}
      /\ TimersInv'
  BY <1>1, <1>2, FiresTimers
<1>4. /\ listening' = listening \cup {n}
      /\ UNCHANGED <<now, startTime, childrenSockets, stream, received, aborted>>
  BY <1>2 DEF SetTcpReceiveSocket, Fires, dataVars
<1>5. timers' = timers \ {<<n, "SetTcpReceiveSocket">>}
  BY <1>2 DEF Fires
<1>6. RootSent' <=> RootSent
  BY <1>5 DEF RootSent
<1>7. TypeOK'
  BY <1>1, <1>3, <1>4 DEF TypeOK
<1>8. SentInv' /\ QuietInv'
  BY <1>1, <1>4, <1>6 DEF SentInv, QuietInv
<1>9. SocketsInv'
  BY <1>1, <1>4, <1>5 DEF SocketsInv
<1>10. StreamsInv'
  BY <1>1, <1>4, <1>6 DEF StreamsInv, Given, RootSent
<1>11. SocketsReady'
  BY <1>1, <1>4 DEF SocketsReady, InTimeForRoot
<1> QED BY <1>3, <1>7, <1>8, <1>9, <1>10, <1>11 DEF IInv

\* A node that connects to its children.
LEMMA SetSocketsInv ==
  ASSUME IInv, NEW n \in Node, SetSockets(n)
  PROVE  IInv'
<1>1. /\ TypeOK /\ TimersInv /\ SentInv /\ QuietInv
      /\ SocketsInv /\ StreamsInv /\ SocketsReady
  BY DEF IInv
<1>2. Fires(n, "SetSockets")
  BY DEF SetSockets
<1>3. /\ timers' \subseteq UNION {{m} \X Timers(m) : m \in Node}
      /\ TimersInv'
  BY <1>1, <1>2, FiresTimers
<1>4. /\ childrenSockets' = [childrenSockets EXCEPT ![n] = NewSockets(n)]
      /\ UNCHANGED <<now, startTime, listening, stream, received, aborted>>
  BY <1>2 DEF SetSockets, Fires, dataVars
<1>5. timers' = timers \ {<<n, "SetSockets">>} /\ <<n, "SetSockets">> \in timers
  BY <1>2 DEF Fires
<1>6. RootSent' <=> RootSent
  BY <1>5 DEF RootSent
<1>7. childrenSockets \in Array(SocketState)
  BY <1>1, TypeIsArray
<1>8. childrenSockets' \in Array(SocketState)
  <2>1. NewSockets(n) \in [DOMAIN Children[n] -> SocketState]
    BY DEF NewSockets, SocketState
  <2> QED BY <1>4, <1>7, <2>1, SetRow
<1>9. ASSUME NEW p \in Node, NEW i \in DOMAIN Children[p]
      PROVE  childrenSockets'[p][i] = IF p = n THEN "connecting" ELSE childrenSockets[p][i]
  <2>1. childrenSockets \in [Node -> Seq(SocketState)]
    BY <1>7 DEF Array
  <2>2. childrenSockets'[p] = IF p = n THEN NewSockets(n) ELSE childrenSockets[p]
    BY <1>4, <2>1
  <2> QED BY <2>2 DEF NewSockets
<1>10. TypeOK'
  <2>1. /\ now' \in Nat /\ startTime' \in [Node -> StartTimes]
        /\ listening' \subseteq Node /\ stream' \in Array(Stream)
        /\ received' \in [Node -> Stream] /\ aborted' \in BOOLEAN
    BY <1>1, <1>4, TypeIsArray
  <2> QED BY <1>3, <1>8, <2>1 DEF TypeOK, Array, SocketState, Stream
<1>11. SentInv' /\ QuietInv'
  BY <1>1, <1>4, <1>6 DEF SentInv, QuietInv
<1>12. SocketsInv'
  BY <1>1, <1>5, <1>9 DEF SocketsInv
<1>13. StreamsInv'
  <2> SUFFICES ASSUME NEW p \in Node, NEW i \in DOMAIN Children[p],
                      childrenSockets'[p][i] # "failed", ~aborted
               PROVE  received[Children[p][i]] \o stream[p][i] = Given(p)'
    BY <1>4 DEF StreamsInv
  <2>1. Given(p)' = Given(p)
    BY <1>4, <1>6 DEF Given, RootSent
  <2>2. childrenSockets[p][i] # "failed"
    BY <1>1, <1>5, <1>9 DEF SocketsInv
  <2> QED BY <1>1, <2>1, <2>2 DEF StreamsInv
<1>14. SocketsReady'
  BY <1>1, <1>4 DEF SocketsReady, InTimeForRoot
<1> QED BY <1>3, <1>10, <1>11, <1>12, <1>13, <1>14 DEF IInv

\* When the root sends, its sockets exist, and every stream begins with all the data.
LEMMA RootSendDataInv == IInv /\ rootSendData => IInv'
<1> SUFFICES ASSUME IInv, rootSendData PROVE IInv'
  OBVIOUS
<1>1. /\ TypeOK /\ TimersInv /\ SentInv /\ QuietInv
      /\ SocketsInv /\ StreamsInv /\ SocketsReady
  BY DEF IInv
<1>2. Root \in Node
  BY TreeAssumption
<1>3. Fires(Root, "rootSendData")
  BY DEF rootSendData
<1>4. /\ timers' \subseteq UNION {{m} \X Timers(m) : m \in Node}
      /\ TimersInv'
      /\ FiresAt(Root, "rootSendData") = now
  BY <1>1, <1>2, <1>3, FiresTimers
<1>5. /\ timers' = timers \ {<<Root, "rootSendData">>}
      /\ <<Root, "rootSendData">> \in timers
      /\ ~aborted
      /\ UNCHANGED <<now, startTime, listening, childrenSockets, received>>
  BY <1>3 DEF rootSendData, Fires, socketVars
<1>6. ~RootSent /\ RootSent'
  BY <1>5 DEF RootSent
<1>7. <<Root, "SetSockets">> \notin timers
  <2>1. "SetSockets" \in Timers(Root)
    BY DEF Timers
  <2>2. SUFFICES ASSUME <<Root, "SetSockets">> \in timers PROVE FALSE
    OBVIOUS
  <2>3. now <= FiresAt(Root, "SetSockets")
    BY <1>1, <1>2, <2>1, <2>2 DEF TimersInv
  <2>4. startTime[Root] + SENDTCPTIME <= startTime[Root] + (SENDTCPTIME - 10)
    BY <1>1, <1>2, <1>4, <2>3, Times
  <2> QED BY <1>1, <1>2, <2>4, Times, TimeAssumption
<1>8. ~NullSocket(Root)
  BY <1>1, <1>2, <1>7 DEF NullSocket, SocketsInv
<1>9. /\ stream' = SendData(Root, Data, stream)
      /\ aborted' = aborted
  BY <1>8 DEF rootSendData
<1>10. stream \in Array(Stream)
  BY <1>1, TypeIsArray
<1>11. /\ stream' \in Array(Stream)
       /\ \A q \in Node : \A j \in DOMAIN Children[q] :
            stream'[q][j] =
              IF q = Root /\ childrenSockets[Root][j] \in {"connecting", "open"}
              THEN stream[q][j] \o Data ELSE stream[q][j]
  BY <1>2, <1>9, <1>10, DataType, SendDataEffect
<1>12. TypeOK'
  <2>1. /\ now' \in Nat /\ startTime' \in [Node -> StartTimes]
        /\ listening' \subseteq Node /\ childrenSockets' \in Array(SocketState)
        /\ received' \in [Node -> Stream] /\ aborted' \in BOOLEAN
    BY <1>1, <1>5, <1>9, TypeIsArray
  <2> QED BY <1>4, <1>11, <2>1 DEF TypeOK, Array, SocketState, Stream
<1>13. SentInv'
  <2>1. startTime[Root] + SENDTCPTIME = now /\ now \in Nat
    BY <1>1, <1>2, <1>4, Times DEF TypeOK
  <2> QED BY <1>5, <2>1 DEF SentInv
<1>14. QuietInv'
  BY <1>6 DEF QuietInv
<1>15. SocketsInv'
  BY <1>1, <1>5 DEF SocketsInv
<1>16. StreamsInv'
  <2> SUFFICES ASSUME NEW p \in Node, NEW i \in DOMAIN Children[p],
                      childrenSockets[p][i] # "failed"
               PROVE  received[Children[p][i]] \o stream'[p][i] = Given(p)'
    BY <1>5 DEF StreamsInv
  <2>1. received[Children[p][i]] \o stream[p][i] = Given(p)
    BY <1>1, <1>5 DEF StreamsInv
  <2>2. CASE p # Root
    <3>1. Given(p)' = Given(p)
      BY <1>5, <2>2 DEF Given
    <3> QED BY <1>11, <2>1, <2>2, <3>1
  <2>3. CASE p = Root
    <3>1. Given(p) = <<>> /\ Given(p)' = Data
      BY <1>5, <1>6, <2>3 DEF Given, RootSent
    <3>2. received[Children[p][i]] \in Stream /\ stream[p][i] = <<>>
      BY <1>1, <1>6, ChildrenType DEF TypeOK, Stream, QuietInv
    <3>3. received[Children[p][i]] = <<>>
      BY <2>1, <3>1, <3>2, ConcatEmptySeq DEF Stream
    <3>4. childrenSockets[p][i] \in {"connecting", "open"}
      <4>1. childrenSockets[p][i] \in SocketState
        BY <1>1, TypeIsArray, ArrayElement
      <4>2. childrenSockets[p][i] # "null"
        BY <1>1, <1>7, <2>3 DEF SocketsInv
      <4> QED BY <4>1, <4>2 DEF SocketState
    <3>5. stream'[p][i] = stream[p][i] \o Data
      BY <1>11, <2>3, <3>4
    <3>6. stream'[p][i] = Data
      BY <3>2, <3>5, DataType, ConcatEmptySeq DEF Stream
    <3>7. <<>> \o Data = Data
      BY DataType, ConcatEmptySeq DEF Stream
    <3> QED BY <3>1, <3>3, <3>6, <3>7
  <2> QED BY <2>2, <2>3
<1>17. SocketsReady'
  BY <1>1, <1>5, <1>9 DEF SocketsReady, InTimeForRoot
<1> QED BY <1>4, <1>12, <1>13, <1>14, <1>15, <1>16, <1>17 DEF IInv

\* A connection that is made.
LEMMA HandleAcceptInv ==
  ASSUME IInv, NEW p \in Node, NEW i \in DOMAIN Children[p], HandleAccept(p, i)
  PROVE  IInv'
<1>1. /\ TypeOK /\ TimersInv /\ SentInv /\ QuietInv
      /\ SocketsInv /\ StreamsInv /\ SocketsReady
  BY DEF IInv
<1>2. /\ childrenSockets[p][i] = "connecting"
      /\ childrenSockets' = [childrenSockets EXCEPT ![p][i] = "open"]
      /\ UNCHANGED <<now, startTime, timers, listening, stream, received, aborted>>
  BY DEF HandleAccept, Arrives, dataVars
<1>3. childrenSockets \in Array(SocketState)
  BY <1>1, TypeIsArray
<1>4. "open" \in SocketState
  BY DEF SocketState
<1>5. /\ childrenSockets' \in Array(SocketState)
      /\ \A q \in Node : \A j \in DOMAIN Children[q] :
           childrenSockets'[q][j] = IF q = p /\ j = i THEN "open" ELSE childrenSockets[q][j]
  <2>1. childrenSockets \in [Node -> Seq(SocketState)]
    BY <1>3 DEF Array
  <2>2. childrenSockets' = Put(childrenSockets, p, i, "open")
    BY <1>2, <2>1 DEF Put
  <2> QED BY <1>3, <1>4, <2>2, PutEffect
<1>6. TypeOK'
  BY <1>1, <1>2, <1>5 DEF TypeOK, Array, SocketState
<1>7. TimersInv'
  BY <1>1, <1>2 DEF TimersInv, FiresAt
<1>8. SentInv' /\ QuietInv'
  BY <1>1, <1>2 DEF SentInv, QuietInv, RootSent
<1>9. SocketsInv'
  <2>1. \A q \in Node : \A j \in DOMAIN Children[q] :
          (childrenSockets'[q][j] = "null") <=> (childrenSockets[q][j] = "null")
    BY <1>2, <1>5
  <2> QED BY <1>1, <1>2, <2>1 DEF SocketsInv
<1>10. StreamsInv'
  <2>1. \A q \in Node : \A j \in DOMAIN Children[q] :
          childrenSockets'[q][j] # "failed" => childrenSockets[q][j] # "failed"
    BY <1>2, <1>5
  <2> QED BY <1>1, <1>2, <2>1 DEF StreamsInv, Given
<1>11. SocketsReady'
  BY <1>1, <1>2 DEF SocketsReady, InTimeForRoot
<1> QED BY <1>6, <1>7, <1>8, <1>9, <1>10, <1>11 DEF IInv

\* A connection that is refused.
LEMMA ConnectionFailedInv ==
  ASSUME IInv, NEW p \in Node, NEW i \in DOMAIN Children[p], ConnectionFailed(p, i)
  PROVE  IInv'
<1>1. /\ TypeOK /\ TimersInv /\ SentInv /\ QuietInv
      /\ SocketsInv /\ StreamsInv /\ SocketsReady
  BY DEF IInv
<1>2. /\ childrenSockets[p][i] = "connecting"
      /\ childrenSockets' = [childrenSockets EXCEPT ![p][i] = "failed"]
      /\ stream' = [stream EXCEPT ![p][i] = <<>>]
      /\ UNCHANGED <<now, startTime, timers, listening, received, aborted>>
  BY DEF ConnectionFailed, Arrives
<1>3. childrenSockets \in Array(SocketState) /\ stream \in Array(Stream)
  BY <1>1, TypeIsArray
<1>4. "failed" \in SocketState /\ <<>> \in Stream
  BY EmptySeq DEF SocketState, Stream
<1>5. /\ childrenSockets' \in Array(SocketState)
      /\ \A q \in Node : \A j \in DOMAIN Children[q] :
           childrenSockets'[q][j] = IF q = p /\ j = i THEN "failed" ELSE childrenSockets[q][j]
  <2>1. childrenSockets \in [Node -> Seq(SocketState)]
    BY <1>3 DEF Array
  <2>2. childrenSockets' = Put(childrenSockets, p, i, "failed")
    BY <1>2, <2>1 DEF Put
  <2> QED BY <1>3, <1>4, <2>2, PutEffect
<1>6. /\ stream' \in Array(Stream)
      /\ \A q \in Node : \A j \in DOMAIN Children[q] :
           stream'[q][j] = IF q = p /\ j = i THEN <<>> ELSE stream[q][j]
  <2>1. stream \in [Node -> Seq(Stream)]
    BY <1>3 DEF Array
  <2>2. stream' = Put(stream, p, i, <<>>)
    BY <1>2, <2>1 DEF Put
  <2> QED BY <1>3, <1>4, <2>2, PutEffect
<1>7. TypeOK'
  BY <1>1, <1>2, <1>5, <1>6 DEF TypeOK, Array, SocketState, Stream
<1>8. TimersInv'
  BY <1>1, <1>2 DEF TimersInv, FiresAt
<1>9. SentInv'
  BY <1>1, <1>2 DEF SentInv, RootSent
<1>10. QuietInv'
  BY <1>1, <1>2, <1>6 DEF QuietInv, RootSent
<1>11. SocketsInv'
  <2>1. \A q \in Node : \A j \in DOMAIN Children[q] :
          (childrenSockets'[q][j] = "null") <=> (childrenSockets[q][j] = "null")
    BY <1>2, <1>5
  <2> QED BY <1>1, <1>2, <2>1 DEF SocketsInv
<1>12. StreamsInv'
  <2>1. \A q \in Node : \A j \in DOMAIN Children[q] :
          childrenSockets'[q][j] # "failed" =>
            childrenSockets[q][j] # "failed" /\ stream'[q][j] = stream[q][j]
    BY <1>5, <1>6
  <2>2. \A q \in Node : Given(q)' = Given(q)
    BY <1>2 DEF Given
  <2> SUFFICES ASSUME NEW q \in Node, NEW j \in DOMAIN Children[q],
                      childrenSockets'[q][j] # "failed", ~aborted
               PROVE  received[Children[q][j]] \o stream'[q][j] = Given(q)'
    BY <1>2 DEF StreamsInv
  <2>3. received[Children[q][j]] \o stream[q][j] = Given(q)
    BY <1>1, <2>1 DEF StreamsInv
  <2> QED BY <2>1, <2>2, <2>3
<1>13. SocketsReady'
  BY <1>1, <1>2 DEF SocketsReady, InTimeForRoot
<1> QED BY <1>7, <1>8, <1>9, <1>10, <1>11, <1>12, <1>13 DEF IInv

\* What a read takes from a stream, and what it leaves, are the stream.
LEMMA ReadSplits ==
  ASSUME NEW str \in Stream, NEW k \in 1..Len(str)
  PROVE  /\ SubSeq(str, 1, k) \in Stream
         /\ SubSeq(str, k + 1, Len(str)) \in Stream
         /\ SubSeq(str, 1, k) \o SubSeq(str, k + 1, Len(str)) = str
<1>1. Len(str) \in Nat /\ \A j \in 1..Len(str) : str[j] \in 1..Packets
  BY LenProperties, ElementOfSeq DEF Stream
<1>2. k \in Int /\ k + 1 \in Int /\ Len(str) \in Int /\ 1 <= k /\ k <= Len(str)
  BY <1>1
<1>3. \A j \in 1..k : str[j] \in 1..Packets
  BY <1>1, <1>2
<1>4. \A j \in (k + 1)..Len(str) : str[j] \in 1..Packets
  BY <1>1, <1>2
<1>5. SubSeq(str, 1, k) \in Stream
  BY <1>2, <1>3, SubSeqProperties DEF Stream
<1>6. SubSeq(str, k + 1, Len(str)) \in Stream
  BY <1>2, <1>4, SubSeqProperties DEF Stream
<1>7. 1 \in 1..Len(str) + 1 /\ k \in 1 - 1..Len(str) /\ Len(str) \in k..Len(str)
  BY <1>2
<1>8. SubSeq(str, 1, k) \o SubSeq(str, k + 1, Len(str)) = SubSeq(str, 1, Len(str))
  BY <1>7, ConcatAdjacentSubSeq DEF Stream
<1>9. SubSeq(str, 1, Len(str)) = str
  BY SubSeqFull DEF Stream
<1> QED BY <1>5, <1>6, <1>8, <1>9

\* The sockets of a node that reads in time exist.
LEMMA ReaderHasSockets ==
  ASSUME IInv, NothingDue, RootSent, InTimeForRoot, NEW n \in Node
  PROVE  ~NullSocket(n)
<1>1. TypeOK /\ SentInv /\ SocketsInv
  BY DEF IInv
<1>2. startTime[Root] + SENDTCPTIME <= now
  BY <1>1 DEF SentInv
<1>3. startTime[n] <= startTime[Root] + 10
  BY DEF InTimeForRoot
<1>4. <<n, "SetSockets">> \notin timers
  <2>1. SUFFICES ASSUME <<n, "SetSockets">> \in timers PROVE FALSE
    OBVIOUS
  <2>2. FiresAt(n, "SetSockets") > now
    BY <2>1 DEF NothingDue, Timers
  <2>3. startTime[n] + (SENDTCPTIME - 10) > now
    BY <1>1, <2>2, Times
  <2>4. /\ startTime[n] \in Nat /\ startTime[Root] \in Nat
        /\ SENDTCPTIME \in Nat /\ now \in Nat
    BY <1>1, Times, TreeAssumption, TimeAssumption DEF TypeOK
  <2> QED BY <1>2, <1>3, <2>3, <2>4
<1> QED BY <1>1, <1>4 DEF NullSocket, SocketsInv

\* Streams can be joined in any order.
LEMMA StreamsAssociative ==
  ASSUME NEW s \in Stream, NEW t \in Stream, NEW u \in Stream
  PROVE  (s \o t) \o u = s \o (t \o u)
BY ConcatAssociative DEF Stream

\* A read whose data is sent on leaves each connection as it should be.
LEMMA ReadForwards ==
  ASSUME TypeOK, SocketsInv, StreamsInv, ~aborted,
         NEW p \in Node, NEW i \in DOMAIN Children[p], childrenSockets[p][i] = "open",
         NEW n, n = Children[p][i], ~NullSocket(n),
         NEW data \in Stream, NEW rest \in Stream, data \o rest = stream[p][i],
         received' = [received EXCEPT ![n] = received[n] \o data],
         stream' = SendData(n, data, Put(stream, p, i, rest)),
         UNCHANGED <<timers, childrenSockets>>
  PROVE  stream' \in Array(Stream) /\ received' \in [Node -> Stream] /\ StreamsInv'
<1>1. n \in Node \ {Root}
  BY ChildrenType
<1>2. stream \in Array(Stream) /\ received \in [Node -> Stream]
  BY TypeIsArray
<1> DEFINE mid == Put(stream, p, i, rest)
<1>3. /\ mid \in Array(Stream)
      /\ \A q \in Node : \A j \in DOMAIN Children[q] :
           mid[q][j] = IF q = p /\ j = i THEN rest ELSE stream[q][j]
  BY <1>2, PutEffect
<1> HIDE DEF mid
<1>4. stream' = SendData(n, data, mid)
  BY DEF mid
<1>5. /\ stream' \in Array(Stream)
      /\ \A q \in Node : \A j \in DOMAIN Children[q] :
           stream'[q][j] = IF q = n /\ childrenSockets[n][j] \in {"connecting", "open"}
                           THEN mid[q][j] \o data ELSE mid[q][j]
  BY <1>1, <1>3, <1>4, SendDataEffect
<1>6. received[n] \in Stream /\ received[n] \o data \in Stream
  BY <1>1, <1>2, ConcatProperties DEF Stream
<1>7. received' \in [Node -> Stream]
  BY <1>2, <1>6
<1>8. ASSUME NEW q \in Node, NEW j \in DOMAIN Children[q], childrenSockets[q][j] # "failed"
      PROVE  received'[Children[q][j]] \o stream'[q][j] = Given(q)'
  <2>1. Children[q][j] \in Node
    BY ChildrenType
  <2>2. Children[q][j] = n <=> q = p /\ j = i
    BY TreeAssumption
  <2>3. received[Children[q][j]] \o stream[q][j] = Given(q)
    BY <1>8 DEF StreamsInv
  <2>4. /\ received[Children[q][j]] \in Stream /\ received'[Children[q][j]] \in Stream
        /\ mid[q][j] \in Stream /\ Given(q) \in Stream
    BY <1>2, <1>3, <1>7, <2>1, ArrayElement, GivenType
  <2>5. received'[Children[q][j]] \o mid[q][j] = Given(q)
    <3>1. CASE Children[q][j] = n
      <4>1. received'[Children[q][j]] = received[n] \o data /\ mid[q][j] = rest
        BY <1>1, <1>2, <1>3, <2>2, <3>1
      <4>2. (received[n] \o data) \o rest = received[n] \o (data \o rest)
        BY <1>6, StreamsAssociative
      <4>3. received[n] \o stream[p][i] = Given(q)
        BY <2>2, <2>3, <3>1
      <4> QED BY <4>1, <4>2, <4>3
    <3>2. CASE Children[q][j] # n
      <4>1. received'[Children[q][j]] = received[Children[q][j]] /\ mid[q][j] = stream[q][j]
        BY <1>2, <1>3, <2>1, <2>2, <3>2
      <4> QED BY <2>3, <4>1
    <3> QED BY <3>1, <3>2
  <2>6. CASE q # n
    <3>1. Given(q)' = Given(q)
      BY <1>2, <2>6 DEF Given
    <3>2. stream'[q][j] = mid[q][j]
      BY <1>5, <2>6
    <3> QED BY <2>5, <3>1, <3>2
  <2>7. CASE q = n
    <3>1. Given(q) = received[n] /\ Given(q)' = received[n] \o data
      BY <1>1, <1>2, <2>7 DEF Given
    <3>2. childrenSockets[q][j] \in SocketState
      BY TypeIsArray, ArrayElement
    <3>3. childrenSockets[n][j] \in {"connecting", "open"}
      BY <1>8, <2>7, <3>2 DEF NullSocket, SocketState
    <3>4. stream'[q][j] = mid[q][j] \o data
      BY <1>5, <2>7, <3>3
    <3>5. received'[Children[q][j]] \o (mid[q][j] \o data)
            = (received'[Children[q][j]] \o mid[q][j]) \o data
      <4> DEFINE before == received'[Children[q][j]]
                 between == mid[q][j]
      <4>1. before \in Stream /\ between \in Stream
        BY <2>4
      <4> HIDE DEF before, between
      <4>2. before \o (between \o data) = (before \o between) \o data
        BY <4>1, StreamsAssociative
      <4> QED BY <4>2 DEF before, between
    <3> QED BY <2>5, <3>1, <3>4, <3>5
  <2> QED BY <2>6, <2>7
<1>9. StreamsInv'
  BY <1>8 DEF StreamsInv
<1> QED BY <1>5, <1>7, <1>9

\* A node that reads what has arrived.
LEMMA HandleTcpReadInv ==
  ASSUME IInv, NEW p \in Node, NEW i \in DOMAIN Children[p], HandleTcpRead(p, i)
  PROVE  IInv'
<1>1. /\ TypeOK /\ TimersInv /\ SentInv /\ QuietInv
      /\ SocketsInv /\ StreamsInv /\ SocketsReady
  BY DEF IInv
<1> DEFINE n == Children[p][i]
           str == stream[p][i]
<1>2. /\ ~aborted /\ NothingDue /\ childrenSockets[p][i] = "open"
      /\ UNCHANGED <<now, startTime, timers, listening, childrenSockets>>
  BY DEF HandleTcpRead, Arrives, socketVars
<1>3. PICK k \in 1..Len(str) :
        IF NullSocket(n)
        THEN aborted' = TRUE /\ UNCHANGED dataVars
        ELSE /\ received' = [received EXCEPT ![n] = @ \o SubSeq(str, 1, k)]
             /\ stream' = SendData(n, SubSeq(str, 1, k),
                           [stream EXCEPT ![p][i] = SubSeq(str, k + 1, Len(str))])
             /\ UNCHANGED aborted
  BY DEF HandleTcpRead
<1>4. stream \in Array(Stream) /\ received \in [Node -> Stream] /\ n \in Node
  BY <1>1, TypeIsArray, ChildrenType
<1>5. str \in Stream
  BY <1>4, ArrayElement
<1>6. RootSent
  <2>1. SUFFICES ASSUME ~RootSent PROVE FALSE
    OBVIOUS
  <2>2. Len(str) = 0
    BY <1>1, <2>1, EmptySeq DEF QuietInv
  <2> QED BY <1>3, <2>2
<1>7. TimersInv' /\ SentInv' /\ SocketsInv' /\ QuietInv'
  BY <1>1, <1>2, <1>6 DEF TimersInv, FiresAt, SentInv, RootSent, SocketsInv, QuietInv
<1>8. CASE NullSocket(n)
  <2>1. aborted' = TRUE /\ UNCHANGED <<stream, received>>
    BY <1>3, <1>8 DEF dataVars
  <2>2. TypeOK'
    BY <1>1, <1>2, <2>1 DEF TypeOK
  <2>3. StreamsInv'
    BY <2>1 DEF StreamsInv
  <2>4. ~InTimeForRoot
    BY <1>2, <1>4, <1>6, <1>8, ReaderHasSockets
  <2>5. SocketsReady'
    BY <1>2, <2>4 DEF SocketsReady, InTimeForRoot
  <2> QED BY <1>7, <2>2, <2>3, <2>5 DEF IInv
<1>9. CASE ~NullSocket(n)
  <2> DEFINE data == SubSeq(str, 1, k)
             rest == SubSeq(str, k + 1, Len(str))
  <2>1. data \in Stream /\ rest \in Stream /\ data \o rest = str
    BY <1>5, ReadSplits
  <2>2. /\ received' = [received EXCEPT ![n] = received[n] \o data]
        /\ stream' = SendData(n, data, [stream EXCEPT ![p][i] = rest])
        /\ aborted' = aborted
    BY <1>3, <1>9
  <2> HIDE DEF data, rest
  <2>3. [stream EXCEPT ![p][i] = rest] = Put(stream, p, i, rest)
    BY DEF Put
  <2>4. stream' = SendData(n, data, Put(stream, p, i, rest))
    BY <2>2, <2>3
  <2>5. stream' \in Array(Stream) /\ received' \in [Node -> Stream] /\ StreamsInv'
    BY <1>1, <1>2, <1>9, <2>1, <2>2, <2>4, ReadForwards
  <2>6. TypeOK'
    <3>1. /\ now' \in Nat /\ startTime' \in [Node -> StartTimes]
          /\ timers' \subseteq UNION {{m} \X Timers(m) : m \in Node}
          /\ listening' \subseteq Node /\ childrenSockets' \in Array(SocketState)
          /\ aborted' \in BOOLEAN
      BY <1>1, <1>2, <2>2, TypeIsArray
    <3> QED BY <2>5, <3>1 DEF TypeOK, Array, SocketState, Stream
  <2>7. SocketsReady'
    BY <1>1, <1>2, <2>2 DEF SocketsReady, InTimeForRoot
  <2> QED BY <1>7, <2>5, <2>6, <2>7 DEF IInv
<1> QED BY <1>8, <1>9

-------------------------------------------------------------------------------
\* Every step, and every stutter.
LEMMA NextInv == IInv /\ [Next]_vars => IInv'
<1> SUFFICES ASSUME IInv, [Next]_vars PROVE IInv'
  OBVIOUS
<1>1. CASE Tick
  BY <1>1, TickInv
<1>2. CASE rootSendData
  BY <1>2, RootSendDataInv
<1>3. ASSUME NEW n \in Node, Timeout(n) PROVE IInv'
  BY <1>3, SetTcpReceiveSocketInv, SetSocketsInv DEF Timeout
<1>4. ASSUME NEW p \in Node, Segment(p) PROVE IInv'
  <2>1. PICK i \in DOMAIN Children[p] :
          HandleAccept(p, i) \/ ConnectionFailed(p, i) \/ HandleTcpRead(p, i)
    BY <1>4 DEF Segment
  <2> QED BY <2>1, HandleAcceptInv, ConnectionFailedInv, HandleTcpReadInv
<1>5. CASE UNCHANGED vars
  <2>1. UNCHANGED <<now, startTime, timers, listening, childrenSockets, stream, received, aborted>>
    BY <1>5 DEF vars, socketVars, dataVars
  <2>2. /\ TypeOK /\ TimersInv /\ SentInv /\ QuietInv
        /\ SocketsInv /\ StreamsInv /\ SocketsReady
    BY DEF IInv
  <2>3. TypeOK' /\ TimersInv' /\ SentInv' /\ QuietInv'
    BY <2>1, <2>2 DEF TypeOK, TimersInv, FiresAt, SentInv, QuietInv, RootSent
  <2>4. SocketsInv' /\ StreamsInv' /\ SocketsReady'
    BY <2>1, <2>2 DEF SocketsInv, StreamsInv, Given, SocketsReady, InTimeForRoot
  <2> QED BY <2>3, <2>4 DEF IInv
<1> QED BY <1>1, <1>2, <1>3, <1>4, <1>5 DEF Next

\* The invariant of the data phase.
LEMMA Invariance == Spec => []IInv
<1>1. Init => IInv
  BY InitInv
<1>2. IInv /\ [Next]_vars => IInv'
  BY NextInv
<1> QED BY <1>1, <1>2, PTL DEF Spec

\* Every variable keeps its type: no array of sockets is indexed past its end.
THEOREM DataTypeCorrect == Spec => []TypeOK
<1>1. IInv => TypeOK
  BY DEF IInv
<1> QED BY <1>1, Invariance, PTL

\* Along every connection nothing is lost, repeated or reordered by the nodes.
THEOREM AlwaysForwarded == Spec => []Forwarded
<1>1. IInv => Forwarded
  BY DEF IInv, StreamsInv, Forwarded
<1> QED BY <1>1, Invariance, PTL

\* If all start within ten seconds of the root, no socket is used before it exists.
THEOREM SocketsAlwaysReady == Spec => []SocketsReady
<1>1. IInv => SocketsReady
  BY DEF IInv
<1> QED BY <1>1, Invariance, PTL
-------------------------------------------------------------------------------
(* The refinement of DataRelay *)

\* What a read adds to what was received before is the next part of what the parent
\* has.
LEMMA TakenFromParent ==
  ASSUME NEW g \in Stream, NEW before \in Stream, NEW str \in Stream,
         before \o str = g, NEW k \in 1..Len(str)
  PROVE  /\ Len(before) + k \in Len(before) + 1 .. Len(g)
         /\ before \o SubSeq(str, 1, k) = SubSeq(g, 1, Len(before) + k)
<1> DEFINE data == SubSeq(str, 1, k)
           rest == SubSeq(str, k + 1, Len(str))
           m    == Len(before) + k
<1>1. data \in Stream /\ rest \in Stream /\ data \o rest = str
  BY ReadSplits
<1>2. /\ Len(before) \in Nat /\ Len(str) \in Nat /\ Len(g) \in Nat
      /\ \A i \in 1..Len(g) : g[i] \in 1..Packets
      /\ \A i \in 1..Len(str) : str[i] \in 1..Packets
  BY LenProperties, ElementOfSeq DEF Stream
<1>3. Len(g) = Len(before) + Len(str)
  BY ConcatProperties DEF Stream
<1>4. k \in Int /\ k <= Len(str) /\ m \in Len(before) + 1 .. Len(g) /\ m \in Int /\ 0 <= m
  BY <1>2, <1>3
<1>5. Len(data) = k /\ \A i \in 1..k : data[i] = str[i]
  <2>1. \A i \in 1..k : str[i] \in 1..Packets
    BY <1>2, <1>4
  <2>2. /\ Len(SubSeq(str, 1, k)) = IF 1 <= k THEN k - 1 + 1 ELSE 0
        /\ \A i \in 1..k - 1 + 1 : SubSeq(str, 1, k)[i] = str[1 + i - 1]
    BY <1>4, <2>1, SubSeqProperties
  <2> QED BY <1>2, <2>2
<1>6. /\ SubSeq(g, 1, m) \in Stream /\ Len(SubSeq(g, 1, m)) = m
      /\ \A i \in 1..m : SubSeq(g, 1, m)[i] = g[i]
  <2>1. \A i \in 1..m : g[i] \in 1..Packets
    BY <1>2, <1>4
  <2>2. /\ SubSeq(g, 1, m) \in Seq(1..Packets)
        /\ Len(SubSeq(g, 1, m)) = IF 1 <= m THEN m - 1 + 1 ELSE 0
        /\ \A i \in 1..m - 1 + 1 : SubSeq(g, 1, m)[i] = g[1 + i - 1]
    BY <1>4, <2>1, SubSeqProperties
  <2> QED BY <1>2, <1>4, <2>2 DEF Stream
<1> HIDE DEF data, rest
<1>7. /\ before \o data \in Stream /\ Len(before \o data) = m
      /\ \A i \in 1..m : (before \o data)[i] = g[i]
  <2>1. /\ before \o data \in Stream
        /\ Len(before \o data) = Len(before) + Len(data)
        /\ \A i \in 1..Len(before) + Len(data) :
             (before \o data)[i] = IF i <= Len(before) THEN before[i] ELSE data[i - Len(before)]
    BY <1>1, ConcatProperties DEF Stream
  <2>2. \A i \in 1..Len(before) + Len(str) :
          g[i] = IF i <= Len(before) THEN before[i] ELSE str[i - Len(before)]
    BY ConcatProperties DEF Stream
  <2>3. ASSUME NEW i \in 1..m PROVE (before \o data)[i] = g[i]
    <3>1. i \in 1..Len(before) + Len(data) /\ i \in 1..Len(before) + Len(str)
      BY <1>2, <1>3, <1>4, <1>5
    <3>2. i > Len(before) => i - Len(before) \in 1..k
      BY <1>2, <1>4
    <3>3. CASE i <= Len(before)
      BY <2>1, <2>2, <3>1, <3>3
    <3>4. CASE i > Len(before)
      <4>1. (before \o data)[i] = data[i - Len(before)] /\ g[i] = str[i - Len(before)]
        BY <1>2, <2>1, <2>2, <3>1, <3>4
      <4> QED BY <1>5, <3>2, <3>4, <4>1
    <3>5. i \in Int /\ Len(before) \in Int
      BY <1>2, <1>4
    <3>6. i <= Len(before) \/ i > Len(before)
      BY <3>5
    <3> QED BY <3>3, <3>4, <3>6
  <2> QED BY <1>5, <2>1, <2>3
<1>8. before \o data = SubSeq(g, 1, m)
  BY <1>6, <1>7, SeqEqual DEF Stream
<1> QED BY <1>4, <1>8 DEF data

\* The packets that each node has to pass on.
Logs == [n \in Node |-> Given(n)]

\* Only a read and the first data of the root change what a node has.
LEMMA LogsStay ==
  ASSUME UNCHANGED received, RootSent' <=> RootSent
  PROVE  Logs' = Logs
<1>1. \A n : Given(n)' = Given(n)
  BY DEF Given, RootSent
<1> QED BY <1>1 DEF Logs

\* One node has more than before.
LEMMA LogsGrow ==
  ASSUME NEW n \in Node, \A m \in Node \ {n} : Given(m)' = Given(m)
  PROVE  Logs' = [Logs EXCEPT ![n] = Given(n)']
BY DEF Logs

\* A read takes over the next packets of the parent.
LEMMA ReadTakesOver ==
  ASSUME IInv, NEW p \in Node, NEW i \in DOMAIN Children[p], HandleTcpRead(p, i),
         ~UNCHANGED received
  PROVE  \E n \in Node : Relay!TakeOver(p, n)
<1> DEFINE n == Children[p][i]
           str == stream[p][i]
<1>1. TypeOK /\ StreamsInv
  BY DEF IInv
<1>2. /\ ~aborted /\ childrenSockets[p][i] = "open"
      /\ UNCHANGED timers
  BY DEF HandleTcpRead, Arrives
<1>3. PICK k \in 1..Len(str) : received' = [received EXCEPT ![n] = @ \o SubSeq(str, 1, k)]
  BY DEF HandleTcpRead, dataVars
<1>4. n \in Node \ {Root}
  BY ChildrenType
<1>5. stream \in Array(Stream) /\ received \in [Node -> Stream]
  BY <1>1, TypeIsArray
<1>6. received[n] \in Stream /\ str \in Stream /\ Given(p) \in Stream
  BY <1>1, <1>4, <1>5, ArrayElement, GivenType
<1>7. received[n] \o str = Given(p)
  BY <1>1, <1>2 DEF StreamsInv
<1>8. \A m \in Node \ {n} : Given(m)' = Given(m)
  BY <1>2, <1>3, <1>5 DEF Given
<1>9. Given(n) = received[n] /\ Given(n)' = received[n] \o SubSeq(str, 1, k)
  BY <1>3, <1>4, <1>5 DEF Given
<1> HIDE DEF n, str
<1>10. /\ Len(Given(n)) + k \in Len(Given(n)) + 1 .. Len(Given(p))
       /\ Given(n)' = SubSeq(Given(p), 1, Len(Given(n)) + k)
  BY <1>6, <1>7, <1>9, TakenFromParent
<1>11. Logs[n] = Given(n) /\ Logs[p] = Given(p)
  BY <1>4 DEF Logs
<1>12. Logs' = [Logs EXCEPT ![n] = Given(n)']
  BY <1>4, <1>8, LogsGrow
<1>13. \E l \in Len(Logs[n]) + 1 .. Len(Logs[p]) :
         Logs' = [Logs EXCEPT ![n] = SubSeq(Logs[p], 1, l)]
  BY <1>10, <1>11, <1>12
<1>14. <<p, n>> \in {e \in Node \X Node : \E j \in DOMAIN Children[e[1]] : Children[e[1]][j] = e[2]}
  BY <1>4 DEF n
<1>15. Relay!TakeOver(p, n)
  BY <1>13, <1>14 DEF Relay!TakeOver, Logs
<1> QED BY <1>4, <1>15

\* The root publishes its data.
LEMMA RootPublishes == IInv /\ rootSendData => Relay!Publish
<1> SUFFICES ASSUME IInv, rootSendData PROVE Relay!Publish
  OBVIOUS
<1>1. /\ timers' = timers \ {<<Root, "rootSendData">>}
      /\ <<Root, "rootSendData">> \in timers
      /\ UNCHANGED received
  BY DEF rootSendData, Fires
<1>2. Root \in Node
  BY TreeAssumption
<1>3. Given(Root) = <<>> /\ Given(Root)' = Data
  BY <1>1 DEF Given
<1>4. \A m \in Node \ {Root} : Given(m)' = Given(m)
  BY <1>1 DEF Given
<1>5. Logs[Root] = <<>> /\ Logs' = [Logs EXCEPT ![Root] = Data]
  BY <1>2, <1>3, <1>4, LogsGrow DEF Logs
<1> QED BY <1>5 DEF Relay!Publish, Logs

\* Every step is a step of DataRelay, or changes nothing there.
LEMMA StepRelays == IInv /\ [Next]_vars => Relay!Next \/ Logs' = Logs
<1> SUFFICES ASSUME IInv, [Next]_vars PROVE Relay!Next \/ Logs' = Logs
  OBVIOUS
<1>1. CASE Tick
  BY <1>1, LogsStay DEF Tick, dataVars, RootSent
<1>2. CASE rootSendData
  BY <1>2, RootPublishes DEF Relay!Next
<1>3. ASSUME NEW n \in Node, Timeout(n) PROVE Logs' = Logs
  <2>1. PICK f \in {"SetTcpReceiveSocket", "SetSockets"} : timers' = timers \ {<<n, f>>}
    BY <1>3 DEF Timeout, SetTcpReceiveSocket, SetSockets, Fires
  <2>2. UNCHANGED received
    BY <1>3 DEF Timeout, SetTcpReceiveSocket, SetSockets, dataVars
  <2>3. RootSent' <=> RootSent
    BY <2>1 DEF RootSent
  <2> QED BY <2>2, <2>3, LogsStay
<1>4. ASSUME NEW p \in Node, Segment(p) PROVE Relay!Next \/ Logs' = Logs
  <2>1. PICK i \in DOMAIN Children[p] :
          HandleAccept(p, i) \/ ConnectionFailed(p, i) \/ HandleTcpRead(p, i)
    BY <1>4 DEF Segment
  <2>2. UNCHANGED timers
    BY <2>1 DEF HandleAccept, ConnectionFailed, HandleTcpRead
  <2>3. CASE UNCHANGED received
    BY <2>2, <2>3, LogsStay DEF RootSent
  <2>4. CASE ~UNCHANGED received
    <3>1. HandleTcpRead(p, i)
      BY <2>1, <2>4 DEF HandleAccept, ConnectionFailed, dataVars
    <3> QED BY <2>4, <3>1, ReadTakesOver DEF Relay!Next
  <2> QED BY <2>3, <2>4
<1>5. CASE UNCHANGED vars
  BY <1>5, LogsStay DEF vars, dataVars, RootSent
<1> QED BY <1>1, <1>2, <1>3, <1>4, <1>5 DEF Next

\* At first nobody has anything.
LEMMA FirstLogs == Init => Logs = [n \in Node |-> <<>>]
<1> SUFFICES ASSUME Init PROVE Logs = [n \in Node |-> <<>>]
  OBVIOUS
<1>1. <<Root, "rootSendData">> \in timers
  BY TreeAssumption DEF Init, Timers
<1>2. \A n \in Node : Given(n) = <<>>
  BY <1>1 DEF Given, Init
<1> QED BY <1>2 DEF Logs

\* The data phase implements DataRelay: whatever the start times, and whatever pieces
\* TCP hands over, each node takes over what its parent has from the first packet on.
THEOREM DataIsRelayed == Spec => ForwardsInOrder
<1>1. Init => Relay!Init
  BY FirstLogs DEF Relay!Init, Logs
<1>2. IInv /\ [Next]_vars => [Relay!Next]_[n \in Node |-> Given(n)]
  BY StepRelays DEF Logs
<1> QED BY <1>1, <1>2, Invariance, PTL DEF Spec, ForwardsInOrder, Relay!Spec

\* A part of a part from the beginning is a part from the beginning.
LEMMA PrefixOfPrefix ==
  ASSUME NEW m \in 0..Len(Data), NEW l \in 1..m
  PROVE  l \in 0..Len(Data) /\ SubSeq(SubSeq(Data, 1, m), 1, l) = SubSeq(Data, 1, l)
<1>1. Data \in Seq(1..Packets) /\ Len(Data) \in Nat
  BY DataType, LenProperties DEF Stream
<1>2. \A i \in 1..m : Data[i] \in 1..Packets
  <2>1. \A i \in 1..Len(Data) : Data[i] \in 1..Packets
    BY <1>1, ElementOfSeq
  <2> QED BY <1>1, <2>1
<1>3. SubSeq(Data, 1, m) \in Seq(1..Packets)
  BY <1>1, <1>2, SubSeqProperties
<1>4. 1 \in 1..Len(Data) /\ m \in 1..Len(Data) /\ 1 \in 1..m - 1 + 1 /\ l \in 1..m - 1 + 1
  BY <1>1
<1>5. SubSeq(SubSeq(Data, 1, m), 1, l) = SubSeq(Data, 1 + 1 - 1, 1 + l - 1)
  BY <1>1, <1>3, <1>4, SubSeqOfSubSeq
<1> QED BY <1>1, <1>5

\* The first k packets are k packets.
LEMMA PrefixLength ==
  ASSUME NEW k \in 0..Len(Data)
  PROVE  Len(SubSeq(Data, 1, k)) = k
<1>1. Data \in Seq(1..Packets) /\ Len(Data) \in Nat
  BY DataType, LenProperties DEF Stream
<1>2. \A i \in 1..k : Data[i] \in 1..Packets
  <2>1. \A i \in 1..Len(Data) : Data[i] \in 1..Packets
    BY <1>1, ElementOfSeq
  <2> QED BY <1>1, <2>1
<1>3. Len(SubSeq(Data, 1, k)) = IF 1 <= k THEN k - 1 + 1 ELSE 0
  BY <1>1, <1>2, SubSeqProperties
<1> QED BY <1>1, <1>3

\* The edges of the tree, each with the only parent of its child.
Edges == {e \in Node \X Node : \E i \in DOMAIN Children[e[1]] : Children[e[1]][i] = e[2]}

LEMMA OneParent ==
  ASSUME NEW p \in Node, NEW q \in Node, NEW n, <<p, n>> \in Edges, <<q, n>> \in Edges
  PROVE  p = q /\ n # Root
BY TreeAssumption, ChildrenType DEF Edges

\* What everybody has is the beginning of the data, and of what its parent has.
InOrder    == \A n \in Node : \E k \in 0..Len(Data) : Logs[n] = SubSeq(Data, 1, k)
NeverAhead == \A e \in Edges : Len(Logs[e[2]]) <= Len(Logs[e[1]])

LEMMA LogLength ==
  ASSUME InOrder, NEW n \in Node
  PROVE  Len(Logs[n]) \in Nat
BY PrefixLength DEF InOrder

\* The first data of the root is all of it.
LEMMA PublishKeepsOrder ==
  InOrder /\ NeverAhead /\ Relay!Publish => InOrder' /\ NeverAhead'
<1> SUFFICES ASSUME InOrder, NeverAhead, Relay!Publish PROVE InOrder' /\ NeverAhead'
  OBVIOUS
<1>1. Logs[Root] = <<>> /\ Logs' = [Logs EXCEPT ![Root] = Data]
  BY DEF Relay!Publish, Logs
<1>2. \A n \in Node : Logs'[n] = IF n = Root THEN Data ELSE Logs[n]
  BY <1>1 DEF Logs
<1>3. Data \in Seq(1..Packets) /\ Len(Data) \in Nat
  BY DataType, LenProperties DEF Stream
<1>4. SubSeq(Data, 1, Len(Data)) = Data
  BY <1>3, SubSeqFull
<1>5. InOrder'
  BY <1>2, <1>3, <1>4 DEF InOrder
<1>6. ASSUME NEW p \in Node, NEW n \in Node, <<p, n>> \in Edges
      PROVE  Len(Logs'[n]) <= Len(Logs'[p])
  <2>1. Len(Logs[n]) <= Len(Logs[p]) /\ Logs'[n] = Logs[n]
    BY <1>2, <1>6, OneParent DEF NeverAhead
  <2>2. CASE p # Root
    BY <1>2, <2>1, <2>2
  <2>3. CASE p = Root
    <3>1. PICK k \in 0..Len(Data) : Logs[n] = SubSeq(Data, 1, k)
      BY DEF InOrder
    <3>2. Len(Logs[n]) = k
      BY <3>1, PrefixLength
    <3> QED BY <1>2, <1>3, <2>1, <2>3, <3>2
  <2> QED BY <2>2, <2>3
<1>7. NeverAhead'
  BY <1>6 DEF NeverAhead, Edges
<1> QED BY <1>5, <1>7

\* What is taken over from a beginning of the data is a longer beginning.
LEMMA TakeOverKeepsOrder ==
  ASSUME InOrder, NeverAhead, NEW p \in Node, NEW n \in Node, Relay!TakeOver(p, n)
  PROVE  InOrder' /\ NeverAhead'
<1>1. /\ <<p, n>> \in Edges
      /\ \E k \in Len(Logs[n]) + 1 .. Len(Logs[p]) :
           Logs' = [Logs EXCEPT ![n] = SubSeq(Logs[p], 1, k)]
  BY DEF Relay!TakeOver, Logs, Edges
<1>2. PICK k \in Len(Logs[n]) + 1 .. Len(Logs[p]) :
        Logs' = [Logs EXCEPT ![n] = SubSeq(Logs[p], 1, k)]
  BY <1>1
<1>3. \A q \in Node : Logs'[q] = IF q = n THEN SubSeq(Logs[p], 1, k) ELSE Logs[q]
  BY <1>2 DEF Logs
<1>4. PICK m \in 0..Len(Data) : Logs[p] = SubSeq(Data, 1, m)
  BY DEF InOrder
<1>5. PICK j \in 0..Len(Data) : Logs[n] = SubSeq(Data, 1, j)
  BY DEF InOrder
<1>6. Len(Logs[p]) = m /\ Len(Logs[n]) = j /\ Len(Data) \in Nat
  BY <1>4, <1>5, PrefixLength, DataType, LenProperties DEF Stream
<1>7. k \in 1..m /\ j < k
  BY <1>6
<1>8. k \in 0..Len(Data) /\ Logs'[n] = SubSeq(Data, 1, k)
  BY <1>3, <1>4, <1>7, PrefixOfPrefix
<1>9. Len(Logs'[n]) = k
  BY <1>8, PrefixLength
<1>10. InOrder'
  BY <1>3, <1>8 DEF InOrder
<1>11. ASSUME NEW q \in Node, NEW c \in Node, <<q, c>> \in Edges
       PROVE  Len(Logs'[c]) <= Len(Logs'[q])
  <2>1. Len(Logs[c]) <= Len(Logs[q])
    BY <1>11 DEF NeverAhead
  <2>2. CASE c = n
    <3>1. q = p
      BY <1>1, <1>11, <2>2, OneParent
    <3>2. p # n
      BY <1>6, <1>7
    <3> QED BY <1>3, <1>6, <1>7, <1>9, <2>2, <3>1, <3>2
  <2>3. CASE c # n /\ q = n
    BY <1>3, <1>6, <1>7, <1>9, <2>1, <2>3, LogLength
  <2>4. CASE c # n /\ q # n
    BY <1>3, <2>1, <2>4
  <2> QED BY <2>2, <2>3, <2>4
<1>12. NeverAhead'
  BY <1>11 DEF NeverAhead, Edges
<1> QED BY <1>10, <1>12

\* At any moment everybody has the first packets of the root in their order, and nobody
\* is ahead of its parent: nothing is invented, repeated, left out or overtaken on any
\* way through the tree, whatever the start times and whether all connections are made.
THEOREM EverybodyInOrder == Spec => [](Relay!InOrder /\ Relay!NeverAhead)
<1>1. Init => InOrder /\ NeverAhead
  <2> SUFFICES ASSUME Init PROVE InOrder /\ NeverAhead
    OBVIOUS
  <2>1. \A n \in Node : Logs[n] = <<>>
    BY FirstLogs
  <2>2. SubSeq(Data, 1, 0) = <<>>
    BY SubSeqEmpty
  <2>3. Len(Data) \in Nat
    BY DataType, LenProperties DEF Stream
  <2>4. 0 \in 0..Len(Data)
    BY <2>3
  <2>5. InOrder
    BY <2>1, <2>2, <2>4 DEF InOrder
  <2>6. ASSUME NEW e \in Edges PROVE Len(Logs[e[2]]) <= Len(Logs[e[1]])
    <3>1. Logs[e[2]] = <<>> /\ Logs[e[1]] = <<>>
      BY <2>1 DEF Edges
    <3>2. Len(<<>>) = 0
      BY EmptySeq
    <3> QED BY <3>1, <3>2
  <2> QED BY <2>5, <2>6 DEF NeverAhead
<1>2. IInv /\ InOrder /\ NeverAhead /\ [Next]_vars => InOrder' /\ NeverAhead'
  <2> SUFFICES ASSUME IInv, InOrder, NeverAhead, [Next]_vars
               PROVE  InOrder' /\ NeverAhead'
    OBVIOUS
  <2>1. CASE Relay!Publish
    BY <2>1, PublishKeepsOrder
  <2>2. ASSUME NEW p \in Node, NEW n \in Node, Relay!TakeOver(p, n)
        PROVE  InOrder' /\ NeverAhead'
    BY <2>2, TakeOverKeepsOrder
  <2>3. CASE Logs' = Logs
    BY <2>3 DEF InOrder, NeverAhead
  <2> QED BY <2>1, <2>2, <2>3, StepRelays DEF Relay!Next
<1>3. InOrder /\ NeverAhead => Relay!InOrder /\ Relay!NeverAhead
  BY DEF InOrder, NeverAhead, Relay!InOrder, Relay!NeverAhead, Logs, Edges
<1> QED BY <1>1, <1>2, <1>3, Invariance, PTL DEF Spec
===============================================================================
