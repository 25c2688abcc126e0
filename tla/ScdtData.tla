------------------------------- MODULE ScdtData -------------------------------
(***************************************************************************)
(* The data phase of the SCDT overlay (scdt-server.cc).                    *)
(*                                                                         *)
(* When an application starts it sets three timers, long before they fire: *)
(* open a TCP socket for the parent, connect to the children, and, at the  *)
(* root, send the data.  Whoever receives data sends it on to its own      *)
(* children.  The timers count from the start of each application, and the *)
(* applications start at different times.                                  *)
(*                                                                         *)
(* The module begins when all have started and the overlay is at rest:     *)
(* ScdtServer says how m_children comes about, and that it is a tree.      *)
(* Nodes and Ptr<Socket> arrays keep their names, without the "m_".        *)
(***************************************************************************)
EXTENDS Integers, Sequences, Functions

CONSTANTS
  Node,
  Root,
  Children,      \* Children[n]: the content of m_children when the overlay is at rest
  StartTimes,    \* the times, in seconds, at which an application may start
  SENDTCPTIME,   \* from the start of the root to the first data
  Packets        \* how many packets the root sends to each child

ASSUME TreeAssumption ==
  /\ Root \in Node
  /\ Children \in [Node -> Seq(Node \ {Root})]
  /\ \A p, q \in Node : \A i \in DOMAIN Children[p], j \in DOMAIN Children[q] :
       Children[p][i] = Children[q][j] => p = q /\ i = j
ASSUME TimeAssumption ==
  /\ SENDTCPTIME \in Nat
  /\ StartTimes \subseteq Nat
  /\ \A t \in StartTimes : t < SENDTCPTIME - 20
ASSUME PacketsAssumption == Packets \in Nat \ {0}

VARIABLES
  now,              \* the clock of the simulator
  startTime,        \* when the application of a node has started
  timers,           \* <<n, f>>: the call of f that node n has scheduled
  listening,        \* the nodes whose m_parentSocket accepts connections
  childrenSockets,  \* parallel to Children: "null", "connecting", "open" or "failed"
  stream,           \* parallel to Children: the data on its way to a child
  received,         \* the data that a node has received
  aborted           \* a null pointer was used: the simulation is over

socketVars == <<listening, childrenSockets>>
dataVars   == <<stream, received>>
vars == <<now, startTime, timers, socketVars, dataVars, aborted>>

-------------------------------------------------------------------------------
\* How long after the start of its application a timer fires.
DelayBug(f) ==
  CASE f = "SetTcpReceiveSocket" -> SENDTCPTIME - 10
    [] f = "SetSockets"          -> SENDTCPTIME - 20
    [] f = "rootSendData"        -> SENDTCPTIME
LateSocketsBug(f) ==
  CASE f = "SetTcpReceiveSocket" -> SENDTCPTIME - 20
    [] f = "SetSockets"          -> SENDTCPTIME + 10
    [] f = "rootSendData"        -> SENDTCPTIME
Delay(f) ==
  CASE f = "SetTcpReceiveSocket" -> SENDTCPTIME - 20
    [] f = "SetSockets"          -> SENDTCPTIME - 10
    [] f = "rootSendData"        -> SENDTCPTIME

Timers(n) == {"SetSockets", IF n = Root THEN "rootSendData" ELSE "SetTcpReceiveSocket"}

FiresAt(n, f) == startTime[n] + Delay(f)

Data == [k \in 1..Packets |-> k]

\* Nobody joins before the root has started; the others start in any order.
Init ==
  /\ now = 0
  /\ startTime \in {t \in [Node -> StartTimes] : \A n \in Node : t[Root] <= t[n]}
  /\ timers = UNION {{n} \X Timers(n) : n \in Node}
  /\ listening = {}
  /\ childrenSockets = [n \in Node |-> [i \in DOMAIN Children[n] |-> "null"]]
  /\ stream = [n \in Node |-> [i \in DOMAIN Children[n] |-> <<>>]]
  /\ received = [n \in Node |-> <<>>]
  /\ aborted = FALSE

\* All timers of this instant have fired.
NothingDue == \A n \in Node : \A f \in Timers(n) :
  <<n, f>> \in timers => FiresAt(n, f) > now

\* The clock moves on to the next timer.
Tick ==
  /\ ~aborted /\ NothingDue
  /\ \E n \in Node : \E f \in Timers(n) :
       /\ <<n, f>> \in timers
       /\ \A m \in Node : \A g \in Timers(m) :
            <<m, g>> \in timers => FiresAt(n, f) <= FiresAt(m, g)
       /\ now' = FiresAt(n, f)
  /\ UNCHANGED <<startTime, timers, socketVars, dataVars, aborted>>

Fires(n, f) ==
  /\ ~aborted
  /\ <<n, f>> \in timers
  /\ FiresAt(n, f) <= now
  /\ timers' = timers \ {<<n, f>>}
  /\ UNCHANGED <<now, startTime>>

SetTcpReceiveSocket(n) ==
  /\ Fires(n, "SetTcpReceiveSocket")
  /\ listening' = listening \cup {n}
  /\ UNCHANGED <<childrenSockets, dataVars, aborted>>

\* A socket for each child, told to connect to it.
NewSocketsBug(n) == [i \in 1..(Len(Children[n]) + 1) |-> "connecting"]
NewSockets(n) == [i \in DOMAIN Children[n] |-> "connecting"]

SetSockets(n) ==
  /\ Fires(n, "SetSockets")
  /\ childrenSockets' = [childrenSockets EXCEPT ![n] = NewSockets(n)]
  /\ UNCHANGED <<listening, dataVars, aborted>>

\* SendTcp on the sockets of all children: a socket that is about to connect keeps
\* the data until it is, one whose connection failed refuses it.
SendDataFirstBug(n, data, st) ==
  [st EXCEPT ![n] = [i \in DOMAIN Children[n] |->
     IF childrenSockets[n][i] \in {"connecting", "open"}
     THEN data \o st[n][i] ELSE st[n][i]]]
SendDataBug(n, data, st) ==
  [st EXCEPT ![n] = [i \in DOMAIN Children[n] |->
     IF childrenSockets[n][i] \in {"connecting", "open"} /\ i < Len(Children[n])
     THEN st[n][i] \o data ELSE st[n][i]]]
SendData(n, data, st) ==
  [st EXCEPT ![n] = [i \in DOMAIN Children[n] |->
     IF childrenSockets[n][i] \in {"connecting", "open"}
     THEN st[n][i] \o data ELSE st[n][i]]]

\* The sockets of the children do not exist before SetSockets.
NullSocket(n) == \E i \in DOMAIN Children[n] : childrenSockets[n][i] = "null"

rootSendData ==
  /\ Fires(Root, "rootSendData")
  /\ IF NullSocket(Root)
     THEN aborted' = TRUE /\ UNCHANGED stream
     ELSE stream' = SendData(Root, Data, stream) /\ UNCHANGED aborted
  /\ UNCHANGED <<socketVars, received>>

-------------------------------------------------------------------------------
(* TCP.  A segment takes some time, so none arrives before the timers of the *)
(* instant have fired.                                                       *)

Arrives(p, i, state) ==
  /\ ~aborted /\ NothingDue
  /\ childrenSockets[p][i] = state

\* The request for a connection reaches a child: HandleAccept, if it listens.
HandleAccept(p, i) ==
  /\ Arrives(p, i, "connecting")
  /\ Children[p][i] \in listening
  /\ childrenSockets' = [childrenSockets EXCEPT ![p][i] = "open"]
  /\ UNCHANGED <<now, startTime, timers, listening, dataVars, aborted>>

\* Nobody listens: the child's stack refuses, and what was to be sent is lost.
ConnectionFailed(p, i) ==
  /\ Arrives(p, i, "connecting")
  /\ Children[p][i] \notin listening
  /\ childrenSockets' = [childrenSockets EXCEPT ![p][i] = "failed"]
  /\ stream' = [stream EXCEPT ![p][i] = <<>>]
  /\ UNCHANGED <<now, startTime, timers, listening, received, aborted>>

\* A child reads what has arrived, in pieces of any size, and sends it on.
HandleTcpRead(p, i) ==
  /\ Arrives(p, i, "open")
  /\ \E k \in 1..Len(stream[p][i]) :
       LET n    == Children[p][i]
           data == SubSeq(stream[p][i], 1, k)
           rest == SubSeq(stream[p][i], k + 1, Len(stream[p][i]))
       IN  IF NullSocket(n)
           THEN aborted' = TRUE /\ UNCHANGED dataVars
           ELSE /\ received' = [received EXCEPT ![n] = @ \o data]
                /\ stream' = SendData(n, data, [stream EXCEPT ![p][i] = rest])
                /\ UNCHANGED aborted
  /\ UNCHANGED <<now, startTime, timers, socketVars>>

Timeout(n) == SetTcpReceiveSocket(n) \/ SetSockets(n)

Segment(p) == \E i \in DOMAIN Children[p] :
  HandleAccept(p, i) \/ ConnectionFailed(p, i) \/ HandleTcpRead(p, i)

Next ==
  \/ Tick
  \/ rootSendData
  \/ \E n \in Node : Timeout(n) \/ Segment(n)

\* The simulator runs every event, and TCP repeats what is lost until it arrives.
Fairness == WF_vars(Next)

Spec == Init /\ [][Next]_vars
FairSpec == Spec /\ Fairness

-------------------------------------------------------------------------------
TypeOK ==
  /\ now \in Nat
  /\ startTime \in [Node -> StartTimes]
  /\ timers \subseteq UNION {{n} \X Timers(n) : n \in Node}
  /\ listening \subseteq Node
  /\ childrenSockets \in [Node -> Seq({"null", "connecting", "open", "failed"})]
  /\ stream \in [Node -> Seq(Seq(1..Packets))]
  /\ \A n \in Node : /\ Len(childrenSockets[n]) = Len(Children[n])
                     /\ Len(stream[n]) = Len(Children[n])
  /\ received \in [Node -> Seq(1..Packets)]
  /\ aborted \in BOOLEAN

\* What a node has to send to its children so far.
Given(n) ==
  IF n # Root THEN received[n]
  ELSE IF <<Root, "rootSendData">> \in timers THEN <<>> ELSE Data

\* Along every connection nothing is lost, repeated or reordered: what a child has
\* received and what is on its way to it is what its parent had to send.
Forwarded == \A p \in Node : \A i \in DOMAIN Children[p] :
  childrenSockets[p][i] \in {"connecting", "open"} /\ ~aborted =>
    received[Children[p][i]] \o stream[p][i] = Given(p)

\* So the data goes down the tree packet by packet, whatever the start times: every
\* node takes over what its parent has, from the first packet on and without a gap,
\* also from a parent that is still reading; the data phase implements DataRelay.
Relay == INSTANCE DataRelay
           WITH Edge <- {e \in Node \X Node : \E i \in DOMAIN Children[e[1]] :
                           Children[e[1]][i] = e[2]},
                log <- [n \in Node |-> Given(n)]
ForwardsInOrder == Relay!Spec

\* If no application has started more than ten seconds after the root, no data
\* reaches a node that has no sockets for its children yet.
InTimeForRoot == \A n \in Node : startTime[n] <= startTime[Root] + 10
SocketsReady == InTimeForRoot => ~aborted

\* If moreover no child has started more than ten seconds after its parent, the data
\* reaches every node of the tree.
InTimeForParent == \A p \in Node : \A i \in DOMAIN Children[p] :
  startTime[Children[p][i]] <= startTime[p] + 10
EveryoneServed == InTimeForRoot /\ InTimeForParent =>
  <>[](\A n \in Node \ {Root} : received[n] = Data)
===============================================================================
