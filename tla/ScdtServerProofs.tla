--------------------------- MODULE ScdtServerProofs ---------------------------
(* Theorems about ScdtServer, for every value of its constants. *)
EXTENDS ScdtServer, FiniteSetTheorems, SequenceTheorems, TLAPS

-------------------------------------------------------------------------------
(* The inductive invariant.  It says what the type of every field is and that *)
(* the root is neither known as a child, nor listed, nor pinged, nor in       *)
(* search of a parent, nor in a conversation that would make it any of these. *)

NonRoot == Node \ {Root}

ListPackets == {m \in PacketsOK : m.type \in {"TRY", "NONE"} /\ m.hosts \in Seq(NonRoot)}

\* What s may send to d.
SafePackets(s, d) == {m \in PacketsOK :
  /\ m.hosts \in Seq(NonRoot)
  /\ m.type = "ATTACH" => s # Root
  /\ m.type \in {"TRY", "REATTACH"} => d # Root}

SafeNet == {nt \in [Node -> [Node -> Seq(PacketsOK)]] :
              \A s, d \in Node : nt[s][d] \in Seq(SafePackets(s, d))}

NodeInv ==
  /\ status \in [Node -> {"idle", "running", "stopped"}]
  /\ parentIp \in [Node -> Node \cup {NoAddress}]
  /\ lost \in 0..MaxLost

TreeInv ==
  /\ children \in [Node -> Seq(NonRoot)]
  /\ shortestPing \in [Node -> Seq(0..LongestPing)]
  /\ serializedChildren \in [Node -> ListPackets]
  /\ \A n \in Node : /\ Len(children[n]) <= MAX_FANOUT
                     /\ Len(shortestPing[n]) = Len(children[n])
  /\ SerializedIsFresh

PingInv ==
  /\ pings \in [Node -> [PingSlot -> NonRoot \cup {NoAddress}]]
  /\ pingTime \in [Node -> [PingSlot -> 0..NotAnswered]]
  /\ numPings \in [Node -> PingSlot]

SearchInv ==
  /\ possibleParentsStk \in [Node -> Seq(PingSlot)]
  /\ possibleParentsSet \in [Node -> SUBSET PingSlot]
  /\ possibleParentsSet[Root] = {}
  /\ possibleParentsCntr \in [Node -> 0..MaxByte]
  /\ nextPotentialParent \in [Node -> Node \cup {NoAddress}]

NetInv == net \in SafeNet

IInv == NodeInv /\ TreeInv /\ PingInv /\ SearchInv /\ NetInv

-------------------------------------------------------------------------------
(* The numbers of the code *)

\* The markers are numbers, and no ping takes as long as they say.
LEMMA Markers ==
  /\ LongestPing \in Nat /\ NotAnswered \in Nat
  /\ LongestPing < NotAnswered
BY DEF LongestPing, NotAnswered

\* Counts of children and candidates are kept in one byte.
LEMMA Bytes == MaxByte \in Nat /\ MaxByte >= 1
BY DEF MaxByte

\* What a byte holds is the remainder, and the number itself if it fits.
LEMMA ByteRemainder ==
  ASSUME NEW k \in Int
  PROVE  /\ k % (MaxByte + 1) \in 0..MaxByte
         /\ k \in 0..MaxByte => k % (MaxByte + 1) = k
BY Bytes

\* The capacities are positive, MAX_FANOUT fits in a byte, and the ring index of
\* SendPing stays inside the table.
LEMMA Sizes ==
  /\ MAX_FANOUT \in Nat /\ MAX_FANOUT >= 1 /\ MAX_FANOUT <= MaxByte
  /\ MAX_PINGS \in Nat /\ MAX_PINGS >= 1
  /\ \A k \in Int : k % MAX_PINGS \in PingSlot
BY SizeAssumption, Bytes DEF PingSlot

-------------------------------------------------------------------------------
(* Packets *)

\* The queues of one node change.
LEMMA RowSafe ==
  ASSUME NEW nt \in SafeNet, NEW s \in Node, NEW row \in [Node -> Seq(PacketsOK)],
         \A d \in Node : row[d] \in Seq(SafePackets(s, d))
  PROVE  [nt EXCEPT ![s] = row] \in SafeNet
<1> DEFINE nu == [nt EXCEPT ![s] = row]
<1>1. nu \in [Node -> [Node -> Seq(PacketsOK)]]
  BY DEF SafeNet
<1>2. \A x, d \in Node : nu[x][d] = IF x = s THEN row[d] ELSE nt[x][d]
  BY DEF SafeNet
<1>3. \A x, d \in Node : nu[x][d] \in Seq(SafePackets(x, d))
  BY <1>2 DEF SafeNet
<1> QED
  BY <1>1, <1>3 DEF SafeNet

\* One queue changes.
LEMMA QueueSafe ==
  ASSUME NEW nt \in SafeNet, NEW s \in Node, NEW d \in Node,
         NEW q \in Seq(SafePackets(s, d)), q \in Seq(PacketsOK)
  PROVE  [nt EXCEPT ![s][d] = q] \in SafeNet
<1> DEFINE row == [nt[s] EXCEPT ![d] = q]
<1>1. row \in [Node -> Seq(PacketsOK)]
  BY DEF SafeNet
<1>2. \A x \in Node : row[x] = IF x = d THEN q ELSE nt[s][x]
  BY DEF SafeNet
<1>3. \A x \in Node : row[x] \in Seq(SafePackets(s, x))
  BY <1>2 DEF SafeNet
<1>4. [nt EXCEPT ![s][d] = q] = [nt EXCEPT ![s] = row]
  OBVIOUS
<1> QED
  BY <1>1, <1>3, <1>4, RowSafe

\* One packet joins a queue.
LEMMA PostSafe ==
  ASSUME NEW nt \in SafeNet, NEW s \in Node, NEW d, NEW m,
         d \in Node => m \in SafePackets(s, d)
  PROVE  Post(nt, s, d, m) \in SafeNet
<1>1. CASE d \notin Node
  BY <1>1 DEF Post
<1>2. CASE d \in Node
  <2>1. Append(nt[s][d], m) \in Seq(SafePackets(s, d))
    BY <1>2 DEF SafeNet
  <2>2. Append(nt[s][d], m) \in Seq(PacketsOK)
    BY <1>2 DEF SafeNet, SafePackets
  <2>3. Post(nt, s, d, m) = [nt EXCEPT ![s][d] = Append(nt[s][d], m)]
    BY <1>2 DEF Post
  <2> DEFINE q == Append(nt[s][d], m)
  <2> HIDE DEF q
  <2>4. [nt EXCEPT ![s][d] = q] \in SafeNet
    BY <1>2, <2>1, <2>2, QueueSafe DEF q
  <2> QED
    BY <2>3, <2>4 DEF q
<1> QED
  BY <1>1, <1>2

\* The oldest packet leaves its queue.
LEMMA TakenSafe ==
  ASSUME NetInv, NEW s \in Node, NEW n \in Node, net[s][n] # <<>>
  PROVE  Taken(s, n) \in SafeNet /\ Head(net[s][n]) \in SafePackets(s, n)
<1>1. net[s][n] \in Seq(SafePackets(s, n)) /\ net[s][n] \in Seq(PacketsOK)
  BY DEF NetInv, SafeNet
<1>2. /\ Tail(net[s][n]) \in Seq(SafePackets(s, n))
      /\ Tail(net[s][n]) \in Seq(PacketsOK)
      /\ Head(net[s][n]) \in SafePackets(s, n)
  BY <1>1, HeadTailProperties
<1> QED
  BY <1>2, QueueSafe DEF Taken, NetInv

\* A packet without hosts, but for ATTACH and REATTACH, may travel anywhere.
LEMMA PlainPacketSafe ==
  ASSUME NEW type \in PacketType \cup {"NONE"}, NEW s \in Node, NEW d \in Node,
         type = "ATTACH" => s # Root,
         type \in {"TRY", "REATTACH"} => d # Root
  PROVE  Packet(type) \in SafePackets(s, d)
<1>1. Packet(type) = [type |-> type, count |-> 0, hosts |-> <<>>]
  BY DEF Packet
<1>2. <<>> \in Seq(NonRoot) /\ <<>> \in Seq(Node)
  OBVIOUS
<1>3. 0 \in 0..MaxByte
  BY Bytes
<1>4. Packet(type) \in PacketsOK
  BY <1>1, <1>2, <1>3 DEF PacketsOK
<1>5. Packet(type).type = type /\ Packet(type).hosts = <<>>
  BY <1>1
<1> QED
  BY <1>2, <1>4, <1>5 DEF SafePackets

\* A list of children may travel to anybody but the root.
LEMMA ListPacketSafe ==
  ASSUME NEW m \in ListPackets, NEW s \in Node, NEW d \in NonRoot
  PROVE  m \in SafePackets(s, d)
BY DEF ListPackets, SafePackets, NonRoot

\* SerializeChildren writes a list of at most MAX_FANOUT children as it is.
LEMMA SerializeChildrenType ==
  ASSUME NEW hosts \in Seq(NonRoot), Len(hosts) <= MAX_FANOUT
  PROVE  /\ SerializeChildren(hosts) \in ListPackets
         /\ SerializeChildren(hosts).hosts = hosts
         /\ SerializeChildren(hosts).count = Len(hosts)
<1>1. hosts \in Seq(Node)
  BY SeqMonotonic DEF NonRoot
<1>2. Len(hosts) \in Nat
  BY LenProperties
<1>3. \A l \in Nat : l <= MAX_FANOUT => l \in 0..MaxByte
  BY Sizes, Bytes
<1>4. Len(hosts) \in 0..MaxByte
  BY <1>2, <1>3
<1>5. Len(hosts) % (MaxByte + 1) = Len(hosts)
  BY <1>2, <1>4, ByteRemainder
<1>6. SerializeChildren(hosts) = [type |-> "TRY", count |-> Len(hosts), hosts |-> hosts]
  BY <1>5 DEF SerializeChildren
<1> QED
  BY <1>1, <1>4, <1>6 DEF ListPackets, PacketsOK, PacketType

\* The pings of a list join their queues.
LEMMA PostPingsSafe ==
  ASSUME NEW nt \in SafeNet, NEW n \in Node, NEW hosts \in Seq(Node)
  PROVE  PostPings(nt, n, hosts) \in SafeNet
<1> DEFINE count(d) == Cardinality({j \in DOMAIN hosts : hosts[j] = d})
           pingsTo(d) == [k \in 1..count(d) |-> Packet("PING")]
<1>1. \A d : count(d) \in Nat
  <2> TAKE d
  <2>1. IsFiniteSet(DOMAIN hosts)
    BY FS_Interval, LenProperties
  <2> QED
    BY <2>1, FS_Subset, FS_CardinalityType
<1>2. \A d \in Node : Packet("PING") \in SafePackets(n, d) /\ Packet("PING") \in PacketsOK
  BY PlainPacketSafe DEF PacketType, SafePackets
<1>3. \A d \in Node : /\ pingsTo(d) \in Seq(SafePackets(n, d))
                      /\ pingsTo(d) \in Seq(PacketsOK)
  <2> TAKE d \in Node
  <2> HIDE DEF count
  <2> QED
    BY <1>1, <1>2
<1> HIDE DEF pingsTo
<1>4. \A d \in Node : /\ nt[n][d] \o pingsTo(d) \in Seq(SafePackets(n, d))
                      /\ nt[n][d] \o pingsTo(d) \in Seq(PacketsOK)
  BY <1>3, ConcatProperties DEF SafeNet
<1>5. PostPings(nt, n, hosts) = [nt EXCEPT ![n] = [d \in Node |-> nt[n][d] \o pingsTo(d)]]
  BY DEF PostPings, pingsTo
<1> DEFINE row == [d \in Node |-> nt[n][d] \o pingsTo(d)]
<1>6. row \in [Node -> Seq(PacketsOK)] /\ \A d \in Node : row[d] \in Seq(SafePackets(n, d))
  BY <1>4
<1> HIDE DEF row
<1>7. [nt EXCEPT ![n] = row] \in SafeNet
  BY <1>6, RowSafe
<1> QED
  BY <1>5, <1>7 DEF row

-------------------------------------------------------------------------------
(* Pings *)

\* The pings of a list take slots of the table.
LEMMA SendPingsInv ==
  ASSUME PingInv, NEW n \in Node, NEW hosts \in Seq(NonRoot), SendPings(n, hosts)
  PROVE  PingInv'
<1> DEFINE turn(i) == 1 + ((i - numPings[n]) % MAX_PINGS)
<1>1. \A i \in PingSlot : i \in Int
  BY DEF PingSlot
<1>2. numPings[n] \in PingSlot
  BY DEF PingInv
<1>3. \A i \in PingSlot : turn(i) \in Nat /\ turn(i) >= 1
  <2> TAKE i \in PingSlot
  <2>1. i - numPings[n] \in Int
    BY <1>1, <1>2
  <2>2. (i - numPings[n]) % MAX_PINGS \in PingSlot
    BY <2>1, Sizes
  <2> QED
    BY <2>2 DEF PingSlot
<1>4. \A i \in PingSlot : turn(i) <= Len(hosts) => hosts[turn(i)] \in NonRoot
  <2> HIDE DEF turn
  <2> QED
    BY <1>3, ElementOfSeq
<1>5. (numPings[n] + Len(hosts)) % MAX_PINGS \in PingSlot
  <2>1. Len(hosts) \in Nat
    BY LenProperties
  <2>2. numPings[n] + Len(hosts) \in Int
    BY <1>1, <1>2, <2>1
  <2> QED
    BY <2>2, Sizes
<1>6. NotAnswered \in 0..NotAnswered
  BY Markers
<1> HIDE DEF turn
<1>7. pings' \in [Node -> [PingSlot -> NonRoot \cup {NoAddress}]]
  BY <1>4 DEF SendPings, PingInv, turn
<1>8. pingTime' \in [Node -> [PingSlot -> 0..NotAnswered]]
  BY <1>6 DEF SendPings, PingInv
<1>9. numPings' \in [Node -> PingSlot]
  BY <1>5 DEF SendPings, PingInv
<1> QED
  BY <1>7, <1>8, <1>9 DEF PingInv

\* Whatever ping an answer is booked on, the time measured is that of a ping.
LEMMA MeasuredTime ==
  ASSUME PingInv, NetInv, NEW s \in Node, NEW n \in Node, NEW i \in PingSlot,
         NEW time \in Measured(s, n, i)
  PROVE  time \in 0..LongestPing /\ time \in 0..NotAnswered
<1> DEFINE asked  == {k \in DOMAIN net[n][s] : net[n][s][k].type = "PING"}
           coming == {k \in DOMAIN net[s][n] : net[s][n][k].type = "PINGRESPONSE"}
           newer  == Cardinality(NewerPings(s, n, i)) + 1 - Outstanding(s, n)
<1>1. Cardinality(NewerPings(s, n, i)) \in Nat
  <2>1. IsFiniteSet(PingSlot)
    BY FS_Interval, Sizes DEF PingSlot
  <2> QED
    BY <2>1, FS_Subset, FS_CardinalityType DEF NewerPings
<1>2. Cardinality(asked) \in Nat /\ Cardinality(coming) \in Nat
  <2>1. \A q \in Seq(PacketsOK) : IsFiniteSet(DOMAIN q)
    BY FS_Interval, LenProperties
  <2>2. IsFiniteSet(DOMAIN net[n][s]) /\ IsFiniteSet(DOMAIN net[s][n])
    BY <2>1 DEF NetInv, SafeNet
  <2> QED
    BY <2>2, FS_Subset, FS_CardinalityType
<1>3. newer \in Int
  <2>1. Outstanding(s, n) = Cardinality(asked) + Cardinality(coming)
    BY DEF Outstanding
  <2> QED
    BY <1>1, <1>2, <2>1
<1>4. RoundTrip[n][s] \subseteq 0..LongestPing /\ Elapsed \subseteq 0..LongestPing
  BY Markers, TimeAssumption
<1>5. \A t : MoreThan(t) \subseteq 0..LongestPing
  BY <1>4 DEF MoreThan
<1> HIDE DEF newer
<1>6. Measured(s, n, i) =
        CASE newer = 0 -> RoundTrip[n][s]
          [] newer < 0 -> {t \in Elapsed : \E r \in RoundTrip[n][s] : t < r}
          [] newer > 0 -> IF pingTime[n][i] = NotAnswered
                          THEN UNION {MoreThan(r) : r \in RoundTrip[n][s]}
                          ELSE MoreThan(pingTime[n][i])
  BY DEF Measured, newer
<1>7. CASE newer = 0
  BY <1>4, <1>6, <1>7, Markers
<1>8. CASE newer < 0
  <2>1. Measured(s, n, i) = {t \in Elapsed : \E r \in RoundTrip[n][s] : t < r}
    BY <1>3, <1>6, <1>8
  <2>2. time \in 0..LongestPing
    BY <1>4, <2>1
  <2> QED
    BY <2>2, Markers
<1>9. CASE newer > 0
  <2>1. time \in 0..LongestPing
    BY <1>3, <1>5, <1>6, <1>9
  <2> QED
    BY <2>1, Markers
<1> QED
  BY <1>3, <1>7, <1>8, <1>9

-------------------------------------------------------------------------------
(* UpdateChildren *)

\* The list of the children of a node changes and is serialized again.
LEMMA NewChildren ==
  ASSUME TreeInv, NEW n \in Node,
         NEW hosts \in Seq(NonRoot), Len(hosts) <= MAX_FANOUT,
         NEW times \in Seq(0..LongestPing), Len(times) = Len(hosts),
         children' = [children EXCEPT ![n] = hosts],
         shortestPing' = [shortestPing EXCEPT ![n] = times],
         serializedChildren' = Serialized(n, hosts)
  PROVE  TreeInv'
<1>1. /\ SerializeChildren(hosts) \in ListPackets
      /\ SerializeChildren(hosts).hosts = hosts
      /\ SerializeChildren(hosts).count = Len(hosts)
  BY SerializeChildrenType
<1>2. children' \in [Node -> Seq(NonRoot)] /\ shortestPing' \in [Node -> Seq(0..LongestPing)]
  BY DEF TreeInv
<1>3. serializedChildren' = [serializedChildren EXCEPT ![n] = SerializeChildren(hosts)]
  BY DEF Serialized
<1>4. serializedChildren' \in [Node -> ListPackets]
  BY <1>1, <1>3 DEF TreeInv
<1>5. \A x \in Node : /\ Len(children'[x]) <= MAX_FANOUT
                      /\ Len(shortestPing'[x]) = Len(children'[x])
  BY DEF TreeInv
<1>6. SerializedIsFresh'
  BY <1>1, <1>3 DEF TreeInv, SerializedIsFresh
<1> QED
  BY <1>2, <1>4, <1>5, <1>6 DEF TreeInv

\* UpdateChildren, first exit: an attacher other than the root takes a free place.
LEMMA AddChildInv ==
  ASSUME TreeInv, NEW n \in Node, NEW addr \in NonRoot, NEW time \in 0..LongestPing,
         NEW nt \in SafeNet, AddChild(n, addr, time, nt)
  PROVE  TreeInv' /\ NetInv'
<1> DEFINE hosts == Append(children[n], addr)
           times == Append(shortestPing[n], time)
<1>1. /\ children[n] \in Seq(NonRoot) /\ shortestPing[n] \in Seq(0..LongestPing)
      /\ Len(shortestPing[n]) = Len(children[n])
      /\ Len(children[n]) < MAX_FANOUT
  BY DEF TreeInv, AddChild, HasRoom
<1>2. hosts \in Seq(NonRoot) /\ times \in Seq(0..LongestPing)
  BY <1>1
<1>3. Len(hosts) <= MAX_FANOUT /\ Len(times) = Len(hosts)
  <2>1. /\ Len(hosts) = Len(children[n]) + 1
        /\ Len(times) = Len(shortestPing[n]) + 1
        /\ Len(children[n]) \in Nat
    BY <1>1, AppendProperties, LenProperties
  <2> QED
    BY <1>1, <2>1, Sizes
<1>4. /\ children' = [children EXCEPT ![n] = hosts]
      /\ shortestPing' = [shortestPing EXCEPT ![n] = times]
  BY DEF AddChild
<1>5. children'[n] = hosts
  BY <1>4 DEF TreeInv
<1>6. serializedChildren' = Serialized(n, hosts)
  BY <1>5 DEF AddChild
<1> HIDE DEF hosts, times
<1>7. TreeInv'
  BY <1>2, <1>3, <1>4, <1>6, NewChildren
<1>8. Packet("ATTACHSUCCESS") \in SafePackets(n, addr)
  BY PlainPacketSafe DEF PacketType, NonRoot
<1>9. NetInv'
  BY <1>8, PostSafe DEF AddChild, NetInv
<1> QED
  BY <1>7, <1>9

\* Second exit: the ping time of a child becomes shorter, nothing else changes.
LEMMA RefreshChildInv ==
  ASSUME TreeInv, NEW n \in Node, NEW addr \in NonRoot, NEW time \in 0..LongestPing,
         NEW nt \in SafeNet, RefreshChild(n, addr, time, nt)
  PROVE  TreeInv' /\ NetInv'
<1>1. PICK j \in DOMAIN children[n] :
        shortestPing' = [shortestPing EXCEPT ![n][j] =
                           IF time < shortestPing[n][j] THEN time ELSE shortestPing[n][j]]
  BY DEF RefreshChild
<1> DEFINE best  == IF time < shortestPing[n][j] THEN time ELSE shortestPing[n][j]
           times == [shortestPing[n] EXCEPT ![j] = best]
<1>2. shortestPing[n] \in Seq(0..LongestPing) /\ j \in 1..Len(shortestPing[n])
  BY DEF TreeInv
<1>3. best \in 0..LongestPing
  BY <1>2, ElementOfSeq
<1> HIDE DEF best
<1>4. times \in Seq(0..LongestPing) /\ Len(times) = Len(shortestPing[n])
  BY <1>2, <1>3, ExceptSeq
<1>5. shortestPing' = [shortestPing EXCEPT ![n] = times]
  BY <1>1 DEF best
<1> HIDE DEF times
<1>6. UNCHANGED <<children, serializedChildren>>
  BY DEF RefreshChild
<1>7. /\ shortestPing' \in [Node -> Seq(0..LongestPing)]
      /\ \A x \in Node : Len(shortestPing'[x]) = Len(children[x])
  BY <1>4, <1>5 DEF TreeInv
<1>8. SerializedIsFresh'
  BY <1>6 DEF TreeInv, SerializedIsFresh
<1>9. TreeInv'
  BY <1>6, <1>7, <1>8 DEF TreeInv
<1> QED
  BY <1>9 DEF RefreshChild, NetInv

\* Third exit: the child that is sent away with REATTACH is not the root, nor is its
\* successor.
LEMMA ReplaceChildInv ==
  ASSUME TreeInv, NEW n \in Node, NEW addr \in NonRoot, NEW time \in 0..LongestPing,
         NEW nt \in SafeNet, ReplaceChild(n, addr, time, nt)
  PROVE  TreeInv' /\ NetInv'
<1>1. PICK j \in MaxPingIndex(n) :
        /\ children' = [children EXCEPT ![n][j] = addr]
        /\ shortestPing' = [shortestPing EXCEPT ![n][j] = time]
        /\ net' = Exchange(nt, n, children[n][j], addr)
  BY DEF ReplaceChild
<1> DEFINE hosts == [children[n] EXCEPT ![j] = addr]
           times == [shortestPing[n] EXCEPT ![j] = time]
<1>2. /\ children[n] \in Seq(NonRoot) /\ shortestPing[n] \in Seq(0..LongestPing)
      /\ Len(shortestPing[n]) = Len(children[n])
      /\ Len(children[n]) <= MAX_FANOUT
  BY DEF TreeInv
<1>3. j \in 1..Len(children[n])
  BY <1>2 DEF MaxPingIndex
<1>4. hosts \in Seq(NonRoot) /\ Len(hosts) = Len(children[n])
  BY <1>2, <1>3, ExceptSeq
<1>5. times \in Seq(0..LongestPing) /\ Len(times) = Len(shortestPing[n])
  BY <1>2, <1>3, ExceptSeq
<1>6. /\ children' = [children EXCEPT ![n] = hosts]
      /\ shortestPing' = [shortestPing EXCEPT ![n] = times]
  BY <1>1
<1>7. children'[n] = hosts
  BY <1>6 DEF TreeInv
<1>8. serializedChildren' = Serialized(n, hosts)
  BY <1>7 DEF ReplaceChild
<1> HIDE DEF hosts, times
<1>9. TreeInv'
  BY <1>2, <1>4, <1>5, <1>6, <1>8, NewChildren
<1>10. children[n][j] \in NonRoot
  BY <1>2, <1>3, ElementOfSeq
<1>11. Packet("REATTACH") \in SafePackets(n, children[n][j])
  BY <1>10, PlainPacketSafe DEF PacketType, NonRoot
<1>12. Packet("ATTACHSUCCESS") \in SafePackets(n, addr)
  BY PlainPacketSafe DEF PacketType, NonRoot
<1>13. Post(nt, n, children[n][j], Packet("REATTACH")) \in SafeNet
  BY <1>11, PostSafe
<1>14. NetInv'
  BY <1>1, <1>12, <1>13, PostSafe DEF Exchange, NetInv
<1> QED
  BY <1>9, <1>14

\* Last exit: the TRY that an attacher gets lists nodes other than the root.
LEMMA RedirectInv ==
  ASSUME TreeInv, NEW n \in Node, NEW addr \in NonRoot, NEW time \in 0..LongestPing,
         NEW nt \in SafeNet, Redirect(n, addr, time, nt)
  PROVE  TreeInv' /\ NetInv'
<1>1. serializedChildren[n] \in SafePackets(n, addr)
  BY ListPacketSafe DEF TreeInv
<1>2. NetInv'
  BY <1>1, PostSafe DEF Redirect, NetInv
<1>3. TreeInv'
  BY DEF Redirect, treeVars, TreeInv, SerializedIsFresh
<1> QED
  BY <1>2, <1>3

\* Whatever UpdateChildren decides, the children stay nodes other than the root and
\* the list of them stays fresh.
LEMMA UpdateChildrenInv ==
  ASSUME TreeInv, NEW n \in Node, NEW addr \in NonRoot, NEW time \in 0..LongestPing,
         NEW nt \in SafeNet, UpdateChildren(n, addr, time, nt)
  PROVE  TreeInv' /\ NetInv'
BY AddChildInv, RefreshChildInv, ReplaceChildInv, RedirectInv DEF UpdateChildren

-------------------------------------------------------------------------------
(* The end of a search *)

\* What is left on the stack are slots of the table.
LEMMA StackLeft ==
  ASSUME NEW stk \in Seq(PingSlot), NEW K \in SUBSET (DOMAIN stk), NEW p \in Increasing(K)
  PROVE  [k \in DOMAIN p |-> stk[p[k]]] \in Seq(PingSlot)
<1>1. IsFiniteSet(DOMAIN stk)
  BY FS_Interval, LenProperties
<1>2. Cardinality(K) \in Nat
  BY <1>1, FS_Subset, FS_CardinalityType
<1>3. p \in [1..Cardinality(K) -> K]
  BY DEF Increasing
<1>4. \A k \in 1..Cardinality(K) : stk[p[k]] \in PingSlot
  <2> TAKE k \in 1..Cardinality(K)
  <2>1. p[k] \in 1..Len(stk)
    BY <1>3, LenProperties
  <2> QED
    BY <2>1, ElementOfSeq
<1>5. DOMAIN p = 1..Cardinality(K)
  BY <1>3
<1> DEFINE c == Cardinality(K)
<1> HIDE DEF c
<1>6. [k \in 1..c |-> stk[p[k]]] \in Seq(PingSlot)
  BY <1>2, <1>4 DEF c
<1> QED
  BY <1>5, <1>6 DEF c

\* A node that searches is not the root and may ask for a place anywhere.
LEMMA ChooseParentInv ==
  ASSUME PingInv, SearchInv, NEW n \in NonRoot, NEW time, NEW nt \in SafeNet,
         ChooseParent(n, time, nt)
  PROVE  /\ possibleParentsStk' \in [Node -> Seq(PingSlot)]
         /\ nextPotentialParent' \in [Node -> Node \cup {NoAddress}]
         /\ NetInv'
<1> DEFINE stk    == possibleParentsStk[n]
           nearer == {j \in DOMAIN stk : Nearer(stk, time, j)}
<1>1. n \in Node /\ n # Root
  BY DEF NonRoot
<1>2. stk \in Seq(PingSlot)
  BY <1>1 DEF SearchInv
<1>3. \A d \in Node : Packet("ATTACH") \in SafePackets(n, d)
  BY <1>1, PlainPacketSafe DEF PacketType
<1>4. \A d : Post(nt, n, d, Packet("ATTACH")) \in SafeNet
  BY <1>1, <1>3, PostSafe
<1>5. CASE /\ possibleParentsStk' = [possibleParentsStk EXCEPT ![n] = <<>>]
           /\ net' = Post(nt, n, nextPotentialParent[n], Packet("ATTACH"))
           /\ UNCHANGED nextPotentialParent
  <2>1. <<>> \in Seq(PingSlot)
    OBVIOUS
  <2> QED
    BY <1>4, <1>5, <2>1 DEF SearchInv, NetInv
<1>6. CASE \E best \in nearer :
             /\ \E p \in Increasing(nearer \ {best}) :
                  possibleParentsStk' =
                    [possibleParentsStk EXCEPT ![n] = [k \in DOMAIN p |-> stk[p[k]]]]
             /\ nextPotentialParent' =
                  [nextPotentialParent EXCEPT ![n] = pings[n][stk[best]]]
             /\ net' = Post(nt, n, nextPotentialParent'[n], Packet("ATTACH"))
  <2>1. PICK best \in nearer :
             /\ \E p \in Increasing(nearer \ {best}) :
                  possibleParentsStk' =
                    [possibleParentsStk EXCEPT ![n] = [k \in DOMAIN p |-> stk[p[k]]]]
             /\ nextPotentialParent' =
                  [nextPotentialParent EXCEPT ![n] = pings[n][stk[best]]]
             /\ net' = Post(nt, n, nextPotentialParent'[n], Packet("ATTACH"))
    BY <1>6
  <2>2. PICK p \in Increasing(nearer \ {best}) :
             possibleParentsStk' =
               [possibleParentsStk EXCEPT ![n] = [k \in DOMAIN p |-> stk[p[k]]]]
    BY <2>1
  <2>3. [k \in DOMAIN p |-> stk[p[k]]] \in Seq(PingSlot)
    <3> DEFINE K == nearer \ {best}
    <3>1. K \in SUBSET (DOMAIN stk) /\ p \in Increasing(K)
      OBVIOUS
    <3> HIDE DEF K, stk
    <3> QED
      BY <1>2, <3>1, StackLeft
  <2>4. possibleParentsStk' \in [Node -> Seq(PingSlot)]
    BY <2>2, <2>3 DEF SearchInv
  <2>5. stk[best] \in PingSlot
    BY <1>2, ElementOfSeq, LenProperties
  <2>6. pings[n][stk[best]] \in Node \cup {NoAddress}
    BY <1>1, <2>5 DEF PingInv, NonRoot
  <2>7. nextPotentialParent' \in [Node -> Node \cup {NoAddress}]
    BY <2>1, <2>6 DEF SearchInv
  <2> QED
    BY <1>4, <2>1, <2>4, <2>7 DEF NetInv
<1> QED
  BY <1>5, <1>6 DEF ChooseParent

-------------------------------------------------------------------------------
(* Frames: what a step leaves alone keeps its part of the invariant. *)

\* Status, believed parent and number of lost packets.
LEMMA NodeFrame ==
  ASSUME NodeInv, UNCHANGED <<status, parentIp, lost>>
  PROVE  NodeInv'
BY DEF NodeInv

\* Children, their ping times and the list prepared for refusals.
LEMMA TreeFrame ==
  ASSUME TreeInv, UNCHANGED treeVars
  PROVE  TreeInv'
BY DEF TreeInv, treeVars, SerializedIsFresh

\* The table of pings.
LEMMA PingFrame ==
  ASSUME PingInv, UNCHANGED pingVars
  PROVE  PingInv'
BY DEF PingInv, pingVars

\* The search for a parent.
LEMMA SearchFrame ==
  ASSUME SearchInv, UNCHANGED searchVars
  PROVE  SearchInv'
BY DEF SearchInv, searchVars

-------------------------------------------------------------------------------
(* The initial state and the steps *)

\* The invariant holds before any application has started.
LEMMA InitInv ==
  ASSUME Init
  PROVE  IInv
<1>1. /\ <<>> \in Seq(NonRoot) /\ <<>> \in Seq(0..LongestPing) /\ <<>> \in Seq(PingSlot)
      /\ Len(<<>>) = 0
  BY EmptySeq
<1>2. \A s, d \in Node : <<>> \in Seq(PacketsOK) /\ <<>> \in Seq(SafePackets(s, d))
  OBVIOUS
<1>3. NothingSerialized \in ListPackets
  <2>1. 0 \in 0..MaxByte
    BY Bytes
  <2>2. <<>> \in Seq(Node)
    OBVIOUS
  <2> QED
    BY <1>1, <2>1, <2>2 DEF NothingSerialized, Packet, ListPackets, PacketsOK
<1>4. NodeInv
  BY ScenarioAssumption DEF Init, NodeInv
<1>5. TreeInv
  BY <1>1, <1>3, Sizes DEF Init, TreeInv, SerializedIsFresh
<1>6. PingInv
  <2>1. 0 \in PingSlot
    BY Sizes DEF PingSlot
  <2>2. NotAnswered \in 0..NotAnswered
    BY Markers
  <2> QED
    BY <2>1, <2>2 DEF Init, PingInv
<1>7. SearchInv
  <2>1. 0 \in 0..MaxByte
    BY Bytes
  <2> QED
    BY <1>1, <2>1, NodeAssumption DEF Init, SearchInv
<1>8. NetInv
  BY <1>2 DEF Init, NetInv, SafeNet
<1> QED
  BY <1>4, <1>5, <1>6, <1>7, <1>8 DEF IInv

\* The ATTACH of a starting node does not come from the root.
LEMMA StartApplicationInv ==
  ASSUME IInv, NEW n \in Node, StartApplication(n)
  PROVE  IInv'
<1>1. NodeInv'
  BY NodeAssumption DEF IInv, NodeInv, StartApplication
<1>2. NetInv'
  <2>1. CASE SendsAttach(n)
    <3>1. Packet("ATTACH") \in SafePackets(n, Root)
      BY <2>1, NodeAssumption, PlainPacketSafe DEF PacketType, SendsAttach
    <3> QED
      BY <2>1, <3>1, PostSafe DEF StartApplication, IInv, NetInv
  <2>2. CASE ~SendsAttach(n)
    BY <2>2 DEF StartApplication, IInv, NetInv
  <2> QED
    BY <2>1, <2>2
<1>3. UNCHANGED <<treeVars, pingVars, searchVars>>
  BY DEF StartApplication
<1> QED
  BY <1>1, <1>2, <1>3, TreeFrame, PingFrame, SearchFrame DEF IInv

\* Stopping closes the socket and changes nothing else.
LEMMA StopApplicationInv ==
  ASSUME IInv, NEW n \in Node, StopApplication(n)
  PROVE  IInv'
<1>1. NodeInv'
  BY DEF IInv, NodeInv, StopApplication
<1>2. UNCHANGED <<treeVars, pingVars, searchVars, net>>
  BY DEF StopApplication
<1> QED
  BY <1>1, <1>2, TreeFrame, PingFrame, SearchFrame DEF IInv, NetInv

\* The sender of an ATTACH, which is pinged, is not the root.
LEMMA HandleAttachInv ==
  ASSUME IInv, NEW s \in Node, NEW n \in Node, HandleAttach(s, n)
  PROVE  IInv'
<1>1. /\ Taken(s, n) \in SafeNet
      /\ Head(net[s][n]) \in SafePackets(s, n)
  BY TakenSafe DEF HandleAttach, Receive, IInv
<1>2. s # Root
  BY <1>1 DEF HandleAttach, Receive, SafePackets
<1>3. <<s>> \in Seq(NonRoot) /\ <<s>> \in Seq(Node)
  BY <1>2 DEF NonRoot
<1>4. PingInv'
  BY <1>3, SendPingsInv DEF HandleAttach, IInv
<1>5. NetInv'
  BY <1>1, <1>3, PostPingsSafe DEF HandleAttach, NetInv
<1>6. UNCHANGED <<status, parentIp, lost, treeVars, searchVars>>
  BY DEF HandleAttach
<1> QED
  BY <1>4, <1>5, <1>6, NodeFrame, TreeFrame, SearchFrame DEF IInv

\* The answer to a ping may go to anybody.
LEMMA HandlePingInv ==
  ASSUME IInv, NEW s \in Node, NEW n \in Node, HandlePing(s, n)
  PROVE  IInv'
<1>1. Taken(s, n) \in SafeNet
  BY TakenSafe DEF HandlePing, Receive, IInv
<1>2. Packet("PINGRESPONSE") \in SafePackets(n, s)
  BY PlainPacketSafe DEF PacketType
<1>3. NetInv'
  BY <1>1, <1>2, PostSafe DEF HandlePing, NetInv
<1>4. UNCHANGED <<status, parentIp, lost, treeVars, pingVars, searchVars>>
  BY DEF HandlePing
<1> QED
  BY <1>3, <1>4, NodeFrame, TreeFrame, PingFrame, SearchFrame DEF IInv

\* The receiver of a REATTACH, which sends an ATTACH, is not the root.
LEMMA HandleReattachInv ==
  ASSUME IInv, NEW s \in Node, NEW n \in Node, HandleReattach(s, n)
  PROVE  IInv'
<1>1. /\ Taken(s, n) \in SafeNet
      /\ Head(net[s][n]) \in SafePackets(s, n)
  BY TakenSafe DEF HandleReattach, Receive, IInv
<1>2. n # Root
  BY <1>1 DEF HandleReattach, Receive, SafePackets
<1>3. Packet("ATTACH") \in SafePackets(n, Root)
  BY <1>2, NodeAssumption, PlainPacketSafe DEF PacketType
<1>4. NetInv'
  BY <1>1, <1>3, PostSafe DEF HandleReattach, NetInv
<1>5. NodeInv'
  BY NodeAssumption DEF HandleReattach, IInv, NodeInv
<1>6. UNCHANGED <<treeVars, pingVars, searchVars>>
  BY DEF HandleReattach
<1> QED
  BY <1>4, <1>5, <1>6, TreeFrame, PingFrame, SearchFrame DEF IInv

\* ATTACHSUCCESS names a parent.
LEMMA HandleAttachSuccessInv ==
  ASSUME IInv, NEW s \in Node, NEW n \in Node, HandleAttachSuccess(s, n)
  PROVE  IInv'
<1>1. NetInv'
  BY TakenSafe DEF HandleAttachSuccess, Receive, IInv, NetInv
<1>2. NodeInv'
  BY DEF HandleAttachSuccess, IInv, NodeInv
<1>3. UNCHANGED <<treeVars, pingVars, searchVars>>
  BY DEF HandleAttachSuccess
<1> QED
  BY <1>1, <1>2, <1>3, TreeFrame, PingFrame, SearchFrame DEF IInv

\* The receiver of a TRY is not the root, nor is any host that it pings.
LEMMA HandleTryInv ==
  ASSUME IInv, NEW s \in Node, NEW n \in Node, HandleTry(s, n)
  PROVE  IInv'
<1> DEFINE try   == Head(net[s][n])
           slots == [k \in DOMAIN try.hosts |-> (numPings[n] + k - 1) % MAX_PINGS]
<1>1. /\ Taken(s, n) \in SafeNet
      /\ try \in SafePackets(s, n)
      /\ try.type = "TRY"
  BY TakenSafe DEF HandleTry, Receive, IInv
<1>2. n # Root
  BY <1>1 DEF SafePackets
<1>3. try.hosts \in Seq(NonRoot) /\ try.hosts \in Seq(Node) /\ try.count \in 0..MaxByte
  BY <1>1 DEF SafePackets, PacketsOK
<1>4. /\ possibleParentsCntr' = [possibleParentsCntr EXCEPT ![n] = try.count]
      /\ SendPings(n, try.hosts)
      /\ possibleParentsStk' = [possibleParentsStk EXCEPT ![n] = possibleParentsStk[n] \o slots]
      /\ possibleParentsSet' = [possibleParentsSet EXCEPT
                                  ![n] = possibleParentsSet[n] \cup Range(slots)]
      /\ net' = PostPings(Taken(s, n), n, try.hosts)
  BY DEF HandleTry
<1> HIDE DEF try
<1>5. slots \in Seq(PingSlot)
  <2>1. DOMAIN try.hosts = 1..Len(try.hosts) /\ Len(try.hosts) \in Nat
    BY <1>3, LenProperties
  <2>2. numPings[n] \in Int
    BY DEF IInv, PingInv, PingSlot
  <2>3. \A k \in 1..Len(try.hosts) : (numPings[n] + k - 1) % MAX_PINGS \in PingSlot
    <3> TAKE k \in 1..Len(try.hosts)
    <3>1. numPings[n] + k - 1 \in Int
      BY <2>1, <2>2
    <3> QED
      BY <3>1, Sizes
  <2> QED
    BY <2>1, <2>3
<1> HIDE DEF slots
<1>6. PingInv'
  BY <1>3, <1>4, SendPingsInv DEF IInv
<1>7. NetInv'
  BY <1>1, <1>3, <1>4, PostPingsSafe DEF NetInv
<1>8. SearchInv'
  <2>1. possibleParentsStk' \in [Node -> Seq(PingSlot)]
    <3>1. possibleParentsStk[n] \o slots \in Seq(PingSlot)
      BY <1>5, ConcatProperties DEF IInv, SearchInv
    <3> QED
      BY <1>4, <3>1 DEF IInv, SearchInv
  <2>2. Range(slots) \subseteq PingSlot
    BY <1>5, ElementOfSeq, LenProperties DEF Range
  <2>3. possibleParentsSet' \in [Node -> SUBSET PingSlot] /\ possibleParentsSet'[Root] = {}
    BY <1>2, <1>4, <2>2, NodeAssumption DEF IInv, SearchInv
  <2>4. possibleParentsCntr' \in [Node -> 0..MaxByte]
    BY <1>3, <1>4 DEF IInv, SearchInv
  <2>5. UNCHANGED nextPotentialParent
    BY DEF HandleTry
  <2> QED
    BY <2>1, <2>3, <2>4, <2>5 DEF IInv, SearchInv
<1>9. UNCHANGED <<status, parentIp, lost, treeVars>>
  BY DEF HandleTry
<1> QED
  BY <1>6, <1>7, <1>8, <1>9, NodeFrame, TreeFrame DEF IInv

\* An answer that a search waits for: the node that searches is not the root.
LEMMA PingRespPossibleParentInv ==
  ASSUME IInv, NEW s \in Node, NEW n \in Node, PingRespPossibleParent(s, n)
  PROVE  IInv'
<1>0. PICK i \in PingSlot : \E time \in Measured(s, n, i) :
        /\ Matches(s, n, i) /\ Awaited(n, i)
        /\ pingTime' = [pingTime EXCEPT ![n][i] = time]
        /\ possibleParentsCntr' =
             [possibleParentsCntr EXCEPT ![n] = (possibleParentsCntr[n] - 1) % (MaxByte + 1)]
        /\ possibleParentsSet' =
             [possibleParentsSet EXCEPT ![n] = possibleParentsSet[n] \ {i}]
        /\ IF possibleParentsCntr'[n] = 0
           THEN ChooseParent(n, pingTime'[n], Taken(s, n))
           ELSE /\ net' = Taken(s, n)
                /\ UNCHANGED <<possibleParentsStk, nextPotentialParent>>
  BY DEF PingRespPossibleParent
<1>1. PICK time \in Measured(s, n, i) :
        /\ Matches(s, n, i) /\ Awaited(n, i)
        /\ pingTime' = [pingTime EXCEPT ![n][i] = time]
        /\ possibleParentsCntr' =
             [possibleParentsCntr EXCEPT ![n] = (possibleParentsCntr[n] - 1) % (MaxByte + 1)]
        /\ possibleParentsSet' =
             [possibleParentsSet EXCEPT ![n] = possibleParentsSet[n] \ {i}]
        /\ IF possibleParentsCntr'[n] = 0
           THEN ChooseParent(n, pingTime'[n], Taken(s, n))
           ELSE /\ net' = Taken(s, n)
                /\ UNCHANGED <<possibleParentsStk, nextPotentialParent>>
  BY <1>0
<1>2. n \in NonRoot
  BY <1>1 DEF Awaited, IInv, SearchInv, NonRoot
<1>3. Taken(s, n) \in SafeNet
  BY TakenSafe DEF PingRespPossibleParent, Receive, IInv
<1>4. PingInv'
  <2>1. time \in 0..NotAnswered
    BY <1>1, MeasuredTime DEF IInv
  <2>2. UNCHANGED <<pings, numPings>>
    BY DEF PingRespPossibleParent
  <2> QED
    BY <1>1, <2>1, <2>2 DEF IInv, PingInv
<1>5. /\ possibleParentsStk' \in [Node -> Seq(PingSlot)]
      /\ nextPotentialParent' \in [Node -> Node \cup {NoAddress}]
      /\ NetInv'
  <2>1. CASE possibleParentsCntr'[n] = 0
    BY <1>1, <1>2, <1>3, <2>1, ChooseParentInv DEF IInv
  <2>2. CASE possibleParentsCntr'[n] # 0
    BY <1>1, <1>3, <2>2 DEF IInv, SearchInv, NetInv
  <2> QED
    BY <2>1, <2>2
<1>6. SearchInv'
  <2>1. (possibleParentsCntr[n] - 1) % (MaxByte + 1) \in 0..MaxByte
    <3>1. possibleParentsCntr[n] - 1 \in Int
      BY DEF IInv, SearchInv
    <3> QED
      BY <3>1, ByteRemainder
  <2>2. possibleParentsCntr' \in [Node -> 0..MaxByte]
    BY <1>1, <2>1 DEF IInv, SearchInv
  <2>3. possibleParentsSet' \in [Node -> SUBSET PingSlot] /\ possibleParentsSet'[Root] = {}
    BY <1>1, NodeAssumption DEF IInv, SearchInv
  <2> QED
    BY <1>5, <2>2, <2>3 DEF SearchInv
<1>7. UNCHANGED <<status, parentIp, lost, treeVars>>
  BY DEF PingRespPossibleParent
<1> QED
  BY <1>4, <1>5, <1>6, <1>7, NodeFrame, TreeFrame DEF IInv

\* The answer of an attacher: whom UpdateChildren is given is not the root.
LEMMA PingRespAttacherInv ==
  ASSUME IInv, NEW s \in Node, NEW n \in Node, PingRespAttacher(s, n)
  PROVE  IInv'
<1>0. PICK i \in PingSlot : \E time \in Measured(s, n, i) :
        /\ Matches(s, n, i)
        /\ pingTime' = [pingTime EXCEPT ![n][i] = time]
        /\ UpdateChildren(n, pings[n][i], time, Taken(s, n))
  BY DEF PingRespAttacher
<1>1. PICK time \in Measured(s, n, i) :
        /\ Matches(s, n, i)
        /\ pingTime' = [pingTime EXCEPT ![n][i] = time]
        /\ UpdateChildren(n, pings[n][i], time, Taken(s, n))
  BY <1>0
<1>2. Taken(s, n) \in SafeNet
  BY TakenSafe DEF PingRespAttacher, Receive, IInv
<1>3. time \in 0..LongestPing /\ time \in 0..NotAnswered
  BY <1>1, MeasuredTime DEF IInv
<1>4. pings[n][i] \in NonRoot
  BY <1>1, NodeAssumption DEF Matches, IInv, PingInv
<1>5. TreeInv' /\ NetInv'
  BY <1>1, <1>2, <1>3, <1>4, UpdateChildrenInv DEF IInv
<1>6. UNCHANGED <<status, parentIp, lost, pings, numPings, searchVars>>
  BY DEF PingRespAttacher
<1>7. PingInv'
  BY <1>1, <1>3, <1>6 DEF IInv, PingInv
<1> QED
  BY <1>5, <1>6, <1>7, NodeFrame, SearchFrame DEF IInv

\* The steps that only take a packet out of its queue.
LEMMA PacketGoneInv ==
  ASSUME IInv, NEW s \in Node, NEW n \in Node,
         PingRespUnmatched(s, n) \/ Discard(s, n) \/ Lose(s, n)
  PROVE  IInv'
<1>1. net[s][n] # <<>> /\ net' = Taken(s, n)
  BY DEF PingRespUnmatched, Receive, Discard, Lose
<1>2. NetInv'
  BY <1>1, TakenSafe DEF IInv, NetInv
<1>3. UNCHANGED <<status, parentIp, treeVars, pingVars, searchVars>>
  BY DEF PingRespUnmatched, Discard, Lose
<1>4. lost' \in 0..MaxLost
  BY ScenarioAssumption DEF PingRespUnmatched, Discard, Lose, IInv, NodeInv
<1>5. NodeInv'
  BY <1>3, <1>4 DEF IInv, NodeInv
<1> QED
  BY <1>2, <1>3, <1>5, TreeFrame, PingFrame, SearchFrame DEF IInv

\* Every step keeps the invariant.
LEMMA NextInv ==
  ASSUME IInv, [Next]_vars
  PROVE  IInv'
<1>1. ASSUME NEW n \in Node, StartApplication(n) \/ StopApplication(n)
      PROVE  IInv'
  BY <1>1, StartApplicationInv, StopApplicationInv
<1>2. ASSUME NEW s \in Node, NEW n \in Node, InterpretPacket(s, n)
      PROVE  IInv'
  BY <1>2, HandleAttachInv, HandlePingInv, PacketGoneInv, PingRespPossibleParentInv,
     PingRespAttacherInv, HandleReattachInv, HandleTryInv, HandleAttachSuccessInv
     DEF InterpretPacket
<1>3. ASSUME NEW s \in Node, NEW n \in Node, Discard(s, n) \/ Lose(s, n)
      PROVE  IInv'
  BY <1>3, PacketGoneInv
<1>4. CASE UNCHANGED vars
  <2>1. UNCHANGED <<status, parentIp, lost, treeVars, pingVars, searchVars, net>>
    BY <1>4 DEF vars
  <2> QED
    BY <2>1, NodeFrame, TreeFrame, PingFrame, SearchFrame DEF IInv, NetInv
<1> QED
  BY <1>1, <1>2, <1>3, <1>4 DEF Next

-------------------------------------------------------------------------------
(* Theorems *)

\* The invariant holds in every state of the protocol, whatever the hosts, the
\* capacities, the ping times, the packets lost and the applications stopped.
THEOREM Invariant == Spec => []IInv
<1>1. Init => IInv
  BY InitInv
<1>2. IInv /\ [Next]_vars => IInv'
  BY NextInv
<1> QED
  BY <1>1, <1>2, PTL DEF Spec

\* Every field of ScdtServer holds a value of its type, and no array of it is
\* written past its end.
THEOREM TypeCorrect == Spec => []TypeOK
<1>1. IInv => TypeOK
  <2> SUFFICES ASSUME IInv PROVE TypeOK
    OBVIOUS
  <2>1. Seq(NonRoot) \subseteq Seq(Node)
    BY SeqMonotonic DEF NonRoot
  <2>2. children \in [Node -> Seq(Node)]
    BY <2>1 DEF IInv, TreeInv
  <2>3. serializedChildren \in [Node -> PacketsOK]
    BY DEF IInv, TreeInv, ListPackets
  <2>4. pings \in [Node -> [PingSlot -> Node \cup {NoAddress}]]
    BY DEF IInv, PingInv, NonRoot
  <2>5. net \in [Node -> [Node -> Seq(PacketsOK)]]
    BY DEF IInv, NetInv, SafeNet
  <2> QED
    BY <2>2, <2>3, <2>4, <2>5 DEF IInv, NodeInv, TreeInv, PingInv, SearchInv, TypeOK
<1> QED
  BY <1>1, Invariant, PTL

\* Nobody ever adopts the root of the multicast tree.
THEOREM RootNeverAdopted == Spec => []RootIsNobodysChild
<1>1. IInv => RootIsNobodysChild
  <2> SUFFICES ASSUME IInv, NEW p \in Node, NEW j \in DOMAIN children[p],
                      children[p][j] = Root
               PROVE  FALSE
    BY DEF RootIsNobodysChild, Adopted, Child, Range
  <2>1. children[p] \in Seq(NonRoot)
    BY DEF IInv, TreeInv
  <2>2. children[p][j] \in NonRoot
    BY <2>1, ElementOfSeq, LenProperties
  <2> QED
    BY <2>2 DEF NonRoot
<1> QED
  BY <1>1, Invariant, PTL

\* A refusal always sends the list of the children of that moment.
THEOREM SerializedAlwaysFresh == Spec => []SerializedIsFresh
<1>1. IInv => SerializedIsFresh
  BY DEF IInv, TreeInv
<1> QED
  BY <1>1, Invariant, PTL
===============================================================================
