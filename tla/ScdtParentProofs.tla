--------------------------- MODULE ScdtParentProofs ---------------------------
(* What a node believes about its parent, for every value of the constants of  *)
(* ScdtServer: children are sent away, ping tables wrap around, applications   *)
(* stop, but no packet is lost.                                                *)
EXTENDS ScdtServerProofs

-------------------------------------------------------------------------------
(* The inductive invariant.  ATTACHSUCCESS and REATTACH share a queue: a node   *)
(* that is about to believe in a parent is its child, or will be told otherwise *)
(* by a REATTACH further back in the queue.                                     *)

\* The packets q to a node, which believes in their sender or not, and is its child
\* or not.
Backed(q, believes, child) ==
  /\ believes => child \/ Packet("REATTACH") \in Range(q)
  /\ \A k \in DOMAIN q : q[k].type = "ATTACHSUCCESS" =>
       child \/ \E j \in DOMAIN q : j > k /\ q[j] = Packet("REATTACH")

NetBacked(nt, beliefs, edges) == \A p, n \in Node :
  Backed(nt[p][n], <<p, n>> \in beliefs, <<p, n>> \in edges)

Beliefs == {e \in Node \X Node :
  parentIp[e[2]] = e[1] /\ e[1] # Root /\ status[e[2]] = "running"}
Edges == {e \in Node \X Node : Child(e[1], e[2])}

BackedInv ==
  /\ NetBacked(net, Beliefs, Edges)
  /\ \A n \in Node : status[n] = "idle" => parentIp[n] = NoAddress

ParentInv == IInv /\ BackedInv

-------------------------------------------------------------------------------
(* One queue *)

\* A packet without hosts has the type it was made with.
LEMMA PacketTypeKept == \A type : Packet(type).type = type
BY DEF Packet

\* The oldest packet is taken: the receiver goes on believing, unless the packet
\* sends it away, and begins to believe, if the packet says so.
LEMMA TailBacked ==
  ASSUME NEW q \in Seq(PacketsOK), q # <<>>,
         NEW before \in BOOLEAN, NEW after \in BOOLEAN, NEW child \in BOOLEAN,
         Backed(q, before, child),
         after => \/ before /\ Head(q) # Packet("REATTACH")
                  \/ Head(q).type = "ATTACHSUCCESS"
  PROVE  Backed(Tail(q), after, child)
<1> DEFINE t == Tail(q)
<1>1. /\ Len(q) \in Nat /\ Len(q) >= 1 /\ DOMAIN q = 1..Len(q)
      /\ Len(t) = Len(q) - 1 /\ DOMAIN t = 1..Len(t)
      /\ \A k \in DOMAIN t : t[k] = q[k + 1] /\ k + 1 \in DOMAIN q
      /\ Head(q) = q[1]
  OBVIOUS
<1> HIDE DEF t
<1>2. \A j \in DOMAIN q : j > 1 => j - 1 \in DOMAIN t /\ t[j - 1] = q[j]
  <2> TAKE j \in DOMAIN q
  <2> HAVE j > 1
  <2>1. j - 1 \in DOMAIN t
    BY <1>1
  <2> QED
    BY <1>1, <2>1
<1>3. ASSUME after, ~child PROVE Packet("REATTACH") \in Range(t)
  <2>1. \E j \in DOMAIN q : j > 1 /\ q[j] = Packet("REATTACH")
    <3>1. CASE before /\ Head(q) # Packet("REATTACH")
      <4>1. Packet("REATTACH") \in Range(q)
        BY <1>3, <3>1 DEF Backed
      <4>2. PICK j \in DOMAIN q : q[j] = Packet("REATTACH")
        BY <4>1 DEF Range
      <4> QED
        BY <1>1, <3>1, <4>2
    <3>2. CASE Head(q).type = "ATTACHSUCCESS"
      <4>1. 1 \in DOMAIN q /\ q[1].type = "ATTACHSUCCESS"
        BY <1>1, <3>2
      <4> QED
        BY <1>3, <4>1 DEF Backed
    <3> QED
      BY <1>3, <3>1, <3>2
  <2> QED
    BY <1>2, <2>1 DEF Range
<1>4. ASSUME NEW k \in DOMAIN t, t[k].type = "ATTACHSUCCESS", ~child
      PROVE  \E j \in DOMAIN t : j > k /\ t[j] = Packet("REATTACH")
  <2>1. k + 1 \in DOMAIN q /\ q[k + 1].type = "ATTACHSUCCESS" /\ k \in Nat
    BY <1>1, <1>4
  <2>2. PICK j \in DOMAIN q : j > k + 1 /\ q[j] = Packet("REATTACH")
    BY <1>4, <2>1 DEF Backed
  <2>3. j - 1 \in DOMAIN t /\ t[j - 1] = q[j] /\ j - 1 > k
    BY <1>1, <1>2, <2>1, <2>2
  <2> QED
    BY <2>2, <2>3
<1> QED
  BY <1>3, <1>4 DEF Backed, t

\* A packet joins the queue: an ATTACHSUCCESS goes to a child, and who is not a child
\* any more gets a REATTACH.
LEMMA AppendBacked ==
  ASSUME NEW q \in Seq(PacketsOK), NEW m,
         NEW believes \in BOOLEAN, NEW before \in BOOLEAN, NEW after \in BOOLEAN,
         Backed(q, believes, before),
         m.type = "ATTACHSUCCESS" => after,
         before => after \/ m = Packet("REATTACH")
  PROVE  Backed(Append(q, m), believes, after)
<1> DEFINE a == Append(q, m)
<1>1. /\ Len(q) \in Nat /\ DOMAIN q = 1..Len(q)
      /\ DOMAIN a = 1..(Len(q) + 1)
      /\ \A k \in DOMAIN q : a[k] = q[k] /\ k \in DOMAIN a /\ k < Len(q) + 1
      /\ a[Len(q) + 1] = m
  OBVIOUS
<1> HIDE DEF a
<1>2. Len(q) + 1 \in DOMAIN a
  BY <1>1
<1>3. Range(q) \subseteq Range(a) /\ m \in Range(a)
  BY <1>1, <1>2 DEF Range
<1>4. believes => after \/ Packet("REATTACH") \in Range(a)
  BY <1>3 DEF Backed
<1>5. ASSUME NEW k \in DOMAIN a, a[k].type = "ATTACHSUCCESS", ~after
      PROVE  \E j \in DOMAIN a : j > k /\ a[j] = Packet("REATTACH")
  <2>1. k \in DOMAIN q
    BY <1>1, <1>5
  <2>2. q[k].type = "ATTACHSUCCESS"
    BY <1>1, <1>5, <2>1
  <2>3. CASE before
    BY <1>1, <1>2, <1>5, <2>1, <2>3
  <2>4. CASE ~before
    BY <1>1, <2>1, <2>2, <2>4 DEF Backed
  <2> QED
    BY <2>3, <2>4
<1> QED
  BY <1>4, <1>5 DEF Backed, a

\* Other packets join the queue.
LEMMA ConcatBacked ==
  ASSUME NEW q \in Seq(PacketsOK), NEW r \in Seq(PacketsOK),
         NEW believes \in BOOLEAN, NEW child \in BOOLEAN,
         Backed(q, believes, child),
         \A k \in DOMAIN r : r[k].type # "ATTACHSUCCESS"
  PROVE  Backed(q \o r, believes, child)
<1> DEFINE c == q \o r
<1>1. /\ Len(q) \in Nat /\ Len(r) \in Nat /\ DOMAIN q = 1..Len(q) /\ DOMAIN r = 1..Len(r)
      /\ DOMAIN c = 1..(Len(q) + Len(r))
      /\ \A k \in DOMAIN q : c[k] = q[k] /\ k \in DOMAIN c
      /\ \A k \in DOMAIN c : k \notin DOMAIN q => k - Len(q) \in DOMAIN r /\ c[k] = r[k - Len(q)]
  OBVIOUS
<1> HIDE DEF c
<1>2. Range(q) \subseteq Range(c)
  BY <1>1 DEF Range
<1>3. \A k \in DOMAIN c : c[k].type = "ATTACHSUCCESS" => k \in DOMAIN q /\ q[k] = c[k]
  BY <1>1
<1>4. ASSUME NEW k \in DOMAIN c, c[k].type = "ATTACHSUCCESS", ~child
      PROVE  \E j \in DOMAIN c : j > k /\ c[j] = Packet("REATTACH")
  <2>1. k \in DOMAIN q /\ q[k].type = "ATTACHSUCCESS"
    BY <1>3, <1>4
  <2>2. PICK j \in DOMAIN q : j > k /\ q[j] = Packet("REATTACH")
    BY <1>4, <2>1 DEF Backed
  <2> QED
    BY <1>1, <2>2
<1>5. believes => child \/ Packet("REATTACH") \in Range(c)
  BY <1>2 DEF Backed
<1> QED
  BY <1>4, <1>5 DEF Backed, c

-------------------------------------------------------------------------------
(* All queues *)

\* Who believes less than before is as well backed.
LEMMA FewerBeliefs ==
  ASSUME NEW nt, NEW beliefs, NEW fewer, NEW edges, NetBacked(nt, beliefs, edges),
         \A p, n \in Node : <<p, n>> \in fewer => <<p, n>> \in beliefs
  PROVE  NetBacked(nt, fewer, edges)
BY DEF NetBacked, Backed

\* n takes the oldest packet of s.
LEMMA TakenBacked ==
  ASSUME NetInv, NEW s \in Node, NEW n \in Node, net[s][n] # <<>>,
         NEW beliefs, NEW after, NEW edges, NetBacked(net, beliefs, edges),
         \A p, m \in Node : <<p, m>> \in after =>
           \/ <<p, m>> \in beliefs /\ (p = s /\ m = n => Head(net[s][n]) # Packet("REATTACH"))
           \/ p = s /\ m = n /\ Head(net[s][n]).type = "ATTACHSUCCESS"
  PROVE  NetBacked(Taken(s, n), after, edges)
<1> SUFFICES ASSUME NEW p \in Node, NEW m \in Node
             PROVE  Backed(Taken(s, n)[p][m], <<p, m>> \in after, <<p, m>> \in edges)
  BY DEF NetBacked
<1>1. net \in [Node -> [Node -> Seq(PacketsOK)]]
  BY DEF NetInv, SafeNet
<1>2. Backed(net[p][m], <<p, m>> \in beliefs, <<p, m>> \in edges)
  BY DEF NetBacked
<1>3. CASE p = s /\ m = n
  <2>1. Taken(s, n)[p][m] = Tail(net[s][n])
    BY <1>1, <1>3 DEF Taken
  <2>2. net[s][n] \in Seq(PacketsOK)
    BY <1>1
  <2> DEFINE q == net[s][n]
             b == <<s, n>> \in beliefs
             a == <<s, n>> \in after
             c == <<s, n>> \in edges
  <2>3. Backed(q, b, c)
    BY <1>2, <1>3
  <2>4. a => \/ b /\ Head(q) # Packet("REATTACH")
             \/ Head(q).type = "ATTACHSUCCESS"
    BY <1>3
  <2>5. a \in BOOLEAN /\ b \in BOOLEAN /\ c \in BOOLEAN /\ q # <<>> /\ q \in Seq(PacketsOK)
    BY <2>2
  <2> HIDE DEF a, b, c, q
  <2>6. Backed(Tail(q), a, c)
    BY <2>3, <2>4, <2>5, TailBacked
  <2> QED
    BY <1>3, <2>1, <2>6 DEF a, c, q
<1>4. CASE ~(p = s /\ m = n)
  <2>1. Taken(s, n)[p][m] = net[p][m]
    BY <1>1, <1>4 DEF Taken
  <2>2. <<p, m>> \in after => <<p, m>> \in beliefs
    BY <1>4
  <2> QED
    BY <1>2, <2>1, <2>2 DEF Backed
<1> QED
  BY <1>3, <1>4

\* s sends m to d, as the children become those of "after".
LEMMA PostBacked ==
  ASSUME NEW nt \in SafeNet, NEW s \in Node, NEW d, NEW m,
         NEW beliefs, NEW before, NEW after, NetBacked(nt, beliefs, before),
         d \in Node /\ m.type = "ATTACHSUCCESS" => <<s, d>> \in after,
         \A p, n \in Node : <<p, n>> \in before =>
           <<p, n>> \in after \/ (p = s /\ n = d /\ m = Packet("REATTACH"))
  PROVE  NetBacked(Post(nt, s, d, m), beliefs, after)
<1> SUFFICES ASSUME NEW p \in Node, NEW n \in Node
             PROVE  Backed(Post(nt, s, d, m)[p][n], <<p, n>> \in beliefs, <<p, n>> \in after)
  BY DEF NetBacked
<1>1. nt \in [Node -> [Node -> Seq(PacketsOK)]]
  BY DEF SafeNet
<1>2. Backed(nt[p][n], <<p, n>> \in beliefs, <<p, n>> \in before)
  BY DEF NetBacked
<1>3. CASE p = s /\ n = d
  <2>1. Post(nt, s, d, m)[p][n] = Append(nt[s][d], m)
    BY <1>1, <1>3 DEF Post
  <2> DEFINE q == nt[s][d]
             l == <<s, d>> \in beliefs
             b == <<s, d>> \in before
             a == <<s, d>> \in after
  <2>2. Backed(q, l, b)
    BY <1>2, <1>3
  <2>3. /\ m.type = "ATTACHSUCCESS" => a
        /\ b => a \/ m = Packet("REATTACH")
    BY <1>3
  <2>4. a \in BOOLEAN /\ b \in BOOLEAN /\ l \in BOOLEAN /\ q \in Seq(PacketsOK)
    BY <1>1, <1>3
  <2> HIDE DEF a, b, l, q
  <2>5. Backed(Append(q, m), l, a)
    BY <2>2, <2>3, <2>4, AppendBacked
  <2> QED
    BY <1>3, <2>1, <2>5 DEF a, l, q
<1>4. CASE ~(p = s /\ n = d)
  <2>1. Post(nt, s, d, m)[p][n] = nt[p][n]
    BY <1>1, <1>4 DEF Post
  <2>2. <<p, n>> \in before => <<p, n>> \in after
    BY <1>4
  <2> QED
    BY <1>2, <2>1, <2>2 DEF Backed
<1> QED
  BY <1>3, <1>4

\* n pings the hosts of a list.
LEMMA PostPingsBacked ==
  ASSUME NEW nt \in SafeNet, NEW n \in Node, NEW hosts \in Seq(Node),
         NEW beliefs, NEW edges, NetBacked(nt, beliefs, edges)
  PROVE  NetBacked(PostPings(nt, n, hosts), beliefs, edges)
<1> SUFFICES ASSUME NEW p \in Node, NEW d \in Node
             PROVE  Backed(PostPings(nt, n, hosts)[p][d], <<p, d>> \in beliefs, <<p, d>> \in edges)
  BY DEF NetBacked
<1>1. nt \in [Node -> [Node -> Seq(PacketsOK)]]
  BY DEF SafeNet
<1>2. Backed(nt[p][d], <<p, d>> \in beliefs, <<p, d>> \in edges)
  BY DEF NetBacked
<1> DEFINE count(x) == Cardinality({j \in DOMAIN hosts : hosts[j] = x})
           pingsTo(x) == [k \in 1..count(x) |-> Packet("PING")]
<1>3. CASE p = n
  <2>1. PostPings(nt, n, hosts)[p][d] = nt[p][d] \o pingsTo(d)
    BY <1>1, <1>3 DEF PostPings
  <2>2. count(d) \in Nat
    <3>1. IsFiniteSet(DOMAIN hosts)
      BY FS_Interval, LenProperties
    <3> QED
      BY <3>1, FS_Subset, FS_CardinalityType
  <2>3. Packet("PING") \in PacketsOK
    BY PlainPacketSafe DEF PacketType, SafePackets
  <2> HIDE DEF count
  <2>4. pingsTo(d) \in Seq(PacketsOK) /\ DOMAIN pingsTo(d) = 1..count(d)
    BY <2>2, <2>3
  <2>5. \A k \in DOMAIN pingsTo(d) : pingsTo(d)[k].type # "ATTACHSUCCESS"
    BY PacketTypeKept
  <2> DEFINE r == pingsTo(d)
             q == nt[p][d]
             l == <<p, d>> \in beliefs
             c == <<p, d>> \in edges
  <2>6. /\ q \in Seq(PacketsOK) /\ r \in Seq(PacketsOK) /\ l \in BOOLEAN /\ c \in BOOLEAN
        /\ Backed(q, l, c)
        /\ \A k \in DOMAIN r : r[k].type # "ATTACHSUCCESS"
    BY <1>1, <1>2, <2>4, <2>5
  <2> HIDE DEF r, q, l, c
  <2>7. Backed(q \o r, l, c)
    BY <2>6, ConcatBacked
  <2> QED
    BY <2>1, <2>7 DEF r, q, l, c
<1>4. CASE p # n
  <2>1. PostPings(nt, n, hosts)[p][d] = nt[p][d]
    BY <1>1, <1>4 DEF PostPings
  <2> QED
    BY <1>2, <2>1
<1> QED
  BY <1>3, <1>4

-------------------------------------------------------------------------------
(* The initial state and the steps *)

\* What nodes believe, and who is whose child, changes with these variables only.
LEMMA BeliefFrame ==
  /\ UNCHANGED <<status, parentIp>> => UNCHANGED Beliefs
  /\ UNCHANGED children => UNCHANGED Edges
BY DEF Beliefs, Edges, Child

\* Whoever takes a packet that neither sends it away nor adopts it keeps its beliefs.
LEMMA PacketRead ==
  ASSUME IInv, BackedInv, NEW s \in Node, NEW n \in Node, net[s][n] # <<>>,
         status[n] # "running" \/ Head(net[s][n]).type # "REATTACH"
  PROVE  /\ Taken(s, n) \in SafeNet
         /\ NetBacked(Taken(s, n), Beliefs, Edges)
<1>1. Taken(s, n) \in SafeNet
  BY TakenSafe DEF IInv
<1>2. \A p, m \in Node : <<p, m>> \in Beliefs /\ p = s /\ m = n =>
        Head(net[s][n]) # Packet("REATTACH")
  BY PacketTypeKept DEF Beliefs
<1>3. NetBacked(net, Beliefs, Edges) /\ NetInv
  BY DEF BackedInv, IInv
<1> QED
  BY <1>1, <1>2, <1>3, TakenBacked

\* Nothing is believed at first.
LEMMA InitBacked ==
  ASSUME Init
  PROVE  BackedInv
<1>1. \A p, n \in Node : net[p][n] = <<>> /\ parentIp[n] # p /\ parentIp[n] = NoAddress
  BY NodeAssumption DEF Init
<1>2. \A p, n \in Node : <<p, n>> \notin Beliefs
  BY <1>1 DEF Beliefs
<1> QED
  BY <1>1, <1>2 DEF BackedInv, NetBacked, Backed

\* A starting node believes in the root, which is no promise of the root.
LEMMA StartApplicationBacked ==
  ASSUME IInv, BackedInv, NEW n \in Node, StartApplication(n)
  PROVE  BackedInv'
<1>1. /\ status' = [status EXCEPT ![n] = "running"]
      /\ status \in [Node -> {"idle", "running", "stopped"}]
      /\ parentIp \in [Node -> Node \cup {NoAddress}]
      /\ parentIp[n] = NoAddress
      /\ parentIp' \in {parentIp, [parentIp EXCEPT ![n] = Root]}
  BY DEF StartApplication, IInv, NodeInv, BackedInv
<1>2. \A p, m \in Node : <<p, m>> \in Beliefs' => <<p, m>> \in Beliefs
  <2> SUFFICES ASSUME NEW p \in Node, NEW m \in Node, <<p, m>> \in Beliefs'
               PROVE  <<p, m>> \in Beliefs
    OBVIOUS
  <2>1. parentIp'[m] = p /\ p # Root /\ status'[m] = "running"
    BY DEF Beliefs
  <2>2. m # n
    BY <1>1, <2>1, NodeAssumption
  <2> QED
    BY <1>1, <2>1, <2>2 DEF Beliefs
<1>3. NetBacked(net', Beliefs, Edges)
  <2>1. net' = net \/ net' = Post(net, n, Root, Packet("ATTACH"))
    BY DEF StartApplication
  <2>2. Packet("ATTACH").type # "ATTACHSUCCESS"
    BY PacketTypeKept
  <2> QED
    BY <2>1, <2>2, PostBacked DEF BackedInv, IInv, NetInv
<1>4. NetBacked(net', Beliefs', Edges)
  BY <1>2, <1>3, FewerBeliefs
<1>5. Edges' = Edges
  BY BeliefFrame DEF StartApplication, treeVars
<1>6. \A m \in Node : status'[m] = "idle" => parentIp'[m] = NoAddress
  BY <1>1 DEF BackedInv
<1> QED
  BY <1>4, <1>5, <1>6 DEF BackedInv

\* A stopped node has no beliefs any more.
LEMMA StopApplicationBacked ==
  ASSUME IInv, BackedInv, NEW n \in Node, StopApplication(n)
  PROVE  BackedInv'
<1>1. /\ status' = [status EXCEPT ![n] = "stopped"]
      /\ status \in [Node -> {"idle", "running", "stopped"}]
      /\ UNCHANGED <<parentIp, net, children>>
  BY DEF StopApplication, treeVars, IInv, NodeInv
<1>2. \A p, m \in Node : <<p, m>> \in Beliefs' => <<p, m>> \in Beliefs
  BY <1>1 DEF Beliefs
<1>3. NetBacked(net, Beliefs', Edges)
  BY <1>2, FewerBeliefs DEF BackedInv
<1> QED
  BY <1>1, <1>3, BeliefFrame DEF BackedInv

\* A ping changes nothing that anybody believes.
LEMMA HandleAttachBacked ==
  ASSUME IInv, BackedInv, NEW s \in Node, NEW n \in Node, HandleAttach(s, n)
  PROVE  BackedInv'
<1>1. Taken(s, n) \in SafeNet /\ NetBacked(Taken(s, n), Beliefs, Edges)
  BY PacketRead DEF HandleAttach, Receive
<1>2. <<s>> \in Seq(Node)
  OBVIOUS
<1>3. NetBacked(net', Beliefs, Edges)
  BY <1>1, <1>2, PostPingsBacked DEF HandleAttach
<1> QED
  BY <1>3, BeliefFrame DEF HandleAttach, treeVars, BackedInv

\* Nor does the answer to a ping.
LEMMA HandlePingBacked ==
  ASSUME IInv, BackedInv, NEW s \in Node, NEW n \in Node, HandlePing(s, n)
  PROVE  BackedInv'
<1>1. Taken(s, n) \in SafeNet /\ NetBacked(Taken(s, n), Beliefs, Edges)
  BY PacketRead DEF HandlePing, Receive
<1>2. Packet("PINGRESPONSE").type # "ATTACHSUCCESS"
  BY PacketTypeKept
<1>3. NetBacked(net', Beliefs, Edges)
  BY <1>1, <1>2, PostBacked DEF HandlePing
<1> QED
  BY <1>3, BeliefFrame DEF HandlePing, treeVars, BackedInv

\* Who is sent away believes in the root again, which is no promise of the root.
LEMMA HandleReattachBacked ==
  ASSUME IInv, BackedInv, NEW s \in Node, NEW n \in Node, HandleReattach(s, n)
  PROVE  BackedInv'
<1>1. /\ parentIp' = [parentIp EXCEPT ![n] = Root]
      /\ parentIp \in [Node -> Node \cup {NoAddress}]
      /\ status[n] = "running" /\ net[s][n] # <<>>
      /\ UNCHANGED <<status, children>>
  BY DEF HandleReattach, Receive, treeVars, IInv, NodeInv
<1>2. \A p, m \in Node : <<p, m>> \in Beliefs' => <<p, m>> \in Beliefs /\ m # n
  BY <1>1 DEF Beliefs
<1>3. NetBacked(Taken(s, n), Beliefs', Edges)
  BY <1>1, <1>2, TakenBacked DEF BackedInv, IInv
<1>4. Taken(s, n) \in SafeNet
  BY <1>1, TakenSafe DEF IInv
<1>5. Packet("ATTACH").type # "ATTACHSUCCESS"
  BY PacketTypeKept
<1>6. NetBacked(net', Beliefs', Edges)
  BY <1>3, <1>4, <1>5, PostBacked DEF HandleReattach
<1>7. \A m \in Node : status'[m] = "idle" => parentIp'[m] = NoAddress
  BY <1>1 DEF BackedInv
<1> QED
  BY <1>1, <1>6, <1>7, BeliefFrame DEF BackedInv

\* Who is adopted believes it; a REATTACH that follows is still in the queue.
LEMMA HandleAttachSuccessBacked ==
  ASSUME IInv, BackedInv, NEW s \in Node, NEW n \in Node, HandleAttachSuccess(s, n)
  PROVE  BackedInv'
<1>1. /\ parentIp' = [parentIp EXCEPT ![n] = s]
      /\ parentIp \in [Node -> Node \cup {NoAddress}]
      /\ status[n] = "running" /\ net[s][n] # <<>> /\ net' = Taken(s, n)
      /\ Head(net[s][n]).type = "ATTACHSUCCESS"
      /\ UNCHANGED <<status, children>>
  BY DEF HandleAttachSuccess, Receive, treeVars, IInv, NodeInv
<1>2. \A p, m \in Node : <<p, m>> \in Beliefs' =>
        (<<p, m>> \in Beliefs /\ m # n) \/ (p = s /\ m = n)
  BY <1>1 DEF Beliefs
<1>3. NetBacked(Taken(s, n), Beliefs', Edges)
  BY <1>1, <1>2, TakenBacked DEF BackedInv, IInv
<1>4. \A m \in Node : status'[m] = "idle" => parentIp'[m] = NoAddress
  BY <1>1 DEF BackedInv
<1> QED
  BY <1>1, <1>3, <1>4, BeliefFrame DEF BackedInv

\* A refused node pings the hosts of the list, and believes what it did.
LEMMA HandleTryBacked ==
  ASSUME IInv, BackedInv, NEW s \in Node, NEW n \in Node, HandleTry(s, n)
  PROVE  BackedInv'
<1> DEFINE hosts == Head(net[s][n]).hosts
<1>1. Taken(s, n) \in SafeNet /\ NetBacked(Taken(s, n), Beliefs, Edges)
  BY PacketRead DEF HandleTry, Receive
<1>2. hosts \in Seq(Node)
  BY TakenSafe DEF HandleTry, Receive, IInv, SafePackets, PacketsOK
<1>3. net' = PostPings(Taken(s, n), n, hosts)
  BY DEF HandleTry
<1> HIDE DEF hosts
<1>4. NetBacked(net', Beliefs, Edges)
  BY <1>1, <1>2, <1>3, PostPingsBacked
<1> QED
  BY <1>4, BeliefFrame DEF HandleTry, treeVars, BackedInv

\* The end of a search sends an ATTACH, no promise either.
LEMMA PingRespPossibleParentBacked ==
  ASSUME IInv, BackedInv, NEW s \in Node, NEW n \in Node, PingRespPossibleParent(s, n)
  PROVE  BackedInv'
<1>1. Taken(s, n) \in SafeNet /\ NetBacked(Taken(s, n), Beliefs, Edges)
  BY PacketRead DEF PingRespPossibleParent, Receive
<1>2. \/ net' = Taken(s, n)
      \/ \E d : net' = Post(Taken(s, n), n, d, Packet("ATTACH"))
  BY DEF PingRespPossibleParent, ChooseParent
<1>3. Packet("ATTACH").type # "ATTACHSUCCESS"
  BY PacketTypeKept
<1>4. NetBacked(net', Beliefs, Edges)
  BY <1>1, <1>2, <1>3, PostBacked
<1> QED
  BY <1>4, BeliefFrame DEF PingRespPossibleParent, treeVars, BackedInv

\* The four ends of UpdateChildren: a new child is told so, and so is a former one.
LEMMA UpdateChildrenBacked ==
  ASSUME IInv, NEW n \in Node, NEW addr \in Node, NEW time, NEW nt \in SafeNet,
         NetBacked(nt, Beliefs, Edges), UpdateChildren(n, addr, time, nt)
  PROVE  NetBacked(net', Beliefs, Edges')
<1> DEFINE success  == Packet("ATTACHSUCCESS")
           reattach == Packet("REATTACH")
<1>1. success.type = "ATTACHSUCCESS" /\ reattach.type # "ATTACHSUCCESS"
  BY PacketTypeKept
<1>2. children \in [Node -> Seq(Node)]
  <2>1. Seq(NonRoot) \subseteq Seq(Node)
    BY SeqMonotonic DEF NonRoot
  <2> QED
    BY <2>1 DEF IInv, TreeInv
<1>3. \A p, m \in Node : /\ <<p, m>> \in Edges <=> \E j \in DOMAIN children[p] : children[p][j] = m
                         /\ <<p, m>> \in Edges' <=> \E j \in DOMAIN children'[p] : children'[p][j] = m
  BY DEF Edges, Child, Range
<1>4. CASE AddChild(n, addr, time, nt)
  <2>1. /\ children' = [children EXCEPT ![n] = Append(children[n], addr)]
        /\ net' = Post(nt, n, addr, success)
    BY <1>4 DEF AddChild
  <2>2. children[n] \in Seq(Node)
    BY <1>2
  <2> DEFINE c == Append(children[n], addr)
  <2>3. /\ \A j \in DOMAIN children[n] : j \in DOMAIN c /\ c[j] = children[n][j]
        /\ \E j \in DOMAIN c : c[j] = addr
    <3>1. Len(children[n]) \in Nat /\ DOMAIN children[n] = 1..Len(children[n])
      BY <2>2
    <3>2. /\ DOMAIN c = 1..(Len(children[n]) + 1) /\ c[Len(children[n]) + 1] = addr
          /\ \A j \in 1..Len(children[n]) : c[j] = children[n][j]
      BY <2>2
    <3> QED
      BY <3>1, <3>2
  <2>4. \A p \in Node : children'[p] = IF p = n THEN c ELSE children[p]
    BY <1>2, <2>1
  <2> HIDE DEF c
  <2>5. <<n, addr>> \in Edges' /\ \A p, m \in Node : <<p, m>> \in Edges => <<p, m>> \in Edges'
    BY <1>3, <2>3, <2>4
  <2> QED
    BY <1>1, <2>1, <2>5, PostBacked
<1>5. CASE RefreshChild(n, addr, time, nt)
  BY <1>5, BeliefFrame DEF RefreshChild
<1>6. CASE ReplaceChild(n, addr, time, nt)
  <2>1. PICK j \in DOMAIN children[n] :
          /\ children' = [children EXCEPT ![n][j] = addr]
          /\ net' = Exchange(nt, n, children[n][j], addr)
    BY <1>6 DEF ReplaceChild, MaxPingIndex
  <2> DEFINE old == children[n][j]
             mid == Post(nt, n, old, reattach)
  <2>2. old \in Node
    BY <1>2, ElementOfSeq, LenProperties
  <2>3. \A p \in Node : children'[p] =
          IF p = n THEN [children[n] EXCEPT ![j] = addr] ELSE children[p]
    BY <1>2, <2>1
  <2>4. <<n, addr>> \in Edges'
    BY <1>3, <2>3
  <2>5. \A p, m \in Node : <<p, m>> \in Edges => <<p, m>> \in Edges' \/ (p = n /\ m = old)
    BY <1>3, <2>3
  <2>6. NetBacked(mid, Beliefs, Edges')
    BY <1>1, <2>5, PostBacked
  <2>7. mid \in SafeNet
    <3>1. old \in NonRoot
      <4>1. children[n] \in Seq(NonRoot)
        BY DEF IInv, TreeInv
      <4> QED
        BY <4>1, ElementOfSeq, LenProperties
    <3>2. reattach \in SafePackets(n, old)
      BY <2>2, <3>1, PlainPacketSafe DEF PacketType, NonRoot
    <3> QED
      BY <3>2, PostSafe
  <2>8. net' = Post(mid, n, addr, success)
    BY <2>1 DEF Exchange
  <2> HIDE DEF mid, old
  <2> QED
    BY <1>1, <2>4, <2>6, <2>7, <2>8, PostBacked
<1>7. CASE Redirect(n, addr, time, nt)
  <2>1. net' = Post(nt, n, addr, serializedChildren[n]) /\ Edges' = Edges
    BY <1>7, BeliefFrame DEF Redirect, treeVars
  <2>2. serializedChildren[n].type # "ATTACHSUCCESS"
    BY DEF IInv, TreeInv, ListPackets
  <2> QED
    BY <2>1, <2>2, PostBacked
<1> QED
  BY <1>4, <1>5, <1>6, <1>7 DEF UpdateChildren

\* The answer of an attacher goes to UpdateChildren.
LEMMA PingRespAttacherBacked ==
  ASSUME IInv, BackedInv, NEW s \in Node, NEW n \in Node, PingRespAttacher(s, n)
  PROVE  BackedInv'
<1>1. Taken(s, n) \in SafeNet /\ NetBacked(Taken(s, n), Beliefs, Edges)
  BY PacketRead DEF PingRespAttacher, Receive
<1>2. PICK i \in PingSlot : \E time \in Measured(s, n, i) :
        Matches(s, n, i) /\ UpdateChildren(n, pings[n][i], time, Taken(s, n))
  BY DEF PingRespAttacher
<1>3. pings[n][i] \in Node
  BY <1>2 DEF Matches
<1>4. NetBacked(net', Beliefs, Edges')
  BY <1>1, <1>2, <1>3, UpdateChildrenBacked
<1>5. Beliefs' = Beliefs /\ UNCHANGED <<status, parentIp>>
  BY BeliefFrame DEF PingRespAttacher
<1> QED
  BY <1>4, <1>5 DEF BackedInv

\* A packet that no entry of the table waits for, or that nobody listens to, is gone.
LEMMA PacketGoneBacked ==
  ASSUME IInv, BackedInv, NEW s \in Node, NEW n \in Node,
         PingRespUnmatched(s, n) \/ Discard(s, n)
  PROVE  BackedInv'
<1>1. /\ net[s][n] # <<>> /\ net' = Taken(s, n)
      /\ status[n] # "running" \/ Head(net[s][n]).type # "REATTACH"
      /\ UNCHANGED <<status, parentIp, children>>
  BY DEF PingRespUnmatched, Receive, Discard, treeVars
<1>2. NetBacked(net', Beliefs, Edges)
  BY <1>1, PacketRead
<1> QED
  BY <1>1, <1>2, BeliefFrame DEF BackedInv

\* Every step keeps the invariant, if it loses no packet.
LEMMA NextBacked ==
  ASSUME MaxLost = 0, ParentInv, [Next]_vars
  PROVE  ParentInv'
<1>1. IInv /\ BackedInv
  BY DEF ParentInv
<1>2. ASSUME NEW n \in Node, StartApplication(n) \/ StopApplication(n)
      PROVE  BackedInv'
  BY <1>1, <1>2, StartApplicationBacked, StopApplicationBacked
<1>3. ASSUME NEW s \in Node, NEW n \in Node, InterpretPacket(s, n)
      PROVE  BackedInv'
  BY <1>1, <1>3, HandleAttachBacked, HandlePingBacked, PacketGoneBacked,
     PingRespPossibleParentBacked, PingRespAttacherBacked, HandleReattachBacked,
     HandleTryBacked, HandleAttachSuccessBacked
     DEF InterpretPacket
<1>4. ASSUME NEW s \in Node, NEW n \in Node, Discard(s, n)
      PROVE  BackedInv'
  BY <1>1, <1>4, PacketGoneBacked
<1>5. \A s, n \in Node : ~Lose(s, n)
  BY <1>1 DEF Lose, IInv, NodeInv
<1>6. ASSUME UNCHANGED vars PROVE BackedInv'
  <2>1. UNCHANGED <<status, parentIp, net, children>>
    BY <1>6 DEF vars, treeVars
  <2> QED
    BY <1>1, <2>1, BeliefFrame DEF BackedInv
<1>7. BackedInv'
  BY <1>2, <1>3, <1>4, <1>5, <1>6 DEF Next
<1> QED
  BY <1>1, <1>7, NextInv DEF ParentInv

-------------------------------------------------------------------------------
(* The theorem *)

\* As long as no packet is lost, a node that believes in a parent is its child, or the
\* REATTACH of the parent is on its way: whoever is sent away, and in whatever order
\* the packets of different nodes arrive.
THEOREM ParentAlwaysBacked ==
  ASSUME MaxLost = 0
  PROVE  Spec => []ParentBacked
<1>1. Init => ParentInv
  BY InitInv, InitBacked DEF ParentInv
<1>2. ParentInv /\ [Next]_vars => ParentInv'
  BY NextBacked
<1>3. ParentInv => ParentBacked
  <2> SUFFICES ASSUME ParentInv, NEW n \in Node, NEW p \in Node,
                      parentIp[n] = p, p # Root, status[n] = "running"
               PROVE  Child(p, n) \/ Packet("REATTACH") \in Range(net[p][n])
    BY DEF ParentBacked
  <2>1. <<p, n>> \in Beliefs
    BY DEF Beliefs
  <2>2. Backed(net[p][n], <<p, n>> \in Beliefs, <<p, n>> \in Edges)
    BY DEF ParentInv, BackedInv, NetBacked
  <2> QED
    BY <2>1, <2>2 DEF Backed, Edges
<1> QED
  BY <1>1, <1>2, <1>3, PTL DEF Spec
===============================================================================
