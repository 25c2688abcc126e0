---------------------------- MODULE ScdtTreeProofs ----------------------------
(* The overlay of ScdtServer is a tree that grows by leaves, for every number  *)
(* of nodes, whatever packets are lost and whoever stops, as long as nobody is *)
(* sent away and no table of pings is full.  If the root starts first and      *)
(* nobody stops, each packet lost keeps at most one node out of it: if none is *)
(* lost, every node that has started has a place or a request for one.         *)
EXTENDS ScdtServerProofs

-------------------------------------------------------------------------------
(* The state as relations between hosts *)

Has(q, type)  == \E k \in DOMAIN q : q[k].type = type
Distinct(q)   == \A j, k \in DOMAIN q : q[j] = q[k] => j = k
Once(q, type) == \A j, k \in DOMAIN q : q[j].type = type /\ q[k].type = type => j = k

\* <<s, d>>: a packet of this type is on its way from s to d.
Packets(nt, type) == {e \in Node \X Node : Has(nt[e[1]][e[2]], type)}
Attaches   == Packets(net, "ATTACH")
Questions  == Packets(net, "PING")
Answers    == Packets(net, "PINGRESPONSE")
Tries      == Packets(net, "TRY")
Successes  == Packets(net, "ATTACHSUCCESS")
Reattaches == Packets(net, "REATTACH")

\* <<p, n>>: p has n among its children, in its table of pings, with an answer there
\* or without one, without one although p does not search, or on its stack.
Edges      == {e \in Node \X Node : Child(e[1], e[2])}
Entries    == {e \in Node \X Node : \E i \in PingSlot : pings[e[1]][i] = e[2]}
Opens      == {e \in Node \X Node : \E i \in PingSlot :
                 pings[e[1]][i] = e[2] /\ pingTime[e[1]][i] = NotAnswered}
Closed     == {e \in Node \X Node : \E i \in PingSlot :
                 pings[e[1]][i] = e[2] /\ pingTime[e[1]][i] # NotAnswered}
Pendings   == {e \in Node \X Node : \E i \in PingSlot :
                 /\ pings[e[1]][i] = e[2] /\ pingTime[e[1]][i] = NotAnswered
                 /\ i \notin possibleParentsSet[e[1]]}
Candidates == {e \in Node \X Node : \E i \in Range(possibleParentsStk[e[1]]) :
                 pings[e[1]][i] = e[2]}

Searching  == {n \in Node : possibleParentsSet[n] # {}}
Full       == {n \in Node : Len(children[n]) = MAX_FANOUT}
Idle       == {n \in Node : status[n] = "idle"}
Adoptees   == {n \in Node : \E p \in Node : <<p, n>> \in Edges}

-------------------------------------------------------------------------------
(* What the theorems suppose *)

\* Nobody is sent away: no child gets a REATTACH because its parent has found a
\* nearer one.
NobodySentAway == Reattaches = {}

\* That is so if all the pings of one host take the same time: then no newcomer is
\* nearer to it than a child.
EqualRoundTrips == \A n, s, d \in Node :
  \A t \in RoundTrip[n][s], u \in RoundTrip[n][d] : t = u

\* m_pings has a slot for everybody, so its ring index never wraps around.
SmallOverlay == IsFiniteSet(Node) /\ Cardinality(Node) <= MAX_PINGS

-------------------------------------------------------------------------------
(* The inductive invariant *)

\* The table of pings has no gaps and no host twice; a time in it is a round trip.
TableInv == \A p \in Node :
  /\ \A i \in PingSlot : pings[p][i] \in Node <=> i < numPings[p]
  /\ \A i, j \in PingSlot : pings[p][i] = pings[p][j] /\ pings[p][i] \in Node => i = j
  /\ \A i \in PingSlot : pings[p][i] \in Node /\ pingTime[p][i] # NotAnswered =>
       pingTime[p][i] \in RoundTrip[p][pings[p][i]]

\* A search waits for the open ones among its candidates, and counts them; those of
\* earlier searches that are still on the stack have answered.
StackInv == \A p \in Node :
  /\ \A i \in possibleParentsSet[p] : pings[p][i] \in Node /\ pingTime[p][i] = NotAnswered
  /\ \A i \in Range(possibleParentsStk[p]) :
       /\ pings[p][i] \in Node
       /\ i \in possibleParentsSet[p] \/ pingTime[p][i] # NotAnswered
  /\ possibleParentsSet[p] \subseteq Range(possibleParentsStk[p])
  /\ Distinct(possibleParentsStk[p])
  /\ possibleParentsCntr[p] = Cardinality(possibleParentsSet[p])

\* Children are different hosts, their times round trips, and the list is serialized.
ChildInv == \A p \in Node :
  /\ \A j \in DOMAIN children[p] : shortestPing[p][j] \in RoundTrip[p][children[p][j]]
  /\ \A i, j \in DOMAIN children[p] : children[p][i] = children[p][j] => i = j
  /\ children[p] # <<>> => serializedChildren[p] = SerializeChildren(children[p])

\* Of most packets there is at most one between two hosts, and of REATTACH none.
Single == {"ATTACH", "PING", "PINGRESPONSE", "TRY", "ATTACHSUCCESS"}
OnceInv ==
  /\ \A s, d \in Node : \A type \in Single : Once(net[s][d], type)
  /\ NobodySentAway

\* A ping or its answer is on its way for an open entry only, and never both; an
\* ATTACHSUCCESS is for a child.
EchoInv == \A n, s \in Node :
  /\ <<n, s>> \in Questions \/ <<s, n>> \in Answers => <<n, s>> \in Opens
  /\ ~(<<n, s>> \in Questions /\ <<s, n>> \in Answers)
  /\ <<n, s>> \in Successes => <<n, s>> \in Edges

\* A TRY comes from a full node and lists its children, which never change again.
TryInv == \A s, d \in Node : \A k \in DOMAIN net[s][d] : net[s][d][k].type = "TRY" =>
  s \in Full /\ net[s][d][k] = SerializeChildren(children[s])

\* All that is going on about the place of somebody: <<what, with whom, whose>>.
Kind == {"child", "attach", "ping", "try", "search"}
Engaged(edges, attaches, pendings, tries, searching) ==
  {x \in Kind \X Node \X Node :
     \/ x[1] = "child"  /\ <<x[2], x[3]>> \in edges
     \/ x[1] = "attach" /\ <<x[3], x[2]>> \in attaches
     \/ x[1] = "ping"   /\ <<x[2], x[3]>> \in pendings
     \/ x[1] = "try"    /\ <<x[2], x[3]>> \in tries
     \/ x[1] = "search" /\ x[2] = x[3] /\ x[3] \in searching}
Engagements == Engaged(Edges, Attaches, Pendings, Tries, Searching)
Exclusive(E) == \A x, y \in E : x[3] = y[3] => x = y

\* Nobody knows a node that has not started.
IdleInv == \A n \in Idle :
  /\ \A p \in Node : <<p, n>> \notin Entries
  /\ \A x \in Engagements : x[3] # n

\* n may ask x for a place: x is in the tree, and the parent of x has refused n.
Approachable(x, n) ==
  /\ x = Root \/ x \in Adoptees
  /\ \A q \in Node : <<q, x>> \in Edges => <<q, n>> \in Closed

\* A node without a place walks down the tree: it has asked the ancestors of whom it
\* asks, it has pinged their children only, and it never meets anybody twice.
SeekInv == \A n \in NonRoot \ Adoptees :
  /\ \A h \in Node : <<n, h>> \in Entries =>
       \E q \in Node : <<q, h>> \in Edges /\ <<q, n>> \in Closed
  /\ \A x \in Node : <<x, n>> \in Entries => Approachable(x, n)
  /\ \A x \in Node : <<n, x>> \in Attaches =>
       Approachable(x, n) /\ <<x, n>> \notin Entries /\ <<n, x>> \notin Candidates
  /\ \A x \in Node : <<x, n>> \in Tries =>
       /\ <<x, n>> \in Closed
       /\ \A h \in Node : <<x, h>> \in Edges => <<n, h>> \notin Entries /\ <<h, n>> \notin Entries
  /\ \A h \in Node : <<n, h>> \in Candidates => <<h, n>> \notin Entries

DataInv == TableInv /\ StackInv /\ ChildInv
WireInv == OnceInv /\ EchoInv /\ TryInv
PlaceInv == Exclusive(Engagements) /\ IdleInv /\ SeekInv
OverlayInv == IInv /\ DataInv /\ WireInv /\ PlaceInv

-------------------------------------------------------------------------------
(* Two relations between hosts are equal if they relate the same hosts. *)

LEMMA SameRelation ==
  ASSUME NEW A \in SUBSET (Node \X Node), NEW B \in SUBSET (Node \X Node),
         \A x, y \in Node : <<x, y>> \in A <=> <<x, y>> \in B
  PROVE  A = B
<1>1. \A e \in Node \X Node : e = <<e[1], e[2]>> /\ e[1] \in Node /\ e[2] \in Node
  OBVIOUS
<1>2. \A e \in Node \X Node : e \in A <=> e \in B
  BY <1>1
<1> QED
  BY <1>2

-------------------------------------------------------------------------------
(* One queue *)

\* A queue that is not empty holds its oldest packet.
LEMMA HasHead ==
  ASSUME NEW q \in Seq(PacketsOK), q # <<>>
  PROVE  Has(q, Head(q).type) /\ 1 \in DOMAIN q /\ q[1] = Head(q)
<1>1. 1 \in DOMAIN q /\ q[1] = Head(q)
  BY LenProperties, EmptySeq
<1> QED
  BY <1>1 DEF Has

\* The oldest packet is taken.
LEMMA TailQueue ==
  ASSUME NEW q \in Seq(PacketsOK), q # <<>>, NEW type
  PROVE  /\ Has(Tail(q), type) => Has(q, type)
         /\ Has(q, type) /\ Head(q).type # type => Has(Tail(q), type)
         /\ Once(q, type) => Once(Tail(q), type)
         /\ Once(q, type) /\ Head(q).type = type => ~Has(Tail(q), type)
<1> DEFINE t == Tail(q)
<1>1. /\ Len(q) \in Nat /\ Len(q) >= 1 /\ DOMAIN q = 1..Len(q)
      /\ Len(t) = Len(q) - 1 /\ DOMAIN t = 1..Len(t)
      /\ \A k \in DOMAIN t : t[k] = q[k + 1] /\ k + 1 \in DOMAIN q
      /\ Head(q) = q[1] /\ 1 \in DOMAIN q
  OBVIOUS
<1> HIDE DEF t
<1>2. \A j \in DOMAIN q : j # 1 => j - 1 \in DOMAIN t /\ t[j - 1] = q[j]
  <2> TAKE j \in DOMAIN q
  <2> HAVE j # 1
  <2>1. j - 1 \in DOMAIN t
    BY <1>1
  <2> QED
    BY <1>1, <2>1
<1>3. Has(t, type) => Has(q, type)
  BY <1>1 DEF Has
<1>4. Has(q, type) /\ Head(q).type # type => Has(t, type)
  BY <1>1, <1>2 DEF Has
<1>5. Once(q, type) => Once(t, type)
  <2> SUFFICES ASSUME Once(q, type), NEW j \in DOMAIN t, NEW k \in DOMAIN t,
                      t[j].type = type, t[k].type = type
               PROVE  j = k
    BY DEF Once
  <2>1. j + 1 = k + 1
    BY <1>1 DEF Once
  <2> QED
    BY <1>1, <2>1
<1>6. Once(q, type) /\ Head(q).type = type => ~Has(t, type)
  <2> SUFFICES ASSUME Once(q, type), q[1].type = type, NEW k \in DOMAIN t, t[k].type = type
               PROVE  FALSE
    BY <1>1 DEF Has
  <2>1. k + 1 = 1
    BY <1>1 DEF Once
  <2> QED
    BY <1>1, <2>1
<1> QED
  BY <1>3, <1>4, <1>5, <1>6 DEF t

\* A packet joins the queue.
LEMMA AppendQueue ==
  ASSUME NEW q \in Seq(PacketsOK), NEW m, NEW type
  PROVE  /\ Has(Append(q, m), type) <=> Has(q, type) \/ m.type = type
         /\ Once(q, type) /\ (m.type = type => ~Has(q, type)) => Once(Append(q, m), type)
<1> DEFINE a == Append(q, m)
<1>1. /\ Len(q) \in Nat /\ DOMAIN q = 1..Len(q) /\ DOMAIN a = 1..(Len(q) + 1)
      /\ \A k \in DOMAIN q : a[k] = q[k] /\ k \in DOMAIN a
      /\ a[Len(q) + 1] = m /\ Len(q) + 1 \in DOMAIN a
      /\ \A k \in DOMAIN a : k \in DOMAIN q \/ k = Len(q) + 1
  OBVIOUS
<1> HIDE DEF a
<1>2. Has(a, type) <=> Has(q, type) \/ m.type = type
  BY <1>1 DEF Has
<1>3. Once(q, type) /\ (m.type = type => ~Has(q, type)) => Once(a, type)
  BY <1>1 DEF Has, Once
<1> QED
  BY <1>2, <1>3 DEF a

-------------------------------------------------------------------------------
(* All queues *)

\* n takes the oldest packet of s.
LEMMA TakenQueues ==
  ASSUME NetInv, NEW s \in Node, NEW n \in Node, net[s][n] # <<>>, NEW type
  PROVE  /\ \A x, y \in Node : Taken(s, n)[x][y] =
              IF x = s /\ y = n THEN Tail(net[s][n]) ELSE net[x][y]
         /\ Packets(Taken(s, n), type) \subseteq Packets(net, type)
         /\ type # Head(net[s][n]).type => Packets(Taken(s, n), type) = Packets(net, type)
         /\ Head(net[s][n]).type = type /\ Once(net[s][n], type) =>
              Packets(Taken(s, n), type) = Packets(net, type) \ {<<s, n>>}
         /\ Head(net[s][n]).type = type => <<s, n>> \in Packets(net, type)
         /\ \A x, y \in Node : Once(net[x][y], type) => Once(Taken(s, n)[x][y], type)
<1> DEFINE nt == Taken(s, n)
           q  == net[s][n]
<1>1. q \in Seq(PacketsOK) /\ q # <<>>
  BY DEF NetInv, SafeNet
<1>2. \A x, y \in Node : nt[x][y] = IF x = s /\ y = n THEN Tail(q) ELSE net[x][y]
  BY DEF Taken, NetInv, SafeNet
<1> HIDE DEF nt, q
<1>3. \A x, y \in Node : <<x, y>> \in Packets(nt, type) <=> Has(nt[x][y], type)
  BY DEF Packets
<1>4. \A x, y \in Node : <<x, y>> \in Packets(net, type) <=> Has(net[x][y], type)
  BY DEF Packets
<1>5. Has(q, Head(q).type)
  BY <1>1, HasHead
<1>6. /\ Has(Tail(q), type) => Has(q, type)
      /\ Has(q, type) /\ Head(q).type # type => Has(Tail(q), type)
      /\ Once(q, type) => Once(Tail(q), type)
      /\ Once(q, type) /\ Head(q).type = type => ~Has(Tail(q), type)
  BY <1>1, TailQueue
<1>7. /\ Packets(nt, type) \subseteq Node \X Node /\ Packets(net, type) \subseteq Node \X Node
  BY DEF Packets
<1>8. \A x, y \in Node : <<x, y>> \in Packets(nt, type) => <<x, y>> \in Packets(net, type)
  BY <1>2, <1>3, <1>4, <1>6 DEF q
<1>9. ASSUME type # Head(q).type
      PROVE  Packets(nt, type) = Packets(net, type)
  <2>1. \A x, y \in Node : <<x, y>> \in Packets(nt, type) <=> <<x, y>> \in Packets(net, type)
    BY <1>2, <1>3, <1>4, <1>6, <1>9 DEF q
  <2> QED
    BY <1>7, <2>1, SameRelation
<1>10. ASSUME Head(q).type = type, Once(q, type)
       PROVE  Packets(nt, type) = Packets(net, type) \ {<<s, n>>}
  <2>1. \A x, y \in Node : <<x, y>> \in Packets(nt, type) <=>
          <<x, y>> \in Packets(net, type) /\ <<x, y>> # <<s, n>>
    <3> TAKE x, y \in Node
    <3>1. CASE x = s /\ y = n
      BY <1>2, <1>3, <1>6, <1>10, <3>1 DEF q
    <3>2. CASE ~(x = s /\ y = n)
      BY <1>2, <1>3, <1>4, <3>2
    <3> QED
      BY <3>1, <3>2
  <2>2. Packets(net, type) \ {<<s, n>>} \subseteq Node \X Node
    BY <1>7
  <2>3. \A x, y \in Node :
          <<x, y>> \in Packets(nt, type) <=> <<x, y>> \in Packets(net, type) \ {<<s, n>>}
    BY <2>1
  <2> QED
    BY <1>7, <2>2, <2>3, SameRelation
<1>11. Head(q).type = type => <<s, n>> \in Packets(net, type)
  BY <1>4, <1>5 DEF q
<1>12. \A x, y \in Node : Once(net[x][y], type) => Once(nt[x][y], type)
  BY <1>2, <1>6 DEF q
<1>13. Packets(nt, type) \subseteq Packets(net, type)
  <2>1. \A e \in Node \X Node : e \in Packets(nt, type) => e \in Packets(net, type)
    <3> TAKE e \in Node \X Node
    <3>1. e = <<e[1], e[2]>> /\ e[1] \in Node /\ e[2] \in Node
      OBVIOUS
    <3> QED
      BY <1>8, <3>1
  <2> QED
    BY <1>7, <2>1
<1> QED
  BY <1>2, <1>9, <1>10, <1>11, <1>12, <1>13 DEF nt, q

\* Node n sends m to all of D.
Sent(nt, n, D, m) ==
  [x \in Node |-> [y \in Node |-> IF x = n /\ y \in D THEN Append(nt[x][y], m) ELSE nt[x][y]]]

\* What a message to a set of hosts adds to the packets of its type.
LEMMA SentQueues ==
  ASSUME NEW nt \in SafeNet, NEW n \in Node, NEW D \in SUBSET Node, NEW m, NEW type
  PROVE  /\ m.type # type => Packets(Sent(nt, n, D, m), type) = Packets(nt, type)
         /\ m.type = type =>
              Packets(Sent(nt, n, D, m), type) = Packets(nt, type) \cup ({n} \X D)
         /\ \A x, y \in Node :
              /\ Once(nt[x][y], type)
              /\ x = n /\ y \in D /\ m.type = type => <<x, y>> \notin Packets(nt, type)
              => Once(Sent(nt, n, D, m)[x][y], type)
<1> DEFINE nu == Sent(nt, n, D, m)
<1>1. \A x, y \in Node : nt[x][y] \in Seq(PacketsOK)
  BY DEF SafeNet
<1>2. \A x, y \in Node : nu[x][y] = IF x = n /\ y \in D THEN Append(nt[x][y], m) ELSE nt[x][y]
  BY DEF Sent
<1> HIDE DEF nu
<1>3. \A x, y \in Node : <<x, y>> \in Packets(nu, type) <=> Has(nu[x][y], type)
  BY DEF Packets
<1>4. \A x, y \in Node : <<x, y>> \in Packets(nt, type) <=> Has(nt[x][y], type)
  BY DEF Packets
<1>5. Packets(nu, type) \subseteq Node \X Node /\ Packets(nt, type) \subseteq Node \X Node
  BY DEF Packets
<1>6. ASSUME NEW x \in Node, NEW y \in Node
      PROVE  /\ Has(nu[x][y], type) <=>
                  Has(nt[x][y], type) \/ (x = n /\ y \in D /\ m.type = type)
             /\ Once(nt[x][y], type) /\ (x = n /\ y \in D /\ m.type = type => ~Has(nt[x][y], type))
                  => Once(nu[x][y], type)
  <2>1. CASE x = n /\ y \in D
    <3> DEFINE q == nt[x][y]
    <3>1. q \in Seq(PacketsOK)
      BY <1>1
    <3>2. nu[x][y] = Append(q, m)
      BY <1>2, <2>1
    <3> HIDE DEF q
    <3>3. /\ Has(Append(q, m), type) <=> Has(q, type) \/ m.type = type
          /\ Once(q, type) /\ (m.type = type => ~Has(q, type)) => Once(Append(q, m), type)
      BY <3>1, AppendQueue
    <3> QED
      BY <2>1, <3>2, <3>3 DEF q
  <2>2. CASE ~(x = n /\ y \in D)
    <3>1. nu[x][y] = nt[x][y]
      BY <1>2, <2>2
    <3> QED
      BY <2>2, <3>1
  <2> QED
    BY <2>1, <2>2
<1>7. ASSUME m.type # type
      PROVE  Packets(nu, type) = Packets(nt, type)
  <2>1. \A x, y \in Node : <<x, y>> \in Packets(nu, type) <=> <<x, y>> \in Packets(nt, type)
    BY <1>3, <1>4, <1>6, <1>7
  <2> QED
    BY <1>5, <2>1, SameRelation
<1>8. ASSUME m.type = type
      PROVE  Packets(nu, type) = Packets(nt, type) \cup ({n} \X D)
  <2>1. \A x, y \in Node :
          <<x, y>> \in Packets(nu, type) <=> <<x, y>> \in Packets(nt, type) \cup ({n} \X D)
    BY <1>3, <1>4, <1>6, <1>8
  <2>2. Packets(nt, type) \cup ({n} \X D) \subseteq Node \X Node
    BY <1>5
  <2> QED
    BY <1>5, <2>1, <2>2, SameRelation
<1>9. ASSUME NEW x \in Node, NEW y \in Node, Once(nt[x][y], type),
             x = n /\ y \in D /\ m.type = type => <<x, y>> \notin Packets(nt, type)
      PROVE  Once(nu[x][y], type)
  BY <1>4, <1>6, <1>9
<1> QED
  BY <1>7, <1>8, <1>9 DEF nu

\* SendTo is one sending.
LEMMA PostIsSent ==
  ASSUME NEW nt \in SafeNet, NEW n \in Node, NEW d \in Node, NEW m
  PROVE  Post(nt, n, d, m) = Sent(nt, n, {d}, m)
<1> DEFINE nu == Post(nt, n, d, m)
           nv == Sent(nt, n, {d}, m)
<1>1. nt \in [Node -> [Node -> Seq(PacketsOK)]]
  BY DEF SafeNet
<1>2. nu = [nt EXCEPT ![n] = [nt[n] EXCEPT ![d] = Append(nt[n][d], m)]]
  BY DEF Post
<1>3. \A x \in Node : nu[x] = IF x = n THEN [nt[n] EXCEPT ![d] = Append(nt[n][d], m)] ELSE nt[x]
  BY <1>1, <1>2
<1>4. nu = [x \in Node |-> nu[x]]
  BY <1>1, <1>2
<1>5. \A x \in Node : nu[x] = [y \in Node |-> nu[x][y]]
  BY <1>1, <1>3
<1>6. \A x, y \in Node : nu[x][y] = IF x = n /\ y \in {d} THEN Append(nt[x][y], m) ELSE nt[x][y]
  BY <1>1, <1>3
<1> HIDE DEF nu
<1>7. \A x \in Node : nu[x] =
        [y \in Node |-> IF x = n /\ y \in {d} THEN Append(nt[x][y], m) ELSE nt[x][y]]
  BY <1>5, <1>6
<1>8. \A x \in Node : nv[x] =
        [y \in Node |-> IF x = n /\ y \in {d} THEN Append(nt[x][y], m) ELSE nt[x][y]]
  BY DEF Sent
<1>9. nv = [x \in Node |-> nv[x]]
  BY DEF Sent
<1> HIDE DEF nv
<1>10. \A x \in Node : nu[x] = nv[x]
  BY <1>7, <1>8
<1>11. [x \in Node |-> nu[x]] = [x \in Node |-> nv[x]]
  BY <1>10
<1> QED
  BY <1>4, <1>9, <1>11 DEF nu, nv

\* So are the pings of a list without doubles.
LEMMA PingsAreSent ==
  ASSUME NEW nt \in SafeNet, NEW n \in Node, NEW hosts \in Seq(Node),
         \A i, j \in DOMAIN hosts : hosts[i] = hosts[j] => i = j
  PROVE  PostPings(nt, n, hosts) = Sent(nt, n, Range(hosts), Packet("PING"))
<1> DEFINE count(d) == Cardinality({j \in DOMAIN hosts : hosts[j] = d})
           row(d)   == nt[n][d] \o [k \in 1..count(d) |-> Packet("PING")]
<1>1. \A d \in Node : nt[n][d] \in Seq(PacketsOK)
  BY DEF SafeNet
<1>2. ASSUME NEW d \in Node, d \in Range(hosts)
      PROVE  row(d) = Append(nt[n][d], Packet("PING"))
  <2>1. PICK j \in DOMAIN hosts : hosts[j] = d
    BY <1>2 DEF Range
  <2>2. {k \in DOMAIN hosts : hosts[k] = d} = {j}
    BY <2>1
  <2>3. count(d) = 1
    BY <2>2, FS_Singleton
  <2> HIDE DEF count
  <2>4. row(d) = nt[n][d] \o [k \in 1..1 |-> Packet("PING")]
    BY <2>3
  <2> DEFINE q == nt[n][d]
             m == Packet("PING")
  <2>5. q \in Seq(PacketsOK)
    BY <1>1
  <2> HIDE DEF q, m
  <2>6. q \o [k \in 1..1 |-> m] = Append(q, m)
    <3>1. [k \in 1..1 |-> m] = <<m>>
      OBVIOUS
    <3>2. q \o <<m>> = Append(q, m)
      BY <2>5, AppendIsConcat
    <3> QED
      BY <3>1, <3>2
  <2> QED
    BY <2>4, <2>6 DEF q, m
<1>3. ASSUME NEW d \in Node, d \notin Range(hosts)
      PROVE  row(d) = nt[n][d]
  <2>1. {k \in DOMAIN hosts : hosts[k] = d} = {}
    BY <1>3 DEF Range
  <2>2. count(d) = 0
    BY <2>1, FS_EmptySet
  <2> HIDE DEF count
  <2>3. row(d) = nt[n][d] \o [k \in 1..0 |-> Packet("PING")]
    BY <2>2
  <2>4. [k \in 1..0 |-> Packet("PING")] = <<>>
    OBVIOUS
  <2>5. nt[n][d] \o <<>> = nt[n][d]
    BY <1>1, ConcatEmptySeq
  <2> QED
    BY <2>3, <2>4, <2>5
<1>4. PostPings(nt, n, hosts) = [nt EXCEPT ![n] = [d \in Node |-> row(d)]]
  BY DEF PostPings
<1> HIDE DEF row
<1> DEFINE nu == PostPings(nt, n, hosts)
           nv == Sent(nt, n, Range(hosts), Packet("PING"))
<1>5. nt \in [Node -> [Node -> Seq(PacketsOK)]]
  BY DEF SafeNet
<1>6. \A x \in Node : nu[x] = IF x = n THEN [d \in Node |-> row(d)] ELSE nt[x]
  BY <1>4, <1>5
<1>7. nu = [x \in Node |-> nu[x]]
  BY <1>4, <1>5
<1>8. \A x \in Node : nu[x] = [y \in Node |-> nu[x][y]]
  BY <1>5, <1>6
<1>9. \A x, y \in Node : nu[x][y] =
        IF x = n /\ y \in Range(hosts) THEN Append(nt[x][y], Packet("PING")) ELSE nt[x][y]
  BY <1>2, <1>3, <1>6
<1> HIDE DEF nu
<1>10. \A x \in Node : nu[x] = [y \in Node |->
         IF x = n /\ y \in Range(hosts) THEN Append(nt[x][y], Packet("PING")) ELSE nt[x][y]]
  BY <1>8, <1>9
<1>11. nv = [x \in Node |-> [y \in Node |->
         IF x = n /\ y \in Range(hosts) THEN Append(nt[x][y], Packet("PING")) ELSE nt[x][y]]]
  BY DEF Sent
<1> HIDE DEF nv
<1>12. [x \in Node |-> nu[x]] = nv
  BY <1>10, <1>11
<1> QED
  BY <1>7, <1>12 DEF nu, nv

\* A packet of type "out" has been sent to all of D, one of type "in" from s taken by n.
Exchanged(s, n, in, D, out) == \A type \in Single : Packets(net', type) =
  (IF in = type THEN Packets(net, type) \ {<<s, n>>} ELSE Packets(net, type))
  \cup (IF out = type THEN {n} \X D ELSE {})

\* n takes the oldest packet of s and sends m to all of D.
LEMMA WireStep ==
  ASSUME NetInv, OnceInv, NEW s \in Node, NEW n \in Node, net[s][n] # <<>>,
         NEW D \in SUBSET Node, NEW m, m.type # "REATTACH",
         m.type \in Single => \A y \in D : <<n, y>> \notin Packets(net, m.type),
         net' = Sent(Taken(s, n), n, D, m)
  PROVE  /\ OnceInv'
         /\ Head(net[s][n]).type # "REATTACH"
         /\ Exchanged(s, n, Head(net[s][n]).type, D, m.type)
<1> DEFINE nt == Taken(s, n)
           T == Head(net[s][n]).type
<1>1. nt \in SafeNet
  BY TakenSafe
<1>2. \A type :
         /\ Packets(nt, type) \subseteq Packets(net, type)
         /\ type # T => Packets(nt, type) = Packets(net, type)
         /\ T = type /\ Once(net[s][n], type) =>
              Packets(nt, type) = Packets(net, type) \ {<<s, n>>}
         /\ T = type => <<s, n>> \in Packets(net, type)
         /\ \A x, y \in Node : Once(net[x][y], type) => Once(nt[x][y], type)
  BY TakenQueues
<1>3. net' = Sent(nt, n, D, m)
  OBVIOUS
<1> HIDE DEF nt, T
<1>4. \A type :
         /\ m.type # type => Packets(net', type) = Packets(nt, type)
         /\ m.type = type => Packets(net', type) = Packets(nt, type) \cup ({n} \X D)
         /\ \A x, y \in Node :
              /\ Once(nt[x][y], type)
              /\ x = n /\ y \in D /\ m.type = type => <<x, y>> \notin Packets(nt, type)
              => Once(net'[x][y], type)
  <2> TAKE type
  <2>1. /\ m.type # type => Packets(Sent(nt, n, D, m), type) = Packets(nt, type)
        /\ m.type = type =>
             Packets(Sent(nt, n, D, m), type) = Packets(nt, type) \cup ({n} \X D)
        /\ \A x, y \in Node :
             /\ Once(nt[x][y], type)
             /\ x = n /\ y \in D /\ m.type = type => <<x, y>> \notin Packets(nt, type)
             => Once(Sent(nt, n, D, m)[x][y], type)
    BY <1>1, SentQueues
  <2> QED
    BY <1>3, <2>1
<1>5. ASSUME NEW type \in Single
      PROVE  Packets(net', type) =
                 (IF T = type THEN Packets(net, type) \ {<<s, n>>} ELSE Packets(net, type))
                 \cup (IF m.type = type THEN {n} \X D ELSE {})
  <2>1. Once(net[s][n], type)
    BY DEF OnceInv
  <2>2. Packets(nt, type) =
          IF T = type THEN Packets(net, type) \ {<<s, n>>} ELSE Packets(net, type)
    BY <1>2, <2>1
  <2>3. Packets(net', type) = Packets(nt, type) \cup (IF m.type = type THEN {n} \X D ELSE {})
    BY <1>4
  <2> QED
    BY <1>2, <2>2, <2>3
<1>6. T # "REATTACH" /\ Packets(net', "REATTACH") = {}
  BY <1>2, <1>4 DEF OnceInv, NobodySentAway, Reattaches
<1>7. ASSUME NEW type \in Single, NEW x \in Node, NEW y \in Node
      PROVE  Once(net'[x][y], type)
  <2>1. Once(nt[x][y], type)
    BY <1>2 DEF OnceInv
  <2>2. x = n /\ y \in D /\ m.type = type => <<x, y>> \notin Packets(nt, type)
    BY <1>2
  <2> QED
    BY <1>4, <2>1, <2>2
<1>8. OnceInv'
  BY <1>6, <1>7 DEF OnceInv, NobodySentAway, Reattaches
<1> QED
  BY <1>5, <1>6, <1>8 DEF T, Exchanged

\* n takes the oldest packet of s, or that packet is lost.
LEMMA WireGone ==
  ASSUME NetInv, OnceInv, NEW s \in Node, NEW n \in Node, net[s][n] # <<>>,
         net' = Taken(s, n)
  PROVE  /\ OnceInv'
         /\ Exchanged(s, n, Head(net[s][n]).type, {}, "NONE")
<1> DEFINE T == Head(net[s][n]).type
<1>1. \A type :
         /\ Packets(net', type) \subseteq Packets(net, type)
         /\ type # T => Packets(net', type) = Packets(net, type)
         /\ T = type /\ Once(net[s][n], type) =>
              Packets(net', type) = Packets(net, type) \ {<<s, n>>}
         /\ T = type => <<s, n>> \in Packets(net, type)
         /\ \A x, y \in Node : Once(net[x][y], type) => Once(net'[x][y], type)
  BY TakenQueues
<1> HIDE DEF T
<1>2. OnceInv'
  BY <1>1 DEF OnceInv, NobodySentAway, Reattaches
<1>3. ASSUME NEW type \in Single
      PROVE  Packets(net', type) =
               (IF T = type THEN Packets(net, type) \ {<<s, n>>} ELSE Packets(net, type))
  <2>1. Once(net[s][n], type)
    BY DEF OnceInv
  <2> QED
    BY <1>1, <2>1
<1> QED
  BY <1>2, <1>3 DEF T, Exchanged, Single

\* n has taken a packet of s, sent m to all of D, or both.
Delivery(s, n, D, m) ==
  \/ net' = Sent(net, n, D, m)
  \/ net[s][n] # <<>> /\ net' \in {Taken(s, n), Sent(Taken(s, n), n, D, m)}

\* A packet that is under way afterwards was so before, or is m and comes from n.
NothingElse(n, m) == \A x, y \in Node : \A k \in DOMAIN net'[x][y] :
  \/ \E j \in DOMAIN net[x][y] : net'[x][y][k] = net[x][y][j]
  \/ x = n /\ net'[x][y][k] = m

\* What was in the queues before is in them afterwards, or was taken or lost.
LEMMA OldPackets ==
  ASSUME NetInv, NEW s \in Node, NEW n \in Node, NEW D \in SUBSET Node, NEW m,
         Delivery(s, n, D, m)
  PROVE  NothingElse(n, m)
<1> SUFFICES ASSUME NEW x \in Node, NEW y \in Node, NEW k \in DOMAIN net'[x][y]
             PROVE  \/ \E j \in DOMAIN net[x][y] : net'[x][y][k] = net[x][y][j]
                    \/ x = n /\ net'[x][y][k] = m
  BY DEF NothingElse
<1>1. ASSUME NEW nt \in SafeNet, net' = Sent(nt, n, D, m)
      PROVE  \/ k \in DOMAIN nt[x][y] /\ net'[x][y][k] = nt[x][y][k]
             \/ x = n /\ net'[x][y][k] = m
  <2>1. nt[x][y] \in Seq(PacketsOK)
    BY DEF SafeNet
  <2>2. net'[x][y] = IF x = n /\ y \in D THEN Append(nt[x][y], m) ELSE nt[x][y]
    BY <1>1 DEF Sent
  <2> DEFINE q == nt[x][y]
  <2> HIDE DEF q
  <2>3. \A j \in DOMAIN Append(q, m) : (j \in DOMAIN q /\ Append(q, m)[j] = q[j])
                                       \/ Append(q, m)[j] = m
    BY <2>1 DEF q
  <2> QED
    BY <2>2, <2>3 DEF q
<1>2. ASSUME net[s][n] # <<>>, NEW i \in DOMAIN Taken(s, n)[x][y]
      PROVE  \E j \in DOMAIN net[x][y] : Taken(s, n)[x][y][i] = net[x][y][j]
  <2>1. Taken(s, n)[x][y] = IF x = s /\ y = n THEN Tail(net[s][n]) ELSE net[x][y]
    BY DEF Taken, NetInv, SafeNet
  <2>2. net[s][n] \in Seq(PacketsOK)
    BY DEF NetInv, SafeNet
  <2> DEFINE q == net[s][n]
  <2> HIDE DEF q
  <2>3. \A j \in DOMAIN Tail(q) : j + 1 \in DOMAIN q /\ Tail(q)[j] = q[j + 1]
    BY <1>2, <2>2 DEF q
  <2> QED
    BY <1>2, <2>1, <2>3 DEF q
<1>3. CASE net' = Sent(net, n, D, m)
  BY <1>1, <1>3 DEF NetInv
<1>4. CASE net[s][n] # <<>> /\ net' = Taken(s, n)
  BY <1>2, <1>4
<1>5. CASE net[s][n] # <<>> /\ net' = Sent(Taken(s, n), n, D, m)
  <2>1. Taken(s, n) \in SafeNet
    BY <1>5, TakenSafe
  <2> QED
    BY <1>1, <1>2, <1>5, <2>1
<1> QED
  BY <1>3, <1>4, <1>5 DEF Delivery

\* TRYs stay true as long as the children of full nodes stay.
LEMMA TryKept ==
  ASSUME NetInv, TryInv, NEW s \in Node, NEW n \in Node, NEW D \in SUBSET Node, NEW m,
         Delivery(s, n, D, m),
         m.type = "TRY" => n \in Full' /\ m = SerializeChildren(children'[n]),
         \A p \in Full : p \in Full' /\ children'[p] = children[p]
  PROVE  TryInv'
<1>0. NothingElse(n, m)
  BY OldPackets
<1> SUFFICES ASSUME NEW x \in Node, NEW y \in Node, NEW k \in DOMAIN net'[x][y],
                    net'[x][y][k].type = "TRY"
             PROVE  x \in Full' /\ net'[x][y][k] = SerializeChildren(children'[x])
  BY DEF TryInv
<1>1. \/ \E j \in DOMAIN net[x][y] : net'[x][y][k] = net[x][y][j]
      \/ x = n /\ net'[x][y][k] = m
  BY <1>0 DEF NothingElse
<1>2. CASE x = n /\ net'[x][y][k] = m
  BY <1>2
<1>3. ASSUME NEW j \in DOMAIN net[x][y], net'[x][y][k] = net[x][y][j]
      PROVE  x \in Full' /\ net'[x][y][k] = SerializeChildren(children'[x])
  <2>1. x \in Full /\ net[x][y][j] = SerializeChildren(children[x])
    BY <1>3 DEF TryInv
  <2> QED
    BY <1>3, <2>1
<1> QED
  BY <1>1, <1>2, <1>3

-------------------------------------------------------------------------------
(* How the relations hang together *)

RelationInv ==
  /\ Edges \in SUBSET (Node \X NonRoot)
  /\ Entries \in SUBSET (Node \X NonRoot)
  /\ Attaches \in SUBSET (NonRoot \X Node)
  /\ Tries \in SUBSET (Full \X NonRoot)
  /\ Candidates \subseteq Entries
  /\ Entries = Opens \cup Closed /\ Opens \cap Closed = {}
  /\ Pendings \subseteq Opens
  /\ Searching \subseteq NonRoot /\ Full \subseteq Node /\ Idle \subseteq Node

\* The stack and the set of a search hold slots of the table.
LEMMA StackSlots ==
  ASSUME IInv, NEW x \in Node
  PROVE  Range(possibleParentsStk[x]) \subseteq PingSlot /\ possibleParentsSet[x] \subseteq PingSlot
<1>1. possibleParentsStk[x] \in Seq(PingSlot) /\ possibleParentsSet[x] \subseteq PingSlot
  BY DEF IInv, SearchInv
<1>2. \A k \in DOMAIN possibleParentsStk[x] : possibleParentsStk[x][k] \in PingSlot
  BY <1>1, ElementOfSeq, LenProperties
<1> QED
  BY <1>1, <1>2 DEF Range

\* What IInv says of the root and what the table says of the other relations.
LEMMA Relations ==
  ASSUME IInv, DataInv, TryInv
  PROVE  RelationInv
<1>1. Edges \in SUBSET (Node \X NonRoot)
  <2>1. ASSUME NEW p \in Node, NEW n \in Node, Child(p, n)
        PROVE  n \in NonRoot
    <3>1. PICK j \in DOMAIN children[p] : children[p][j] = n
      BY <2>1 DEF Child, Range
    <3>2. children[p] \in Seq(NonRoot)
      BY DEF IInv, TreeInv
    <3> QED
      BY <3>1, <3>2, ElementOfSeq, LenProperties
  <2> QED
    BY <2>1 DEF Edges
<1>2. Entries \in SUBSET (Node \X NonRoot)
  BY NodeAssumption DEF Entries, IInv, PingInv
<1>3. ASSUME NEW s \in Node, NEW d \in Node, NEW k \in DOMAIN net[s][d]
      PROVE  /\ net[s][d][k].type = "ATTACH" => s \in NonRoot
             /\ net[s][d][k].type = "TRY" => d \in NonRoot
  <2>1. net[s][d] \in Seq(SafePackets(s, d))
    BY DEF IInv, NetInv, SafeNet
  <2>2. net[s][d][k] \in SafePackets(s, d)
    BY <2>1, ElementOfSeq, LenProperties
  <2> QED
    BY <2>2 DEF SafePackets, NonRoot
<1>4. Attaches \in SUBSET (NonRoot \X Node)
  BY <1>3 DEF Attaches, Packets, Has
<1>5. Tries \in SUBSET (Full \X NonRoot)
  BY <1>3 DEF Tries, Packets, Has, TryInv
<1>6. Entries = Opens \cup Closed /\ Opens \cap Closed = {}
  <2>1. Opens \cap Closed = {}
    BY DEF Opens, Closed, DataInv, TableInv
  <2> QED
    BY <2>1 DEF Entries, Opens, Closed
<1>7. Pendings \subseteq Opens
  BY DEF Pendings, Opens
<1>8. Searching \subseteq NonRoot /\ Full \subseteq Node /\ Idle \subseteq Node
  BY DEF Searching, Full, Idle, IInv, SearchInv, NonRoot
<1>9. Candidates \subseteq Entries
  BY StackSlots DEF Candidates, Entries
<1> QED
  BY <1>1, <1>2, <1>4, <1>5, <1>6, <1>7, <1>8, <1>9 DEF RelationInv

-------------------------------------------------------------------------------
(* One engagement at a time *)

\* What each engagement is about.
LEMMA Engages == \A p, n \in Node :
  /\ <<p, n>> \in Edges <=> <<"child", p, n>> \in Engagements
  /\ <<n, p>> \in Attaches <=> <<"attach", p, n>> \in Engagements
  /\ <<p, n>> \in Pendings <=> <<"ping", p, n>> \in Engagements
  /\ <<p, n>> \in Tries <=> <<"try", p, n>> \in Engagements
  /\ n \in Searching <=> <<"search", n, n>> \in Engagements
BY DEF Engagements, Engaged, Kind

\* Who has one engagement has no other.
LEMMA OneEngagement ==
  ASSUME Exclusive(Engagements), NEW n \in Node
  PROVE  /\ \A p, q \in Node : <<p, n>> \in Edges /\ <<q, n>> \in Edges => p = q
         /\ n \in Adoptees => /\ \A p \in Node : <<n, p>> \notin Attaches
                              /\ \A p \in Node : <<p, n>> \notin Pendings
                              /\ \A p \in Node : <<p, n>> \notin Tries
                              /\ n \notin Searching
         /\ n \in Searching => /\ \A p \in Node : <<n, p>> \notin Attaches
                               /\ \A p \in Node : <<p, n>> \notin Tries
         /\ \A p, q \in Node : <<n, p>> \in Attaches =>
              /\ <<n, q>> \in Attaches => p = q
              /\ <<q, n>> \notin Tries
         /\ \A p, q \in Node : <<p, n>> \in Tries /\ <<q, n>> \in Tries => p = q
<1> DEFINE Same(k, p, j, q) ==
      <<k, p, n>> \in Engagements /\ <<j, q, n>> \in Engagements => k = j /\ p = q
<1>1. \A k, p, j, q : Same(k, p, j, q)
  BY DEF Exclusive
<1>2. \A p, q \in Node : /\ Same("child", p, "child", q) /\ Same("child", p, "attach", q)
                         /\ Same("child", p, "ping", q) /\ Same("child", p, "try", q)
                         /\ Same("child", p, "search", n) /\ Same("search", n, "attach", q)
                         /\ Same("search", n, "try", q) /\ Same("attach", p, "attach", q)
                         /\ Same("attach", p, "try", q) /\ Same("try", p, "try", q)
  BY <1>1
<1>3. n \in Adoptees => \E p \in Node : <<p, n>> \in Edges
  BY DEF Adoptees
<1> QED
  BY <1>2, <1>3, Engages

\* An engagement that ends may be followed by another one of the same node.
LEMMA Succeeded ==
  ASSUME NEW E, NEW F, Exclusive(E), NEW k, NEW p, NEW j, NEW q, NEW n,
         <<k, p, n>> \in E,
         \A x \in F : (x \in E /\ x # <<k, p, n>>) \/ x = <<j, q, n>>
  PROVE  Exclusive(F)
<1> SUFFICES ASSUME NEW x \in F, NEW y \in F, x[3] = y[3]
             PROVE  x = y
  BY DEF Exclusive
<1>1. ASSUME NEW z \in E, z[3] = n
      PROVE  z = <<k, p, n>>
  BY <1>1 DEF Exclusive
<1>2. CASE x = <<j, q, n>> /\ y = <<j, q, n>>
  BY <1>2
<1>3. CASE x \in E /\ x # <<k, p, n>> /\ y = <<j, q, n>>
  BY <1>1, <1>3
<1>4. CASE x = <<j, q, n>> /\ y \in E /\ y # <<k, p, n>>
  BY <1>1, <1>4
<1>5. CASE x \in E /\ y \in E
  BY <1>5 DEF Exclusive
<1> QED
  BY <1>2, <1>3, <1>4, <1>5

-------------------------------------------------------------------------------
(* The place of a node, one kind of step after the other *)

\* Packets only get lost.
LEMMA GonePlace ==
  ASSUME PlaceInv, Idle' \subseteq Idle, Edges' = Edges, Attaches' \subseteq Attaches,
         Tries' \subseteq Tries, Entries' = Entries, Closed' = Closed,
         Pendings' = Pendings, Candidates' = Candidates, Searching' = Searching
  PROVE  PlaceInv'
<1>1. Engagements' \subseteq Engagements
  BY DEF Engagements, Engaged
<1>2. Exclusive(Engagements)'
  BY <1>1 DEF PlaceInv, Exclusive
<1>3. IdleInv'
  BY <1>1 DEF PlaceInv, IdleInv
<1>4. Adoptees' = Adoptees
  BY DEF Adoptees
<1>5. \A x, n : Approachable(x, n)' <=> Approachable(x, n)
  BY <1>4 DEF Approachable
<1>6. SeekInv'
  BY <1>4, <1>5 DEF PlaceInv, SeekInv
<1> QED
  BY <1>2, <1>3, <1>6 DEF PlaceInv

\* n starts and asks the root for a place: nobody knew it.
LEMMA StartPlace ==
  ASSUME RelationInv, PlaceInv, NEW n \in NonRoot, n \in Idle,
         Idle' = Idle \ {n}, Attaches' = Attaches \cup {<<n, Root>>},
         Edges' = Edges, Tries' = Tries, Entries' = Entries, Closed' = Closed,
         Pendings' = Pendings, Candidates' = Candidates, Searching' = Searching
  PROVE  PlaceInv'
<1> DEFINE new == <<"attach", Root, n>>
<1>1. \A x \in Engagements' : x \in Engagements \/ x = new
  BY DEF Engagements, Engaged
<1>2. \A x \in Engagements : x[3] # n
  BY DEF PlaceInv, IdleInv
<1>3. Exclusive(Engagements)'
  BY <1>1, <1>2 DEF PlaceInv, Exclusive
<1>4. IdleInv'
  BY <1>1 DEF PlaceInv, IdleInv
<1>5. Adoptees' = Adoptees
  BY DEF Adoptees
<1>6. \A x, m : Approachable(x, m)' <=> Approachable(x, m)
  BY <1>5 DEF Approachable
<1>7. Approachable(Root, n) /\ <<Root, n>> \notin Entries /\ <<n, Root>> \notin Candidates
  BY NodeAssumption DEF Approachable, RelationInv, NonRoot, PlaceInv, IdleInv
<1>8. SeekInv'
  BY <1>5, <1>6, <1>7 DEF PlaceInv, SeekInv
<1> QED
  BY <1>3, <1>4, <1>8 DEF PlaceInv

\* n pings s, who asked it for a place.
LEMMA AskedPlace ==
  ASSUME RelationInv, PlaceInv, NEW s \in NonRoot, NEW n \in Node, <<s, n>> \in Attaches,
         Attaches' = Attaches \ {<<s, n>>}, Entries' = Entries \cup {<<n, s>>},
         Pendings' = Pendings \cup {<<n, s>>},
         Idle' = Idle, Edges' = Edges, Tries' = Tries, Closed' = Closed,
         Candidates' = Candidates, Searching' = Searching
  PROVE  PlaceInv'
<1> DEFINE old == <<"attach", n, s>>
           new == <<"ping", n, s>>
<1>0. s \in Node
  BY DEF NonRoot
<1>1. old \in Engagements
  BY <1>0, Engages
<1>2. \A x \in Engagements' : (x \in Engagements /\ x # old) \/ x = new
  BY DEF Engagements, Engaged
<1>3. Exclusive(Engagements)'
  <2> DEFINE F == Engagements'
  <2>1. \A x \in F : (x \in Engagements /\ x # old) \/ x = new
    BY <1>2
  <2> HIDE DEF F
  <2>2. Exclusive(F)
    BY <1>1, <2>1, Succeeded DEF PlaceInv
  <2> QED
    BY <2>2 DEF F, Exclusive
<1>4. s \notin Idle
  BY <1>1 DEF PlaceInv, IdleInv
<1>5. IdleInv'
  BY <1>2, <1>4 DEF PlaceInv, IdleInv
<1>6. /\ s \notin Adoptees /\ s \notin Searching
      /\ \A x \in Node : <<s, x>> \in Attaches => x = n
      /\ \A x \in Node : <<x, s>> \notin Tries
  BY <1>0, OneEngagement DEF PlaceInv
<1>7. Approachable(n, s) /\ <<s, n>> \notin Candidates
  BY <1>6 DEF PlaceInv, SeekInv
<1>8. Adoptees' = Adoptees
  BY DEF Adoptees
<1>9. \A x, m : Approachable(x, m)' <=> Approachable(x, m)
  BY <1>8 DEF Approachable
<1>10. SeekInv'
  <2> SUFFICES ASSUME NEW m \in NonRoot, m \notin Adoptees
               PROVE  /\ \A h \in Node : <<m, h>> \in Entries' =>
                           \E q \in Node : <<q, h>> \in Edges /\ <<q, m>> \in Closed
                      /\ \A x \in Node : <<x, m>> \in Entries' => Approachable(x, m)
                      /\ \A x \in Node : <<m, x>> \in Attaches' =>
                           Approachable(x, m) /\ <<x, m>> \notin Entries'
                           /\ <<m, x>> \notin Candidates
                      /\ \A x \in Node : <<x, m>> \in Tries =>
                           /\ <<x, m>> \in Closed
                           /\ \A h \in Node : <<x, h>> \in Edges =>
                                <<m, h>> \notin Entries' /\ <<h, m>> \notin Entries'
                      /\ \A h \in Node : <<m, h>> \in Candidates => <<h, m>> \notin Entries'
    BY <1>8, <1>9 DEF SeekInv
  <2>1. m # n
    BY <1>7 DEF Approachable, NonRoot
  <2>2. \A h \in Node : <<m, h>> \in Entries' <=> <<m, h>> \in Entries
    BY <2>1
  <2>3. \A x \in Node : <<x, m>> \in Entries' <=> <<x, m>> \in Entries \/ (x = n /\ m = s)
    OBVIOUS
  <2>4. \A x \in Node : <<x, m>> \in Tries => m # s
    BY <1>6
  <2>5. \A h \in Node : <<m, h>> \in Candidates => ~(h = n /\ m = s)
    BY <1>7
  <2>6. \A x \in Node : <<m, x>> \in Attaches' => <<m, x>> \in Attaches /\ m # s
    BY <1>6
  <2> QED
    BY <1>7, <2>2, <2>3, <2>4, <2>5, <2>6 DEF PlaceInv, SeekInv
<1> QED
  BY <1>3, <1>5, <1>10 DEF PlaceInv

\* n pings the children of s, who refused it.
LEMMA ListedPlace ==
  ASSUME RelationInv, PlaceInv, NEW n \in NonRoot, NEW s \in Node, <<s, n>> \in Tries,
         NEW H, H = {h \in Node : <<s, h>> \in Edges},
         Tries' = Tries \ {<<s, n>>}, Entries' = Entries \cup ({n} \X H),
         Candidates' = Candidates \cup ({n} \X H), Searching' = Searching \cup {n},
         Idle' = Idle, Edges' = Edges, Attaches' = Attaches, Closed' = Closed,
         Pendings' = Pendings
  PROVE  PlaceInv'
<1> DEFINE old == <<"try", s, n>>
           new == <<"search", n, n>>
<1>0. n \in Node
  BY DEF NonRoot
<1>1. old \in Engagements
  BY <1>0, Engages
<1>2. \A x \in Engagements' : (x \in Engagements /\ x # old) \/ x = new
  <2> SUFFICES ASSUME NEW x \in Engagements' PROVE (x \in Engagements /\ x # old) \/ x = new
    OBVIOUS
  <2>1. x = <<x[1], x[2], x[3]>>
    BY DEF Engagements, Engaged
  <2> QED
    BY <2>1 DEF Engagements, Engaged
<1>3. Exclusive(Engagements)'
  <2> DEFINE F == Engagements'
  <2>1. \A x \in F : (x \in Engagements /\ x # old) \/ x = new
    BY <1>2
  <2> HIDE DEF F
  <2>2. Exclusive(F)
    BY <1>1, <2>1, Succeeded DEF PlaceInv
  <2> QED
    BY <2>2 DEF F, Exclusive
<1>4. \A h \in H : h \in Adoptees /\ h \notin Idle
  <2> TAKE h \in H
  <2>1. h \in Node /\ <<s, h>> \in Edges
    OBVIOUS
  <2>2. <<"child", s, h>> \in Engagements
    BY <2>1, Engages
  <2> QED
    BY <2>1, <2>2 DEF Adoptees, PlaceInv, IdleInv
<1>5. n \notin Idle
  BY <1>1 DEF PlaceInv, IdleInv
<1>6. IdleInv'
  <2> SUFFICES ASSUME NEW m \in Idle
               PROVE  /\ \A p \in Node : <<p, m>> \notin Entries'
                      /\ \A x \in Engagements' : x[3] # m
    BY DEF IdleInv
  <2>1. \A p \in Node : <<p, m>> \notin Entries'
    BY <1>4 DEF PlaceInv, IdleInv
  <2>2. \A x \in Engagements' : x[3] # m
    BY <1>2, <1>5 DEF PlaceInv, IdleInv
  <2> QED
    BY <2>1, <2>2
<1>7. /\ n \notin Adoptees
      /\ \A x \in Node : <<x, n>> \in Tries => x = s
      /\ \A x \in Node : <<n, x>> \notin Attaches
  BY <1>0, OneEngagement DEF PlaceInv
<1>8. /\ <<s, n>> \in Closed
      /\ \A h \in H : <<n, h>> \notin Entries /\ <<h, n>> \notin Entries
  BY <1>7 DEF PlaceInv, SeekInv
<1>9. Adoptees' = Adoptees
  BY DEF Adoptees
<1>10. \A x, m : Approachable(x, m)' <=> Approachable(x, m)
  BY <1>9 DEF Approachable
<1>11. SeekInv'
  <2> SUFFICES ASSUME NEW m \in NonRoot, m \notin Adoptees'
               PROVE  /\ \A h \in Node : <<m, h>> \in Entries' =>
                           \E q \in Node : <<q, h>> \in Edges' /\ <<q, m>> \in Closed'
                      /\ \A x \in Node : <<x, m>> \in Entries' => Approachable(x, m)'
                      /\ \A x \in Node : <<m, x>> \in Attaches' =>
                           Approachable(x, m)' /\ <<x, m>> \notin Entries'
                           /\ <<m, x>> \notin Candidates'
                      /\ \A x \in Node : <<x, m>> \in Tries' =>
                           /\ <<x, m>> \in Closed'
                           /\ \A h \in Node : <<x, h>> \in Edges' =>
                                <<m, h>> \notin Entries' /\ <<h, m>> \notin Entries'
                      /\ \A h \in Node : <<m, h>> \in Candidates' => <<h, m>> \notin Entries'
    BY DEF SeekInv
  <2>0. m \notin Adoptees
    BY <1>9
  <2>1. \A x \in Node : <<x, m>> \in Entries' <=> <<x, m>> \in Entries
    BY <1>4, <2>0
  <2>2. \A h \in Node : <<m, h>> \in Entries' <=> <<m, h>> \in Entries \/ (m = n /\ h \in H)
    OBVIOUS
  <2>3. \A x \in Node : <<x, m>> \in Tries' => <<x, m>> \in Tries /\ m # n
    BY <1>7
  <2>4. \A h \in Node : <<m, h>> \in Candidates' =>
          <<m, h>> \in Candidates \/ (m = n /\ h \in H)
    OBVIOUS
  <2>5. \A h \in H : h \in Node /\ <<s, h>> \in Edges
    OBVIOUS
  <2>6. \A x \in Node : <<m, x>> \in Attaches => <<m, x>> \notin Candidates'
    BY <1>7, <2>0, <2>4 DEF PlaceInv, SeekInv
  <2> QED
    BY <1>7, <1>8, <1>10, <2>0, <2>1, <2>2, <2>3, <2>4, <2>5, <2>6 DEF PlaceInv, SeekInv
<1> QED
  BY <1>3, <1>6, <1>11 DEF PlaceInv

\* An answer that a search waited for, not the last one.
LEMMA AnsweredPlace ==
  ASSUME PlaceInv, Closed \subseteq Closed', Idle' = Idle, Edges' = Edges,
         Attaches' = Attaches, Tries' = Tries, Entries' = Entries, Pendings' = Pendings,
         Candidates' = Candidates, Searching' = Searching
  PROVE  PlaceInv'
<1>1. Engagements' = Engagements
  BY DEF Engagements, Engaged
<1>2. Adoptees' = Adoptees
  BY DEF Adoptees
<1>3. \A x, m : Approachable(x, m) => Approachable(x, m)'
  BY <1>2 DEF Approachable
<1>4. Exclusive(Engagements)' /\ IdleInv'
  BY <1>1 DEF PlaceInv, IdleInv, Exclusive
<1>5. SeekInv'
  BY <1>2, <1>3 DEF PlaceInv, SeekInv
<1> QED
  BY <1>4, <1>5 DEF PlaceInv

\* The last answer: n asks the candidate c for a place.
LEMMA ChosenPlace ==
  ASSUME RelationInv, PlaceInv, NEW n \in Searching, NEW c \in Node,
         <<n, c>> \in Candidates, <<n, c>> \notin Candidates',
         Attaches' = Attaches \cup {<<n, c>>}, Searching' = Searching \ {n},
         Candidates' \subseteq Candidates, Closed \subseteq Closed', Idle' = Idle,
         Edges' = Edges, Tries' = Tries, Entries' = Entries, Pendings' = Pendings
  PROVE  PlaceInv'
<1> DEFINE old == <<"search", n, n>>
           new == <<"attach", c, n>>
<1>1. n \in Node /\ n \in Searching /\ n \in NonRoot /\ <<n, c>> \in Entries
  BY DEF RelationInv, Searching
<1>2. old \in Engagements
  BY <1>1, Engages
<1>3. \A x \in Engagements' : (x \in Engagements /\ x # old) \/ x = new
  <2> SUFFICES ASSUME NEW x \in Engagements' PROVE (x \in Engagements /\ x # old) \/ x = new
    OBVIOUS
  <2>1. x = <<x[1], x[2], x[3]>>
    BY DEF Engagements, Engaged
  <2> QED
    BY <2>1 DEF Engagements, Engaged
<1>4. Exclusive(Engagements)'
  <2> DEFINE F == Engagements'
  <2>1. \A x \in F : (x \in Engagements /\ x # old) \/ x = new
    BY <1>3
  <2> HIDE DEF F
  <2>2. Exclusive(F)
    BY <1>2, <2>1, Succeeded DEF PlaceInv
  <2> QED
    BY <2>2 DEF F, Exclusive
<1>5. n \notin Idle
  BY <1>2 DEF PlaceInv, IdleInv
<1>6. IdleInv'
  BY <1>3, <1>5 DEF PlaceInv, IdleInv
<1>7. n \notin Adoptees
  BY <1>1, OneEngagement DEF PlaceInv
<1>8. Approachable(c, n) /\ <<c, n>> \notin Entries
  <2>1. PICK q \in Node : <<q, c>> \in Edges /\ <<q, n>> \in Closed
    BY <1>1, <1>7 DEF PlaceInv, SeekInv
  <2>2. \A p \in Node : <<p, c>> \in Edges => p = q
    BY <2>1, OneEngagement DEF PlaceInv
  <2>3. c \in Adoptees
    BY <2>1 DEF Adoptees
  <2> QED
    BY <1>1, <1>7, <2>1, <2>2, <2>3 DEF Approachable, PlaceInv, SeekInv
<1>9. Adoptees' = Adoptees
  BY DEF Adoptees
<1>10. \A x, m : Approachable(x, m) => Approachable(x, m)'
  BY <1>9 DEF Approachable
<1>11. SeekInv'
  <2> SUFFICES ASSUME NEW m \in NonRoot, m \notin Adoptees
               PROVE  /\ \A h \in Node : <<m, h>> \in Entries =>
                           \E q \in Node : <<q, h>> \in Edges /\ <<q, m>> \in Closed'
                      /\ \A x \in Node : <<x, m>> \in Entries => Approachable(x, m)
                      /\ \A x \in Node : <<m, x>> \in Attaches' =>
                           Approachable(x, m) /\ <<x, m>> \notin Entries
                           /\ <<m, x>> \notin Candidates'
                      /\ \A x \in Node : <<x, m>> \in Tries =>
                           /\ <<x, m>> \in Closed'
                           /\ \A h \in Node : <<x, h>> \in Edges =>
                                <<m, h>> \notin Entries /\ <<h, m>> \notin Entries
                      /\ \A h \in Node : <<m, h>> \in Candidates' => <<h, m>> \notin Entries
    BY <1>9, <1>10 DEF SeekInv
  <2>1. \A x \in Node : <<m, x>> \in Attaches' => <<m, x>> \in Attaches \/ (m = n /\ x = c)
    OBVIOUS
  <2> QED
    BY <1>8, <2>1 DEF PlaceInv, SeekInv
<1> QED
  BY <1>4, <1>6, <1>11 DEF PlaceInv

\* n adopts s, who has answered its ping.
LEMMA AdoptedPlace ==
  ASSUME RelationInv, PlaceInv, NEW s \in NonRoot, NEW n \in Node, <<n, s>> \in Pendings,
         n \notin Full,
         Pendings' = Pendings \ {<<n, s>>}, Edges' = Edges \cup {<<n, s>>},
         Closed \subseteq Closed', Idle' = Idle, Attaches' = Attaches, Tries' = Tries,
         Entries' = Entries, Candidates' = Candidates, Searching' = Searching
  PROVE  PlaceInv'
<1> DEFINE old == <<"ping", n, s>>
           new == <<"child", n, s>>
<1>0. s \in Node
  BY DEF NonRoot
<1>1. old \in Engagements
  BY <1>0, Engages
<1>2. \A x \in Engagements' : (x \in Engagements /\ x # old) \/ x = new
  <2> SUFFICES ASSUME NEW x \in Engagements' PROVE (x \in Engagements /\ x # old) \/ x = new
    OBVIOUS
  <2>1. x = <<x[1], x[2], x[3]>>
    BY DEF Engagements, Engaged
  <2> QED
    BY <2>1 DEF Engagements, Engaged
<1>3. Exclusive(Engagements)'
  <2> DEFINE F == Engagements'
  <2>1. \A x \in F : (x \in Engagements /\ x # old) \/ x = new
    BY <1>2
  <2> HIDE DEF F
  <2>2. Exclusive(F)
    BY <1>1, <2>1, Succeeded DEF PlaceInv
  <2> QED
    BY <2>2 DEF F, Exclusive
<1>4. s \notin Idle
  BY <1>1 DEF PlaceInv, IdleInv
<1>5. IdleInv'
  BY <1>2, <1>4 DEF PlaceInv, IdleInv
<1>6. s \notin Adoptees
  BY <1>0, OneEngagement DEF PlaceInv
<1>7. \A x \in Node : x \in Adoptees' <=> x \in Adoptees \/ x = s
  BY <1>0 DEF Adoptees
<1>8. SeekInv'
  <2> SUFFICES ASSUME NEW m \in NonRoot, m \notin Adoptees'
               PROVE  /\ \A h \in Node : <<m, h>> \in Entries =>
                           \E q \in Node : <<q, h>> \in Edges' /\ <<q, m>> \in Closed'
                      /\ \A x \in Node : <<x, m>> \in Entries => Approachable(x, m)'
                      /\ \A x \in Node : <<m, x>> \in Attaches =>
                           Approachable(x, m)' /\ <<x, m>> \notin Entries
                           /\ <<m, x>> \notin Candidates
                      /\ \A x \in Node : <<x, m>> \in Tries =>
                           /\ <<x, m>> \in Closed'
                           /\ \A h \in Node : <<x, h>> \in Edges' =>
                                <<m, h>> \notin Entries /\ <<h, m>> \notin Entries
                      /\ \A h \in Node : <<m, h>> \in Candidates => <<h, m>> \notin Entries
    BY DEF SeekInv
  <2>0. m \in Node /\ m \notin Adoptees
    BY <1>7 DEF NonRoot
  <2>1. \A x \in Node : Approachable(x, m) => Approachable(x, m)'
    <3> SUFFICES ASSUME NEW x \in Node, Approachable(x, m)
                 PROVE  Approachable(x, m)'
      OBVIOUS
    <3>1. x # s
      BY <1>6 DEF Approachable, NonRoot
    <3> QED
      BY <1>7, <3>1 DEF Approachable
  <2>2. \A x \in Node : <<x, m>> \in Tries => x # n
    BY DEF RelationInv
  <2>3. \A x, h \in Node : <<x, h>> \in Edges' => <<x, h>> \in Edges \/ x = n
    OBVIOUS
  <2> QED
    BY <2>0, <2>1, <2>2, <2>3 DEF PlaceInv, SeekInv
<1> QED
  BY <1>3, <1>5, <1>8 DEF PlaceInv

\* n, who has all the children it may have, refuses s, who has answered its ping.
LEMMA RefusedPlace ==
  ASSUME RelationInv, PlaceInv, NEW s \in NonRoot, NEW n \in Node, <<n, s>> \in Pendings,
         Pendings' = Pendings \ {<<n, s>>}, Tries' = Tries \cup {<<n, s>>},
         Closed' = Closed \cup {<<n, s>>}, Idle' = Idle, Attaches' = Attaches,
         Edges' = Edges, Entries' = Entries, Candidates' = Candidates, Searching' = Searching
  PROVE  PlaceInv'
<1> DEFINE old == <<"ping", n, s>>
           new == <<"try", n, s>>
<1>0. s \in Node
  BY DEF NonRoot
<1>1. old \in Engagements
  BY <1>0, Engages
<1>2. \A x \in Engagements' : (x \in Engagements /\ x # old) \/ x = new
  <2> SUFFICES ASSUME NEW x \in Engagements' PROVE (x \in Engagements /\ x # old) \/ x = new
    OBVIOUS
  <2>1. x = <<x[1], x[2], x[3]>>
    BY DEF Engagements, Engaged
  <2> QED
    BY <2>1 DEF Engagements, Engaged
<1>3. Exclusive(Engagements)'
  <2> DEFINE F == Engagements'
  <2>1. \A x \in F : (x \in Engagements /\ x # old) \/ x = new
    BY <1>2
  <2> HIDE DEF F
  <2>2. Exclusive(F)
    BY <1>1, <2>1, Succeeded DEF PlaceInv
  <2> QED
    BY <2>2 DEF F, Exclusive
<1>4. s \notin Idle
  BY <1>1 DEF PlaceInv, IdleInv
<1>5. IdleInv'
  BY <1>2, <1>4 DEF PlaceInv, IdleInv
<1>6. s \notin Adoptees
  BY <1>0, OneEngagement DEF PlaceInv
<1>7. <<n, s>> \notin Closed
  BY DEF RelationInv
<1>8. ASSUME NEW h \in Node, <<n, h>> \in Edges
      PROVE  <<s, h>> \notin Entries /\ <<h, s>> \notin Entries
  <2>1. \A q \in Node : <<q, h>> \in Edges => q = n
    BY <1>8, OneEngagement DEF PlaceInv
  <2>2. <<s, h>> \notin Entries
    BY <1>6, <1>7, <2>1 DEF PlaceInv, SeekInv
  <2>3. <<h, s>> \in Entries => Approachable(h, s)
    BY <1>6 DEF PlaceInv, SeekInv
  <2> QED
    BY <1>7, <1>8, <2>2, <2>3 DEF Approachable
<1>9. Adoptees' = Adoptees
  BY DEF Adoptees
<1>10. \A x, m : Approachable(x, m) => Approachable(x, m)'
  BY <1>9 DEF Approachable
<1>11. SeekInv'
  <2> SUFFICES ASSUME NEW m \in NonRoot, m \notin Adoptees
               PROVE  /\ \A h \in Node : <<m, h>> \in Entries =>
                           \E q \in Node : <<q, h>> \in Edges /\ <<q, m>> \in Closed'
                      /\ \A x \in Node : <<x, m>> \in Entries => Approachable(x, m)
                      /\ \A x \in Node : <<m, x>> \in Attaches =>
                           Approachable(x, m) /\ <<x, m>> \notin Entries
                           /\ <<m, x>> \notin Candidates
                      /\ \A x \in Node : <<x, m>> \in Tries' =>
                           /\ <<x, m>> \in Closed'
                           /\ \A h \in Node : <<x, h>> \in Edges =>
                                <<m, h>> \notin Entries /\ <<h, m>> \notin Entries
                      /\ \A h \in Node : <<m, h>> \in Candidates => <<h, m>> \notin Entries
    BY <1>9, <1>10 DEF SeekInv
  <2>1. \A x \in Node : <<x, m>> \in Tries' => <<x, m>> \in Tries \/ (x = n /\ m = s)
    OBVIOUS
  <2> QED
    BY <1>8, <2>1 DEF PlaceInv, SeekInv
<1> QED
  BY <1>3, <1>5, <1>11 DEF PlaceInv

-------------------------------------------------------------------------------
(* The table of pings *)

\* What the ring index makes of a number next to the range of the slots.
LEMMA RingIndex ==
  ASSUME NEW k \in Int
  PROVE  /\ 0 <= k /\ k < MAX_PINGS => k % MAX_PINGS = k
         /\ k < 0 /\ -MAX_PINGS <= k => k % MAX_PINGS = k + MAX_PINGS
<1>1. MAX_PINGS \in Nat /\ MAX_PINGS >= 1
  BY Sizes
<1> DEFINE M == MAX_PINGS
<1> HIDE DEF M
<1>2. \A x \in Int : x % M \in 0..(M - 1) /\ x = M * (x \div M) + (x % M) /\ x \div M \in Int
  BY <1>1 DEF M
<1>3. PICK q \in Int, r \in 0..(M - 1) : k = M * q + r /\ r = k % M
  BY <1>2
<1>4. q >= 1 => M * q >= M
  BY <1>1 DEF M
<1>5. q <= -1 => M * q <= -M
  BY <1>1 DEF M
<1>6. q <= -2 => M * q <= -M - M
  BY <1>1 DEF M
<1>7. /\ q = 0 => M * q = 0
      /\ q = -1 => M * q = -M
  BY <1>1 DEF M
<1>8. M * q \in Int
  BY <1>1 DEF M
<1>9. 0 <= k /\ k < M => q = 0
  BY <1>1, <1>3, <1>4, <1>5, <1>8 DEF M
<1>10. k < 0 /\ -M <= k => q = -1
  BY <1>1, <1>3, <1>4, <1>6, <1>7, <1>8 DEF M
<1> QED
  BY <1>1, <1>3, <1>7, <1>9, <1>10 DEF M

\* Hosts that n has not pinged yet, none of them twice.
Newcomers(n, hosts) ==
  /\ hosts \in Seq(NonRoot)
  /\ \A i, j \in DOMAIN hosts : hosts[i] = hosts[j] => i = j
  /\ \A j \in DOMAIN hosts : <<n, hosts[j]>> \notin Entries

\* The table has a slot for everybody, so it has room for newcomers.
LEMMA RoomInTable ==
  ASSUME SmallOverlay, IInv, TableInv, NEW n \in Node, NEW hosts, Newcomers(n, hosts)
  PROVE  /\ numPings[n] \in Nat /\ Len(hosts) \in Nat
         /\ numPings[n] + Len(hosts) < MAX_PINGS
<1> DEFINE used == numPings[n]
           len  == Len(hosts)
           S    == 0..(used + len - 1)
           f    == [i \in S |-> IF i < used THEN pings[n][i] ELSE hosts[i - used + 1]]
<1>1. used \in Nat /\ used < MAX_PINGS /\ MAX_PINGS \in Nat
  BY Sizes DEF IInv, PingInv, PingSlot
<1>2. hosts \in Seq(NonRoot) /\ len \in Nat /\ DOMAIN hosts = 1..len
  BY LenProperties DEF Newcomers
<1> HIDE DEF used, len
<1>3. \A i \in S : /\ i \in Int
                   /\ i < used => i \in PingSlot
                   /\ ~(i < used) => i - used + 1 \in DOMAIN hosts
  BY <1>1, <1>2 DEF PingSlot
<1>4. \A i \in PingSlot : i < used => pings[n][i] \in NonRoot
  BY NodeAssumption DEF TableInv, IInv, PingInv, used
<1>5. \A j \in DOMAIN hosts : hosts[j] \in NonRoot
  BY <1>2, ElementOfSeq
<1>6. f \in [S -> NonRoot]
  BY <1>3, <1>4, <1>5
<1>7. ASSUME NEW i \in S, NEW j \in S, f[i] = f[j]
      PROVE  i = j
  <2>1. CASE i < used /\ j < used
    <3>1. pings[n][i] = pings[n][j] /\ i \in PingSlot /\ j \in PingSlot
      BY <1>3, <1>7, <2>1
    <3>2. pings[n][i] \in Node
      BY <1>4, <2>1, <3>1 DEF NonRoot
    <3> QED
      BY <3>1, <3>2 DEF TableInv
  <2>2. CASE ~(i < used) /\ ~(j < used)
    <3>1. i - used + 1 \in DOMAIN hosts /\ j - used + 1 \in DOMAIN hosts
      BY <1>3, <2>2
    <3>2. hosts[i - used + 1] = hosts[j - used + 1]
      BY <1>7, <2>2
    <3>3. i - used + 1 = j - used + 1
      BY <3>1, <3>2 DEF Newcomers
    <3> QED
      BY <1>1, <1>3, <3>3
  <2>3. ASSUME NEW x \in S, NEW y \in S, x < used, ~(y < used), f[x] = f[y]
        PROVE  FALSE
    <3>1. x \in PingSlot /\ y - used + 1 \in DOMAIN hosts
      BY <1>3, <2>3
    <3>2. pings[n][x] = hosts[y - used + 1]
      BY <2>3
    <3>3. <<n, hosts[y - used + 1]>> \in Entries
      BY <1>5, <3>1, <3>2 DEF Entries, NonRoot
    <3> QED
      BY <3>1, <3>3 DEF Newcomers
  <2> QED
    BY <1>7, <2>1, <2>2, <2>3
<1>8. IsFiniteSet(NonRoot) /\ Cardinality(NonRoot) = Cardinality(Node) - 1
  BY NodeAssumption, FS_RemoveElement DEF SmallOverlay, NonRoot
<1> HIDE DEF f
<1>9. f \in Injection(S, NonRoot)
  BY <1>6, <1>7 DEF Injection, IsInjective
<1>10. Cardinality(S) <= Cardinality(NonRoot)
  <2> HIDE DEF S
  <2> QED
    BY <1>8, <1>9, FS_Injection
<1>11. Cardinality(S) = used + len
  <2>1. used + len - 1 \in Int
    BY <1>1, <1>2
  <2>2. Cardinality(S) = IF 0 > used + len - 1 THEN 0 ELSE (used + len - 1) - 0 + 1
    BY <2>1, FS_Interval
  <2> QED
    BY <1>1, <1>2, <2>2
<1>12. Cardinality(Node) \in Nat /\ Cardinality(Node) <= MAX_PINGS
  BY FS_CardinalityType DEF SmallOverlay
<1>13. used + len < MAX_PINGS
  BY <1>1, <1>2, <1>8, <1>10, <1>11, <1>12
<1> QED
  BY <1>1, <1>2, <1>13 DEF used, len

\* The slots that the pings to newcomers take.
LEMMA PingedTable ==
  ASSUME SmallOverlay, IInv, TableInv, NEW n \in Node, NEW hosts, Newcomers(n, hosts),
         SendPings(n, hosts)
  PROVE  /\ numPings'[n] = numPings[n] + Len(hosts)
         /\ \A x \in Node : x # n =>
              /\ numPings'[x] = numPings[x]
              /\ pings'[x] = pings[x] /\ pingTime'[x] = pingTime[x]
         /\ \A i \in PingSlot :
              IF numPings[n] <= i /\ i < numPings[n] + Len(hosts)
              THEN /\ i - numPings[n] + 1 \in DOMAIN hosts
                   /\ pings'[n][i] = hosts[i - numPings[n] + 1]
                   /\ pingTime'[n][i] = NotAnswered
              ELSE pings'[n][i] = pings[n][i] /\ pingTime'[n][i] = pingTime[n][i]
<1> DEFINE used == numPings[n]
           len  == Len(hosts)
           turn(i) == 1 + ((i - used) % MAX_PINGS)
<1>1. /\ used \in Nat /\ len \in Nat /\ used + len < MAX_PINGS /\ MAX_PINGS \in Nat
      /\ DOMAIN hosts = 1..len
  BY RoomInTable, Sizes, LenProperties DEF Newcomers
<1>2. /\ pings' = [pings EXCEPT ![n] = [i \in PingSlot |->
                     IF turn(i) <= len THEN hosts[turn(i)] ELSE pings[n][i]]]
      /\ pingTime' = [pingTime EXCEPT ![n] = [i \in PingSlot |->
                     IF turn(i) <= len THEN NotAnswered ELSE pingTime[n][i]]]
      /\ numPings' = [numPings EXCEPT ![n] = (used + len) % MAX_PINGS]
  BY DEF SendPings
<1> HIDE DEF used, len
<1>3. ASSUME NEW i \in PingSlot
      PROVE  IF used <= i /\ i < used + len
             THEN turn(i) = i - used + 1 /\ turn(i) <= len
             ELSE ~(turn(i) <= len)
  <2>1. i \in Int /\ 0 <= i /\ i < MAX_PINGS /\ i - used \in Int
    BY <1>1 DEF PingSlot
  <2> DEFINE k == i - used
  <2>2. k \in Int
    BY <2>1
  <2>3. CASE used <= i
    <3>1. 0 <= k /\ k < MAX_PINGS
      BY <1>1, <2>1, <2>3
    <3> HIDE DEF k
    <3>2. k % MAX_PINGS = k
      BY <2>2, <3>1, RingIndex
    <3> QED
      BY <1>1, <2>1, <2>3, <3>2 DEF k
  <2>4. CASE ~(used <= i)
    <3>1. k < 0 /\ -MAX_PINGS <= k
      BY <1>1, <2>1, <2>4
    <3> HIDE DEF k
    <3>2. k % MAX_PINGS = k + MAX_PINGS
      BY <2>2, <3>1, RingIndex
    <3> QED
      BY <1>1, <2>1, <2>4, <3>2 DEF k
  <2> QED
    BY <2>3, <2>4
<1>4. (used + len) % MAX_PINGS = used + len
  <2>1. used + len \in Int /\ 0 <= used + len
    BY <1>1
  <2> QED
    BY <1>1, <2>1, RingIndex
<1> HIDE DEF turn
<1>5. numPings'[n] = used + len /\ \A x \in Node : x # n => numPings'[x] = numPings[x]
  BY <1>2, <1>4 DEF IInv, PingInv
<1>6. \A x \in Node : x # n => pings'[x] = pings[x] /\ pingTime'[x] = pingTime[x]
  BY <1>2 DEF IInv, PingInv
<1>7. ASSUME NEW i \in PingSlot
      PROVE  IF used <= i /\ i < used + len
             THEN /\ i - used + 1 \in DOMAIN hosts
                  /\ pings'[n][i] = hosts[i - used + 1]
                  /\ pingTime'[n][i] = NotAnswered
             ELSE pings'[n][i] = pings[n][i] /\ pingTime'[n][i] = pingTime[n][i]
  <2>1. /\ pings'[n][i] = IF turn(i) <= len THEN hosts[turn(i)] ELSE pings[n][i]
        /\ pingTime'[n][i] = IF turn(i) <= len THEN NotAnswered ELSE pingTime[n][i]
    BY <1>2 DEF IInv, PingInv
  <2>2. used <= i /\ i < used + len => i - used + 1 \in DOMAIN hosts
    BY <1>1 DEF PingSlot
  <2> QED
    BY <1>3, <2>1, <2>2
<1> QED
  BY <1>5, <1>6, <1>7 DEF used, len

\* Whoever was in the table stays where it is, and the newcomers join it.
LEMMA PingedRelations ==
  ASSUME SmallOverlay, IInv, TableInv, NEW n \in Node, NEW hosts, Newcomers(n, hosts),
         SendPings(n, hosts)
  PROVE  /\ TableInv'
         /\ Entries' = Entries \cup ({n} \X Range(hosts))
         /\ Opens' = Opens \cup ({n} \X Range(hosts))
         /\ Closed' = Closed
         /\ \A x \in Node, i \in PingSlot : pings[x][i] \in Node =>
              pings'[x][i] = pings[x][i] /\ pingTime'[x][i] = pingTime[x][i]
<1> DEFINE used == numPings[n]
           len  == Len(hosts)
           New(i) == used <= i /\ i < used + len
<1>1. /\ numPings'[n] = used + len
      /\ \A x \in Node : x # n =>
           /\ numPings'[x] = numPings[x]
           /\ pings'[x] = pings[x] /\ pingTime'[x] = pingTime[x]
      /\ \A i \in PingSlot :
           IF New(i)
           THEN /\ i - used + 1 \in DOMAIN hosts
                /\ pings'[n][i] = hosts[i - used + 1]
                /\ pingTime'[n][i] = NotAnswered
           ELSE pings'[n][i] = pings[n][i] /\ pingTime'[n][i] = pingTime[n][i]
  BY PingedTable
<1>2. used \in Nat /\ len \in Nat /\ used + len < MAX_PINGS /\ DOMAIN hosts = 1..len
  BY RoomInTable, LenProperties DEF Newcomers
<1> HIDE DEF used, len
<1>3. \A i \in PingSlot : i \in Nat
  BY DEF PingSlot
<1>4. \A j \in DOMAIN hosts : hosts[j] \in NonRoot /\ hosts[j] \in Node
                              /\ <<n, hosts[j]>> \notin Entries
  <2>1. \A j \in DOMAIN hosts : hosts[j] \in NonRoot
    BY <1>2, ElementOfSeq DEF Newcomers
  <2> QED
    BY <2>1 DEF Newcomers, NonRoot
<1>5. \A i \in PingSlot : pings[n][i] \in Node <=> i < used
  BY DEF TableInv, used
<1>6. \A i \in PingSlot : New(i) => pings[n][i] \notin Node
  BY <1>2, <1>3, <1>5
<1>7. \A x \in Node, i \in PingSlot : pings[x][i] \in Node =>
         pings'[x][i] = pings[x][i] /\ pingTime'[x][i] = pingTime[x][i]
  BY <1>1, <1>6
<1>8. \A h \in Range(hosts) : \E i \in PingSlot :
         New(i) /\ pings'[n][i] = h /\ pingTime'[n][i] = NotAnswered
  <2> TAKE h \in Range(hosts)
  <2>1. PICK j \in DOMAIN hosts : hosts[j] = h
    BY DEF Range
  <2> DEFINE i == used + j - 1
  <2>2. j \in Nat /\ j >= 1 /\ j <= len
    BY <1>2, <2>1
  <2>3. i \in Nat /\ used <= i /\ i < used + len /\ i - used + 1 = j
    BY <1>2, <2>2
  <2>4. i \in PingSlot
    BY <1>2, <2>3, Sizes DEF PingSlot
  <2> HIDE DEF i
  <2> QED
    BY <1>1, <2>1, <2>3, <2>4
<1>9. \A i \in PingSlot : New(i) =>
         pings'[n][i] \in Range(hosts) /\ pings'[n][i] \in Node /\ <<n, pings'[n][i]>> \notin Entries
  BY <1>1, <1>4 DEF Range
<1>10. \A i, j \in PingSlot : New(i) /\ New(j) /\ pings'[n][i] = pings'[n][j] => i = j
  <2> SUFFICES ASSUME NEW i \in PingSlot, NEW j \in PingSlot, New(i), New(j),
                      pings'[n][i] = pings'[n][j]
               PROVE  i = j
    OBVIOUS
  <2>1. i - used + 1 = j - used + 1
    BY <1>1 DEF Newcomers
  <2> QED
    BY <1>2, <1>3, <2>1
<1>11. \A i \in PingSlot : ~New(i) =>
          pings'[n][i] = pings[n][i] /\ pingTime'[n][i] = pingTime[n][i]
  BY <1>1
<1>12. \A i \in PingSlot : i < used + len <=> i < used \/ New(i)
  BY <1>2, <1>3
<1> HIDE DEF New
<1>13. TableInv'
  <2> SUFFICES ASSUME NEW p \in Node
               PROVE  /\ \A i \in PingSlot : pings'[p][i] \in Node <=> i < numPings'[p]
                      /\ \A i, j \in PingSlot :
                           pings'[p][i] = pings'[p][j] /\ pings'[p][i] \in Node => i = j
                      /\ \A i \in PingSlot :
                           pings'[p][i] \in Node /\ pingTime'[p][i] # NotAnswered =>
                             pingTime'[p][i] \in RoundTrip[p][pings'[p][i]]
    BY DEF TableInv
  <2>1. CASE p # n
    BY <1>1, <2>1 DEF TableInv
  <2>2. CASE p = n
    <3>1. \A i \in PingSlot : pings'[n][i] \in Node <=> i < numPings'[n]
      BY <1>1, <1>5, <1>9, <1>11, <1>12
    <3>2. \A i \in PingSlot : pings'[n][i] \in Node /\ ~New(i) => <<n, pings'[n][i]>> \in Entries
      BY <1>11 DEF Entries
    <3>3. \A i, j \in PingSlot :
            pings'[n][i] = pings'[n][j] /\ pings'[n][i] \in Node => i = j
      <4> SUFFICES ASSUME NEW i \in PingSlot, NEW j \in PingSlot,
                          pings'[n][i] = pings'[n][j], pings'[n][i] \in Node
                   PROVE  i = j
        OBVIOUS
      <4>1. New(i) <=> New(j)
        BY <1>9, <3>2
      <4> QED
        BY <1>10, <1>11, <4>1 DEF TableInv
    <3>4. \A i \in PingSlot :
            pings'[n][i] \in Node /\ pingTime'[n][i] # NotAnswered =>
              pingTime'[n][i] \in RoundTrip[n][pings'[n][i]]
      <4> TAKE i \in PingSlot
      <4>1. New(i) => pingTime'[n][i] = NotAnswered
        BY <1>1
      <4> QED
        BY <1>11, <4>1 DEF TableInv
    <3> QED
      BY <2>2, <3>1, <3>3, <3>4
  <2> QED
    BY <2>1, <2>2
<1>14. ASSUME NEW x \in Node, NEW y \in Node
       PROVE  /\ <<x, y>> \in Entries' <=> <<x, y>> \in Entries \cup ({n} \X Range(hosts))
              /\ <<x, y>> \in Opens' <=> <<x, y>> \in Opens \cup ({n} \X Range(hosts))
              /\ <<x, y>> \in Closed' <=> <<x, y>> \in Closed
  <2>1. CASE x # n
    BY <1>1, <2>1 DEF Entries, Opens, Closed
  <2>2. CASE x = n
    <3>1. <<n, y>> \in Entries' <=> <<n, y>> \in Entries \/ y \in Range(hosts)
      BY <1>6, <1>8, <1>9, <1>11 DEF Entries
    <3>2. <<n, y>> \in Opens' <=> <<n, y>> \in Opens \/ y \in Range(hosts)
      BY <1>6, <1>8, <1>9, <1>11 DEF Opens
    <3>3. \A i \in PingSlot : New(i) => pingTime'[n][i] = NotAnswered
      BY <1>1
    <3>4. <<n, y>> \in Closed' <=> <<n, y>> \in Closed
      BY <1>6, <1>11, <3>3 DEF Closed
    <3> QED
      BY <2>2, <3>1, <3>2, <3>4
  <2> QED
    BY <2>1, <2>2
<1>15. /\ {n} \X Range(hosts) \subseteq Node \X Node
       /\ Entries \subseteq Node \X Node /\ Entries' \subseteq Node \X Node
       /\ Opens \subseteq Node \X Node /\ Opens' \subseteq Node \X Node
       /\ Closed \subseteq Node \X Node /\ Closed' \subseteq Node \X Node
  <2>1. Range(hosts) \subseteq Node
    BY <1>4 DEF Range
  <2> QED
    BY <2>1 DEF Entries, Opens, Closed
<1>16. Entries' = Entries \cup ({n} \X Range(hosts))
  <2> DEFINE B == Entries \cup ({n} \X Range(hosts))
  <2>1. B \in SUBSET (Node \X Node) /\ \A x, y \in Node : <<x, y>> \in Entries' <=> <<x, y>> \in B
    BY <1>14, <1>15
  <2> HIDE DEF B
  <2>2. Entries' = B
    BY <1>15, <2>1, SameRelation
  <2> QED
    BY <2>2 DEF B
<1>17. Opens' = Opens \cup ({n} \X Range(hosts))
  <2> DEFINE B == Opens \cup ({n} \X Range(hosts))
  <2>1. B \in SUBSET (Node \X Node) /\ \A x, y \in Node : <<x, y>> \in Opens' <=> <<x, y>> \in B
    BY <1>14, <1>15
  <2> HIDE DEF B
  <2>2. Opens' = B
    BY <1>15, <2>1, SameRelation
  <2> QED
    BY <2>2 DEF B
<1>18. Closed' = Closed
  BY <1>14, <1>15, SameRelation
<1> QED
  BY <1>7, <1>13, <1>16, <1>17, <1>18

-------------------------------------------------------------------------------
(* What a step leaves alone *)

\* The children stay.
LEMMA TreeStays ==
  ASSUME UNCHANGED treeVars, ChildInv
  PROVE  /\ ChildInv' /\ Edges' = Edges /\ Full' = Full
         /\ \A p \in Full : p \in Full' /\ children'[p] = children[p]
<1>1. children' = children /\ shortestPing' = shortestPing
      /\ serializedChildren' = serializedChildren
  BY DEF treeVars
<1>2. ChildInv'
  BY <1>1 DEF ChildInv
<1>3. Edges' = Edges
  BY <1>1 DEF Edges, Child
<1>4. Full' = Full
  BY <1>1 DEF Full
<1> QED
  BY <1>1, <1>2, <1>3, <1>4

\* The table stays.
LEMMA TableStays ==
  ASSUME UNCHANGED pingVars, TableInv
  PROVE  TableInv' /\ Entries' = Entries /\ Opens' = Opens /\ Closed' = Closed
<1>1. pings' = pings /\ pingTime' = pingTime /\ numPings' = numPings
  BY DEF pingVars
<1> QED
  BY <1>1 DEF TableInv, Entries, Opens, Closed

\* The searches stay, and so does what they refer to.
LEMMA SearchStays ==
  ASSUME UNCHANGED pingVars, UNCHANGED searchVars, StackInv
  PROVE  /\ StackInv' /\ Pendings' = Pendings
         /\ Candidates' = Candidates /\ Searching' = Searching
<1>1. /\ pings' = pings /\ pingTime' = pingTime
      /\ possibleParentsStk' = possibleParentsStk
      /\ possibleParentsSet' = possibleParentsSet
      /\ possibleParentsCntr' = possibleParentsCntr
  BY DEF pingVars, searchVars
<1> QED
  BY <1>1 DEF StackInv, Pendings, Candidates, Searching

\* Whoever does not start stays as it is.
LEMMA IdleStays ==
  ASSUME UNCHANGED status
  PROVE  Idle' = Idle
BY DEF Idle

\* The searches stay while newcomers join the table: none of them is searched for.
LEMMA SearchStaysInLargerTable ==
  ASSUME IInv, TableInv, TableInv', StackInv, UNCHANGED searchVars,
         \A x \in Node, i \in PingSlot : pings[x][i] \in Node =>
           pings'[x][i] = pings[x][i] /\ pingTime'[x][i] = pingTime[x][i]
  PROVE  /\ StackInv'
         /\ Pendings' = Pendings \cup (Opens' \ Opens)
         /\ Candidates' = Candidates /\ Searching' = Searching
<1>1. /\ possibleParentsStk' = possibleParentsStk
      /\ possibleParentsSet' = possibleParentsSet
      /\ possibleParentsCntr' = possibleParentsCntr
  BY DEF searchVars
<1>2. \A x \in Node : \A i \in Range(possibleParentsStk[x]) :
        i \in PingSlot /\ pings[x][i] \in Node
  BY StackSlots DEF StackInv
<1>3. \A x \in Node : \A i \in possibleParentsSet[x] : i \in PingSlot /\ pings[x][i] \in Node
  BY StackSlots DEF StackInv
<1>4. StackInv'
  BY <1>1, <1>2, <1>3 DEF StackInv
<1>5. Searching' = Searching
  BY <1>1 DEF Searching
<1>6. Candidates' = Candidates
  BY <1>1, <1>2 DEF Candidates
<1>7. ASSUME NEW x \in Node, NEW y \in Node
      PROVE  <<x, y>> \in Pendings' <=> <<x, y>> \in Pendings \cup (Opens' \ Opens)
  <2>1. ASSUME <<x, y>> \in Pendings
        PROVE  <<x, y>> \in Pendings'
    BY <1>1, <2>1 DEF Pendings
  <2>2. ASSUME <<x, y>> \in Opens' \ Opens
        PROVE  <<x, y>> \in Pendings'
    <3>1. PICK i \in PingSlot : pings'[x][i] = y /\ pingTime'[x][i] = NotAnswered
      BY <2>2 DEF Opens
    <3>2. pings[x][i] \notin Node
      BY <2>2, <3>1 DEF Opens
    <3> QED
      BY <1>1, <1>3, <3>1, <3>2 DEF Pendings
  <2>3. ASSUME <<x, y>> \in Pendings', <<x, y>> \notin Pendings
        PROVE  <<x, y>> \in Opens' \ Opens
    <3>1. PICK i \in PingSlot : /\ pings'[x][i] = y /\ pingTime'[x][i] = NotAnswered
                                /\ i \notin possibleParentsSet[x]
      BY <1>1, <2>3 DEF Pendings
    <3>2. <<x, y>> \in Opens'
      BY <3>1 DEF Opens
    <3>3. <<x, y>> \notin Opens
      <4> SUFFICES ASSUME NEW j \in PingSlot, pings[x][j] = y, pingTime[x][j] = NotAnswered
                   PROVE  FALSE
        BY DEF Opens
      <4>1. pings'[x][j] = y
        OBVIOUS
      <4>2. i = j
        BY <3>1, <4>1 DEF TableInv
      <4> QED
        BY <2>3, <3>1, <4>2 DEF Pendings
    <3> QED
      BY <3>2, <3>3
  <2> QED
    BY <2>1, <2>2, <2>3
<1>8. Pendings' = Pendings \cup (Opens' \ Opens)
  <2> DEFINE B == Pendings \cup (Opens' \ Opens)
  <2>1. /\ B \in SUBSET (Node \X Node) /\ Pendings' \in SUBSET (Node \X Node)
        /\ \A x, y \in Node : <<x, y>> \in Pendings' <=> <<x, y>> \in B
    BY <1>7 DEF Pendings, Opens
  <2> HIDE DEF B
  <2>2. Pendings' = B
    BY <2>1, SameRelation
  <2> QED
    BY <2>2 DEF B
<1> QED
  BY <1>4, <1>5, <1>6, <1>8

-------------------------------------------------------------------------------
(* The steps *)

\* Who has a place or a request for one keeps it or gets another; a ping without an
\* answer stays one of an adopter or one of a search, and is not heard of only if it
\* was not before; so is who does not know of its adoption.
Placed == {n \in Node :
  \/ n \in Adoptees \/ n \in Searching
  \/ \E p \in Node : <<n, p>> \in Attaches \/ <<p, n>> \in Pendings \/ <<p, n>> \in Tries}
NothingForgotten ==
  /\ Placed \subseteq Placed'
  /\ \A n, s \in Node : <<n, s>> \in Opens /\ <<n, s>> \in Opens' =>
       (<<n, s>> \in Pendings <=> <<n, s>> \in Pendings')
  /\ \A n, s \in Node : <<n, s>> \in Opens' =>
       \/ <<n, s>> \in Questions' \/ <<s, n>> \in Answers'
       \/ <<n, s>> \in Opens /\ <<n, s>> \notin Questions /\ <<s, n>> \notin Answers
  /\ \A p, n \in Node : <<p, n>> \in Edges' =>
       <<p, n>> \in Successes' \/ (<<p, n>> \in Edges /\ <<p, n>> \notin Successes)

\* Who has no place and no request for one gets none, but by its start.
NobodyReturns == \A n \in Node : n \in Placed' => n \in Placed \/ n \in Idle

\* Nobody pings anybody whom it has pinged.
LEMMA HandleAttachOverlay ==
  ASSUME SmallOverlay, OverlayInv, NEW s \in Node, NEW n \in Node, HandleAttach(s, n)
  PROVE  DataInv' /\ WireInv' /\ PlaceInv' /\ NothingForgotten /\ NobodyReturns
<1>0. /\ IInv /\ DataInv /\ WireInv /\ PlaceInv
      /\ TableInv /\ StackInv /\ ChildInv /\ OnceInv /\ EchoInv /\ TryInv /\ NetInv
  BY DEF OverlayInv, DataInv, WireInv, IInv
<1>1. RelationInv
  BY <1>0, Relations
<1>2. /\ net[s][n] # <<>> /\ Head(net[s][n]).type = "ATTACH"
      /\ SendPings(n, <<s>>) /\ net' = PostPings(Taken(s, n), n, <<s>>)
      /\ UNCHANGED treeVars /\ UNCHANGED searchVars /\ UNCHANGED status
  BY DEF HandleAttach, Receive
<1>3. <<s, n>> \in Attaches
  BY <1>0, <1>2, TakenQueues DEF Attaches
<1>4. s \in NonRoot
  BY <1>1, <1>3 DEF RelationInv
<1>5. s \notin Adoptees
  BY <1>0, <1>3, OneEngagement DEF PlaceInv
<1>6. <<n, s>> \notin Entries
  BY <1>0, <1>3, <1>4, <1>5 DEF PlaceInv, SeekInv
<1>7. Newcomers(n, <<s>>) /\ Range(<<s>>) = {s}
  BY <1>4, <1>6 DEF Newcomers, Range
<1>8. /\ TableInv' /\ Closed' = Closed
      /\ Entries' = Entries \cup {<<n, s>>} /\ Opens' = Opens \cup {<<n, s>>}
      /\ \A x \in Node, i \in PingSlot : pings[x][i] \in Node =>
           pings'[x][i] = pings[x][i] /\ pingTime'[x][i] = pingTime[x][i]
  BY <1>0, <1>2, <1>7, PingedRelations
<1>9. StackInv' /\ Candidates' = Candidates /\ Searching' = Searching
      /\ Pendings' = Pendings \cup (Opens' \ Opens)
  BY <1>0, <1>2, <1>8, SearchStaysInLargerTable
<1>10. <<n, s>> \notin Opens /\ Pendings' = Pendings \cup {<<n, s>>}
  BY <1>1, <1>6, <1>8, <1>9 DEF RelationInv
<1>11. ChildInv' /\ Edges' = Edges
       /\ \A p \in Full : p \in Full' /\ children'[p] = children[p]
  BY <1>0, <1>2, TreeStays
<1>12. Idle' = Idle
  BY <1>2, IdleStays
<1> DEFINE m == Packet("PING")
<1>13. m.type = "PING"
  BY DEF Packet
<1>14. net' = Sent(Taken(s, n), n, {s}, m)
  <2>1. Taken(s, n) \in SafeNet
    BY <1>0, <1>2, TakenSafe
  <2>2. <<s>> \in Seq(Node) /\ \A i, j \in DOMAIN <<s>> : <<s>>[i] = <<s>>[j] => i = j
    OBVIOUS
  <2> QED
    BY <1>2, <1>7, <2>1, <2>2, PingsAreSent
<1> HIDE DEF m
<1>15. <<n, s>> \notin Questions /\ <<s, n>> \notin Answers
  BY <1>0, <1>10 DEF EchoInv
<1>16. /\ OnceInv'
       /\ Exchanged(s, n, "ATTACH", {s}, "PING")
  <2>1. \A y \in {s} : <<n, y>> \notin Packets(net, m.type)
    BY <1>13, <1>15 DEF Questions
  <2> QED
    BY <1>0, <1>2, <1>13, <1>14, <2>1, WireStep
<1>17. /\ Attaches' = Attaches \ {<<s, n>>} /\ Tries' = Tries
       /\ Questions' = Questions \cup {<<n, s>>} /\ Answers' = Answers
       /\ Successes' = Successes
  BY <1>16 DEF Exchanged, Attaches, Tries, Questions, Answers, Successes, Single
<1>18. TryInv'
  <2>1. Delivery(s, n, {s}, m)
    BY <1>2, <1>14 DEF Delivery
  <2> QED
    BY <1>0, <1>11, <1>13, <2>1, TryKept
<1>19. EchoInv'
  BY <1>0, <1>8, <1>10, <1>11, <1>15, <1>17 DEF EchoInv
<1>20. PlaceInv'
  BY <1>0, <1>1, <1>3, <1>4, <1>8, <1>9, <1>10, <1>11, <1>12, <1>17, AskedPlace
<1>21. NothingForgotten /\ NobodyReturns
  BY <1>3, <1>8, <1>9, <1>10, <1>11, <1>17 DEF NothingForgotten, NobodyReturns, Placed, Adoptees
<1> QED
  BY <1>8, <1>9, <1>11, <1>16, <1>18, <1>19, <1>20, <1>21 DEF DataInv, WireInv

\* A ping is answered once.
LEMMA HandlePingOverlay ==
  ASSUME OverlayInv, NEW s \in Node, NEW n \in Node, HandlePing(s, n)
  PROVE  DataInv' /\ WireInv' /\ PlaceInv' /\ NothingForgotten /\ NobodyReturns
<1>0. /\ IInv /\ DataInv /\ WireInv /\ PlaceInv
      /\ TableInv /\ StackInv /\ ChildInv /\ OnceInv /\ EchoInv /\ TryInv /\ NetInv
  BY DEF OverlayInv, DataInv, WireInv, IInv
<1> DEFINE m == Packet("PINGRESPONSE")
<1>1. /\ net[s][n] # <<>> /\ Head(net[s][n]).type = "PING"
      /\ net' = Post(Taken(s, n), n, s, m)
      /\ UNCHANGED treeVars /\ UNCHANGED pingVars /\ UNCHANGED searchVars /\ UNCHANGED status
  BY DEF HandlePing, Receive
<1>2. <<s, n>> \in Questions /\ <<n, s>> \notin Answers /\ <<s, n>> \in Opens
  BY <1>0, <1>1, TakenQueues DEF Questions, EchoInv
<1>3. /\ TableInv' /\ Entries' = Entries /\ Opens' = Opens /\ Closed' = Closed
      /\ StackInv' /\ Pendings' = Pendings /\ Candidates' = Candidates
      /\ Searching' = Searching /\ Idle' = Idle
      /\ ChildInv' /\ Edges' = Edges
      /\ \A p \in Full : p \in Full' /\ children'[p] = children[p]
  BY <1>0, <1>1, TreeStays, TableStays, SearchStays, IdleStays
<1>4. m.type = "PINGRESPONSE"
  BY DEF Packet
<1>5. net' = Sent(Taken(s, n), n, {s}, m)
  BY <1>0, <1>1, TakenSafe, PostIsSent
<1> HIDE DEF m
<1>6. OnceInv' /\ Exchanged(s, n, "PING", {s}, "PINGRESPONSE")
  <2>1. \A y \in {s} : <<n, y>> \notin Packets(net, m.type)
    BY <1>2, <1>4 DEF Answers
  <2> QED
    BY <1>0, <1>1, <1>4, <1>5, <2>1, WireStep
<1>7. /\ Attaches' = Attaches /\ Tries' = Tries
      /\ Questions' = Questions \ {<<s, n>>} /\ Answers' = Answers \cup {<<n, s>>}
      /\ Successes' = Successes
  BY <1>6 DEF Exchanged, Attaches, Tries, Questions, Answers, Successes, Single
<1>8. TryInv'
  <2>1. Delivery(s, n, {s}, m)
    BY <1>1, <1>5 DEF Delivery
  <2> QED
    BY <1>0, <1>3, <1>4, <2>1, TryKept
<1>9. EchoInv'
  BY <1>0, <1>2, <1>3, <1>7 DEF EchoInv
<1>10. PlaceInv'
  BY <1>0, <1>3, <1>7, GonePlace
<1>11. NothingForgotten /\ NobodyReturns
  BY <1>3, <1>7 DEF NothingForgotten, NobodyReturns, Placed, Adoptees
<1> QED
  BY <1>3, <1>6, <1>8, <1>9, <1>10, <1>11 DEF DataInv, WireInv

\* A packet that is lost, discarded or only read disturbs nothing.
LEMMA PacketGoneOverlay ==
  ASSUME OverlayInv, NEW s \in Node, NEW n \in Node,
         \/ PingRespUnmatched(s, n) \/ HandleAttachSuccess(s, n)
         \/ Discard(s, n) \/ Lose(s, n)
  PROVE  DataInv' /\ WireInv' /\ PlaceInv' /\ NobodyReturns
<1>0. /\ IInv /\ DataInv /\ WireInv /\ PlaceInv
      /\ TableInv /\ StackInv /\ ChildInv /\ OnceInv /\ EchoInv /\ TryInv /\ NetInv
  BY DEF OverlayInv, DataInv, WireInv, IInv
<1>1. /\ net[s][n] # <<>> /\ net' = Taken(s, n)
      /\ UNCHANGED treeVars /\ UNCHANGED pingVars /\ UNCHANGED searchVars /\ UNCHANGED status
  BY DEF PingRespUnmatched, HandleAttachSuccess, Discard, Lose, Receive
<1>2. /\ TableInv' /\ Entries' = Entries /\ Opens' = Opens /\ Closed' = Closed
      /\ StackInv' /\ Pendings' = Pendings /\ Candidates' = Candidates
      /\ Searching' = Searching /\ Idle' = Idle
      /\ ChildInv' /\ Edges' = Edges
      /\ \A p \in Full : p \in Full' /\ children'[p] = children[p]
  BY <1>0, <1>1, TreeStays, TableStays, SearchStays, IdleStays
<1>3. OnceInv' /\ Exchanged(s, n, Head(net[s][n]).type, {}, "NONE")
  BY <1>0, <1>1, WireGone
<1>4. /\ Attaches' \subseteq Attaches /\ Tries' \subseteq Tries
      /\ Questions' \subseteq Questions /\ Answers' \subseteq Answers
      /\ Successes' \subseteq Successes
  BY <1>3 DEF Exchanged, Attaches, Tries, Questions, Answers, Successes, Single
<1>5. TryInv'
  <2> DEFINE m == Packet("PING")
  <2>1. Delivery(s, n, {}, m) /\ m.type = "PING"
    BY <1>1 DEF Delivery, Packet
  <2> HIDE DEF m
  <2> QED
    BY <1>0, <1>2, <2>1, TryKept
<1>6. EchoInv'
  BY <1>0, <1>2, <1>4 DEF EchoInv
<1>7. PlaceInv' /\ NobodyReturns
  BY <1>0, <1>2, <1>4, GonePlace DEF NobodyReturns, Placed, Adoptees
<1> QED
  BY <1>2, <1>3, <1>5, <1>6, <1>7 DEF DataInv, WireInv

\* Nobody is sent away, so no REATTACH arrives.
LEMMA NoReattach ==
  ASSUME OverlayInv, NEW s \in Node, NEW n \in Node
  PROVE  ~HandleReattach(s, n)
<1> SUFFICES ASSUME net[s][n] # <<>>, Head(net[s][n]).type = "REATTACH"
             PROVE  FALSE
  BY DEF HandleReattach, Receive
<1>1. NetInv /\ Reattaches = {}
  BY DEF OverlayInv, IInv, WireInv, OnceInv, NobodySentAway
<1>2. <<s, n>> \in Packets(net, "REATTACH")
  BY <1>1, TakenQueues
<1> QED
  BY <1>1, <1>2 DEF Reattaches

\* Nobody knows a node before it starts.
LEMMA StartApplicationOverlay ==
  ASSUME OverlayInv, NEW n \in Node, StartApplication(n)
  PROVE  /\ DataInv' /\ WireInv' /\ PlaceInv' /\ NothingForgotten /\ NobodyReturns
         /\ n # Root => n \in Placed'
<1>0. /\ IInv /\ DataInv /\ WireInv /\ PlaceInv
      /\ TableInv /\ StackInv /\ ChildInv /\ OnceInv /\ EchoInv /\ TryInv /\ NetInv
  BY DEF OverlayInv, DataInv, WireInv, IInv
<1>1. RelationInv
  BY <1>0, Relations
<1>2. /\ status[n] = "idle" /\ status' = [status EXCEPT ![n] = "running"]
      /\ UNCHANGED treeVars /\ UNCHANGED pingVars /\ UNCHANGED searchVars
      /\ n # Root => net' = Post(net, n, Root, Packet("ATTACH"))
      /\ n = Root => net' = net
  BY DEF StartApplication, SendsAttach
<1>3. n \in Idle /\ Idle' = Idle \ {n}
  BY <1>0, <1>2 DEF Idle, IInv, NodeInv
<1>4. /\ TableInv' /\ Entries' = Entries /\ Opens' = Opens /\ Closed' = Closed
      /\ StackInv' /\ Pendings' = Pendings /\ Candidates' = Candidates
      /\ Searching' = Searching
      /\ ChildInv' /\ Edges' = Edges
      /\ \A p \in Full : p \in Full' /\ children'[p] = children[p]
  BY <1>0, <1>2, TreeStays, TableStays, SearchStays
<1>5. CASE n = Root
  <2>1. /\ Attaches' = Attaches /\ Tries' = Tries /\ Reattaches' = Reattaches
        /\ Questions' = Questions /\ Answers' = Answers
        /\ Successes' = Successes
    BY <1>2, <1>5 DEF Attaches, Tries, Questions, Answers, Successes, Reattaches
  <2>2. OnceInv' /\ EchoInv'
    BY <1>0, <1>2, <1>4, <1>5, <2>1 DEF OnceInv, NobodySentAway, EchoInv
  <2>3. TryInv'
    BY <1>0, <1>2, <1>4, <1>5 DEF TryInv
  <2>4. PlaceInv'
    BY <1>0, <1>3, <1>4, <2>1, GonePlace
  <2>5. NothingForgotten /\ NobodyReturns
    BY <1>4, <2>1 DEF NothingForgotten, NobodyReturns, Placed, Adoptees
  <2> QED
    BY <1>4, <1>5, <2>2, <2>3, <2>4, <2>5 DEF DataInv, WireInv
<1>6. CASE n # Root
  <2>0. n \in NonRoot /\ Root \in Node
    BY <1>6, NodeAssumption DEF NonRoot
  <2> DEFINE m == Packet("ATTACH")
  <2>1. m.type = "ATTACH"
    BY DEF Packet
  <2>2. net' = Sent(net, n, {Root}, m)
    BY <1>0, <1>2, <1>6, <2>0, PostIsSent DEF NetInv
  <2> HIDE DEF m
  <2>3. \A x \in Node : <<n, x>> \notin Attaches
    <3> SUFFICES ASSUME NEW x \in Node, <<n, x>> \in Attaches PROVE FALSE
      OBVIOUS
    <3>1. <<"attach", x, n>> \in Engagements
      BY Engages
    <3> QED
      BY <1>0, <1>3, <3>1 DEF PlaceInv, IdleInv
  <2>4. \A type : /\ m.type # type => Packets(net', type) = Packets(net, type)
                  /\ m.type = type => Packets(net', type) = Packets(net, type) \cup ({n} \X {Root})
                  /\ \A x, y \in Node :
                       /\ Once(net[x][y], type)
                       /\ x = n /\ y \in {Root} /\ m.type = type => <<x, y>> \notin Packets(net, type)
                       => Once(net'[x][y], type)
    <3> TAKE type
    <3>1. {Root} \in SUBSET Node /\ net \in SafeNet
      BY <1>0, <2>0 DEF NetInv
    <3>2. /\ m.type # type => Packets(Sent(net, n, {Root}, m), type) = Packets(net, type)
          /\ m.type = type =>
               Packets(Sent(net, n, {Root}, m), type) = Packets(net, type) \cup ({n} \X {Root})
          /\ \A x, y \in Node :
               /\ Once(net[x][y], type)
               /\ x = n /\ y \in {Root} /\ m.type = type => <<x, y>> \notin Packets(net, type)
               => Once(Sent(net, n, {Root}, m)[x][y], type)
      BY <3>1, SentQueues
    <3> QED
      BY <2>2, <3>2
  <2>5. /\ Attaches' = Attaches \cup {<<n, Root>>} /\ Tries' = Tries
        /\ Questions' = Questions /\ Answers' = Answers /\ Reattaches' = Reattaches
        /\ Successes' = Successes
    BY <2>1, <2>4 DEF Attaches, Tries, Questions, Answers, Successes, Reattaches
  <2>6. OnceInv'
    <3>1. ASSUME NEW x \in Node, NEW y \in Node, NEW type \in Single
          PROVE  Once(net'[x][y], type)
      <4>1. Once(net[x][y], type)
        BY <1>0 DEF OnceInv
      <4>2. x = n /\ y \in {Root} /\ m.type = type => <<x, y>> \notin Packets(net, type)
        BY <2>1, <2>3 DEF Attaches
      <4> QED
        BY <2>4, <4>1, <4>2
    <3> QED
      BY <1>0, <2>5, <3>1 DEF OnceInv, NobodySentAway
  <2>7. TryInv'
    <3>1. Delivery(n, n, {Root}, m) /\ {Root} \in SUBSET Node
      BY <2>0, <2>2 DEF Delivery
    <3> QED
      BY <1>0, <1>4, <2>1, <3>1, TryKept
  <2>8. EchoInv'
    BY <1>0, <1>4, <2>5 DEF EchoInv
  <2>9. PlaceInv'
    BY <1>0, <1>1, <1>3, <1>4, <2>0, <2>5, StartPlace
  <2>10. NothingForgotten /\ NobodyReturns /\ n \in Placed'
    BY <1>3, <1>4, <2>0, <2>5 DEF NothingForgotten, NobodyReturns, Placed, Adoptees
  <2> QED
    BY <1>4, <2>6, <2>7, <2>8, <2>9, <2>10 DEF DataInv, WireInv
<1> QED
  BY <1>5, <1>6

\* Nothing happens but that somebody stops.
LEMMA NothingHappensOverlay ==
  ASSUME OverlayInv, Idle' \subseteq Idle, net' = net,
         UNCHANGED treeVars, UNCHANGED pingVars, UNCHANGED searchVars
  PROVE  DataInv' /\ WireInv' /\ PlaceInv' /\ NothingForgotten /\ NobodyReturns
<1>0. /\ IInv /\ DataInv /\ WireInv /\ PlaceInv
      /\ TableInv /\ StackInv /\ ChildInv /\ OnceInv /\ EchoInv /\ TryInv
  BY DEF OverlayInv, DataInv, WireInv
<1>1. /\ TableInv' /\ Entries' = Entries /\ Opens' = Opens /\ Closed' = Closed
      /\ StackInv' /\ Pendings' = Pendings /\ Candidates' = Candidates
      /\ Searching' = Searching
      /\ ChildInv' /\ Edges' = Edges
      /\ \A p \in Full : p \in Full' /\ children'[p] = children[p]
  BY <1>0, TreeStays, TableStays, SearchStays
<1>2. /\ Attaches' = Attaches /\ Tries' = Tries /\ Reattaches' = Reattaches
      /\ Questions' = Questions /\ Answers' = Answers
      /\ Successes' = Successes
  BY DEF Attaches, Tries, Questions, Answers, Successes, Reattaches
<1>3. OnceInv' /\ EchoInv'
  BY <1>0, <1>1, <1>2 DEF OnceInv, NobodySentAway, EchoInv
<1>4. TryInv'
  BY <1>0, <1>1 DEF TryInv
<1>5. PlaceInv'
  BY <1>0, <1>1, <1>2, GonePlace
<1>6. NothingForgotten /\ NobodyReturns
  BY <1>1, <1>2 DEF NothingForgotten, NobodyReturns, Placed, Adoptees
<1> QED
  BY <1>1, <1>3, <1>4, <1>5, <1>6 DEF DataInv, WireInv

\* Nobody becomes idle by stopping.
LEMMA StopApplicationOverlay ==
  ASSUME OverlayInv, NEW n \in Node, StopApplication(n)
  PROVE  DataInv' /\ WireInv' /\ PlaceInv' /\ NothingForgotten /\ NobodyReturns
<1>1. /\ status' = [status EXCEPT ![n] = "stopped"] /\ net' = net
      /\ UNCHANGED treeVars /\ UNCHANGED pingVars /\ UNCHANGED searchVars
  BY DEF StopApplication
<1>2. Idle' \subseteq Idle
  BY <1>1 DEF Idle, OverlayInv, IInv, NodeInv
<1> QED
  BY <1>1, <1>2, NothingHappensOverlay

\* Membership in the relations that a search changes, before and after a step.
LEMMA SearchRelations == \A x, y \in Node :
  /\ <<x, y>> \in Pendings <=> \E i \in PingSlot :
       /\ pings[x][i] = y /\ pingTime[x][i] = NotAnswered /\ i \notin possibleParentsSet[x]
  /\ <<x, y>> \in Pendings' <=> \E i \in PingSlot :
       /\ pings'[x][i] = y /\ pingTime'[x][i] = NotAnswered /\ i \notin possibleParentsSet'[x]
  /\ <<x, y>> \in Candidates <=> \E i \in Range(possibleParentsStk[x]) : pings[x][i] = y
  /\ <<x, y>> \in Candidates' <=> \E i \in Range(possibleParentsStk'[x]) : pings'[x][i] = y
BY DEF Pendings, Candidates

\* What HandleTry does with the hosts of a list.
ReadsList(n, hosts) ==
  LET slots == [k \in DOMAIN hosts |-> (numPings[n] + k - 1) % MAX_PINGS]
  IN  /\ SendPings(n, hosts)
      /\ possibleParentsStk' = [possibleParentsStk EXCEPT ![n] = @ \o slots]
      /\ possibleParentsSet' = [possibleParentsSet EXCEPT ![n] = @ \cup Range(slots)]
      /\ possibleParentsCntr' = [possibleParentsCntr EXCEPT ![n] = Len(hosts)]

\* The search gets the new slots, and only those.
ListedSlots(n, hosts, slots) ==
  /\ Range(slots) # {} /\ Cardinality(Range(slots)) = Len(hosts)
  /\ possibleParentsSet[n] = {} /\ possibleParentsSet'[n] = Range(slots)
  /\ Range(possibleParentsStk'[n]) = Range(possibleParentsStk[n]) \cup Range(slots)
  /\ Distinct(possibleParentsStk'[n])
  /\ possibleParentsCntr'[n] = Len(hosts)
  /\ \A i \in Range(slots) :
       /\ i \in PingSlot /\ pings[n][i] \notin Node
       /\ pings'[n][i] \in Range(hosts) /\ pingTime'[n][i] = NotAnswered
  /\ \A h \in Range(hosts) : \E i \in Range(slots) : pings'[n][i] = h
  /\ \A i \in PingSlot : i \notin Range(slots) =>
       pings'[n][i] = pings[n][i] /\ pingTime'[n][i] = pingTime[n][i]
  /\ \A x \in Node : x # n =>
       /\ pings'[x] = pings[x] /\ pingTime'[x] = pingTime[x]
       /\ possibleParentsStk'[x] = possibleParentsStk[x]
       /\ possibleParentsSet'[x] = possibleParentsSet[x]
       /\ possibleParentsCntr'[x] = possibleParentsCntr[x]

\* Two sequences of different elements that share none.
LEMMA PushedOnStack ==
  ASSUME NEW S, NEW q \in Seq(S), NEW r \in Seq(S), Distinct(q), Distinct(r),
         Range(q) \cap Range(r) = {}
  PROVE  Range(q \o r) = Range(q) \cup Range(r) /\ Distinct(q \o r)
<1> DEFINE a == Len(q)
           b == Len(r)
           t == q \o r
<1>1. /\ a \in Nat /\ b \in Nat /\ DOMAIN q = 1..a /\ DOMAIN r = 1..b
  BY LenProperties
<1>2. /\ t \in Seq(S) /\ Len(t) = a + b
      /\ \A i \in 1..(a + b) : t[i] = IF i <= a THEN q[i] ELSE r[i - a]
  BY ConcatProperties
<1>3. DOMAIN t = 1..(a + b)
  BY <1>2, LenProperties
<1>4. \A i \in 1..a : t[i] = q[i] /\ i \in DOMAIN t /\ q[i] \in Range(q)
  BY <1>1, <1>2, <1>3 DEF Range
<1>5. \A i \in 1..b : t[a + i] = r[i] /\ a + i \in DOMAIN t /\ r[i] \in Range(r)
  <2> TAKE i \in 1..b
  <2>1. a + i \in 1..(a + b) /\ ~(a + i <= a) /\ (a + i) - a = i
    BY <1>1
  <2> QED
    BY <1>1, <1>2, <1>3, <2>1 DEF Range
<1>6. \A i \in DOMAIN t : i \in 1..a \/ (i - a \in 1..b /\ i = a + (i - a))
  BY <1>1, <1>3
<1> HIDE DEF a, b, t
<1>7. Range(t) = Range(q) \cup Range(r)
  <2>1. \A x \in Range(q) : x \in Range(t)
    BY <1>1, <1>4 DEF Range
  <2>2. \A x \in Range(r) : x \in Range(t)
    BY <1>1, <1>5 DEF Range
  <2>3. \A i \in DOMAIN t : t[i] \in Range(q) \cup Range(r)
    BY <1>4, <1>5, <1>6
  <2> QED
    BY <2>1, <2>2, <2>3 DEF Range
<1>8. Distinct(t)
  <2> SUFFICES ASSUME NEW i \in DOMAIN t, NEW j \in DOMAIN t, t[i] = t[j] PROVE i = j
    BY DEF Distinct
  <2>1. CASE i \in 1..a /\ j \in 1..a
    BY <1>1, <1>4, <2>1 DEF Distinct
  <2>2. CASE i \in 1..a /\ j - a \in 1..b /\ j = a + (j - a)
    BY <1>4, <1>5, <2>2
  <2>3. CASE j \in 1..a /\ i - a \in 1..b /\ i = a + (i - a)
    BY <1>4, <1>5, <2>3
  <2>4. CASE /\ i - a \in 1..b /\ i = a + (i - a)
             /\ j - a \in 1..b /\ j = a + (j - a)
    <3>1. r[i - a] = r[j - a]
      BY <1>5, <2>4
    <3>2. i - a = j - a
      BY <1>1, <2>4, <3>1 DEF Distinct
    <3> QED
      BY <2>4, <3>2
  <2> QED
    BY <1>6, <2>1, <2>2, <2>3, <2>4
<1> QED
  BY <1>7, <1>8 DEF t

\* The hosts of a list are new, so each of them takes a free slot of the table.
LEMMA ListTakesSlots ==
  ASSUME SmallOverlay, IInv, TableInv, StackInv, NEW n \in Node,
         NEW hosts, Newcomers(n, hosts), hosts # <<>>, ReadsList(n, hosts), n \notin Searching
  PROVE  \E slots : ListedSlots(n, hosts, slots)
<1> DEFINE used  == numPings[n]
           len   == Len(hosts)
           slots == [k \in DOMAIN hosts |-> (numPings[n] + k - 1) % MAX_PINGS]
<1>1. /\ numPings'[n] = used + len
      /\ \A x \in Node : x # n =>
           /\ numPings'[x] = numPings[x]
           /\ pings'[x] = pings[x] /\ pingTime'[x] = pingTime[x]
      /\ \A i \in PingSlot :
           IF used <= i /\ i < used + len
           THEN /\ i - used + 1 \in DOMAIN hosts
                /\ pings'[n][i] = hosts[i - used + 1]
                /\ pingTime'[n][i] = NotAnswered
           ELSE pings'[n][i] = pings[n][i] /\ pingTime'[n][i] = pingTime[n][i]
  <2>1. SendPings(n, hosts)
    BY DEF ReadsList
  <2> QED
    BY <2>1, PingedTable
<1>2. /\ used \in Nat /\ len \in Nat /\ used + len < MAX_PINGS /\ MAX_PINGS \in Nat
      /\ DOMAIN hosts = 1..len /\ len >= 1
  <2>1. hosts \in Seq(NonRoot)
    BY DEF Newcomers
  <2>2. len \in Nat /\ DOMAIN hosts = 1..len
    BY <2>1, LenProperties
  <2>3. len # 0
    BY <2>1, EmptySeq
  <2>4. used \in Nat /\ used + len < MAX_PINGS /\ MAX_PINGS \in Nat
    BY RoomInTable, Sizes
  <2> HIDE DEF used, len
  <2> QED
    BY <2>2, <2>3, <2>4
<1>s. DOMAIN slots = DOMAIN hosts
  OBVIOUS
<1>t. \A k \in DOMAIN hosts : slots[k] = (used + k - 1) % MAX_PINGS
  OBVIOUS
<1> HIDE DEF used, len, slots
<1>3. \A j \in DOMAIN hosts : hosts[j] \in NonRoot /\ hosts[j] \in Node
  <2>1. \A j \in DOMAIN hosts : hosts[j] \in NonRoot
    BY <1>2, ElementOfSeq DEF Newcomers, len
  <2> QED
    BY <2>1 DEF NonRoot
<1>4. \A k \in 1..len : slots[k] = used + k - 1
  <2> TAKE k \in 1..len
  <2>1. used + k - 1 \in Int /\ 0 <= used + k - 1 /\ used + k - 1 < MAX_PINGS
    BY <1>2
  <2>2. (used + k - 1) % MAX_PINGS = used + k - 1
    BY <2>1, RingIndex
  <2> QED
    BY <1>2, <1>t, <2>2
<1>5. DOMAIN slots = 1..len /\ slots \in Seq(PingSlot) /\ Len(slots) = len
  <2>1. slots \in [1..len -> PingSlot]
    <3>1. \A k \in 1..len : used + k - 1 \in PingSlot
      BY <1>2 DEF PingSlot
    <3>2. slots = [k \in DOMAIN hosts |-> slots[k]]
      BY DEF slots
    <3> QED
      BY <1>2, <1>4, <3>1, <3>2
  <2> QED
    BY <1>2, <2>1
<1>6. Range(slots) = used..(used + len - 1)
  <2>1. ASSUME NEW i \in used..(used + len - 1) PROVE i \in Range(slots)
    <3>1. i - used + 1 \in 1..len /\ used + (i - used + 1) - 1 = i
      BY <1>2
    <3>2. slots[i - used + 1] = i
      BY <1>4, <3>1
    <3> QED
      BY <1>5, <3>1, <3>2 DEF Range
  <2>2. ASSUME NEW k \in 1..len PROVE slots[k] \in used..(used + len - 1)
    BY <1>2, <1>4
  <2> QED
    BY <1>5, <2>1, <2>2 DEF Range
<1>7. possibleParentsSet[n] = {} /\ possibleParentsStk[n] \in Seq(PingSlot)
  BY DEF Searching, IInv, SearchInv
<1>8. /\ possibleParentsStk'[n] = possibleParentsStk[n] \o slots
      /\ possibleParentsSet'[n] = Range(slots)
      /\ possibleParentsCntr'[n] = len
      /\ \A x \in Node : x # n =>
           /\ possibleParentsStk'[x] = possibleParentsStk[x]
           /\ possibleParentsSet'[x] = possibleParentsSet[x]
           /\ possibleParentsCntr'[x] = possibleParentsCntr[x]
  <2>1. /\ possibleParentsStk' = [possibleParentsStk EXCEPT ![n] = possibleParentsStk[n] \o slots]
        /\ possibleParentsSet' =
             [possibleParentsSet EXCEPT ![n] = possibleParentsSet[n] \cup Range(slots)]
        /\ possibleParentsCntr' = [possibleParentsCntr EXCEPT ![n] = len]
    BY DEF ReadsList, slots, len
  <2> QED
    BY <1>7, <2>1 DEF IInv, SearchInv
<1>9. \A i \in Range(slots) :
        /\ i \in PingSlot /\ i - used + 1 \in DOMAIN hosts
        /\ pings'[n][i] = hosts[i - used + 1] /\ pings'[n][i] \in Node
        /\ pingTime'[n][i] = NotAnswered
  <2> TAKE i \in Range(slots)
  <2>1. i \in PingSlot /\ used <= i /\ i < used + len
    BY <1>2, <1>6 DEF PingSlot
  <2> QED
    BY <1>1, <1>3, <2>1
<1>10. \A i \in Range(slots) : pings[n][i] \notin Node
  <2> TAKE i \in Range(slots)
  <2>1. i \in PingSlot /\ ~(i < used)
    BY <1>2, <1>6, <1>9
  <2> QED
    BY <2>1 DEF TableInv, used
<1>11. \A i \in PingSlot : i \notin Range(slots) =>
         pings'[n][i] = pings[n][i] /\ pingTime'[n][i] = pingTime[n][i]
  <2> TAKE i \in PingSlot
  <2>1. used <= i /\ i < used + len => i \in Range(slots)
    BY <1>2, <1>6 DEF PingSlot
  <2> QED
    BY <1>1, <2>1
<1>12. ASSUME NEW h \in Range(hosts)
       PROVE  \E i \in Range(slots) : pings'[n][i] = h
  <2>1. PICK j \in DOMAIN hosts : hosts[j] = h
    BY DEF Range
  <2>2. used + j - 1 \in Range(slots) /\ (used + j - 1) - used + 1 = j
    BY <1>2, <1>6
  <2> QED
    BY <1>9, <2>1, <2>2
<1>13. Range(slots) # {}
  <2>1. used \in used..(used + len - 1)
    BY <1>2
  <2> QED
    BY <1>6, <2>1
<1>14. Cardinality(Range(slots)) = len
  <2>1. used \in Int /\ used + len - 1 \in Int
    BY <1>2
  <2>2. Cardinality(used..(used + len - 1)) =
          IF used > used + len - 1 THEN 0 ELSE (used + len - 1) - used + 1
    BY <2>1, FS_Interval
  <2> QED
    BY <1>2, <1>6, <2>2
<1>15. \A i \in Range(slots) : pings'[n][i] \in Range(hosts)
  BY <1>9 DEF Range
<1>16. /\ Range(possibleParentsStk'[n]) = Range(possibleParentsStk[n]) \cup Range(slots)
       /\ Distinct(possibleParentsStk'[n])
  <2>1. Distinct(possibleParentsStk[n])
    BY DEF StackInv
  <2>2. Distinct(slots)
    BY <1>2, <1>4, <1>5 DEF Distinct
  <2>3. Range(possibleParentsStk[n]) \cap Range(slots) = {}
    BY <1>10 DEF StackInv
  <2> QED
    BY <1>5, <1>7, <1>8, <2>1, <2>2, <2>3, PushedOnStack
<1>17. ListedSlots(n, hosts, slots)
  BY <1>1, <1>7, <1>8, <1>9, <1>10, <1>11, <1>12, <1>13, <1>14, <1>15, <1>16
     DEF ListedSlots, len
<1> QED
  BY <1>17

\* The search that a list begins waits for all the pings of that list.
LEMMA ListedSearch ==
  ASSUME IInv, StackInv, NEW n \in Node, NEW hosts \in Seq(Node), NEW slots,
         ListedSlots(n, hosts, slots)
  PROVE  /\ StackInv' /\ Pendings' = Pendings
         /\ Candidates' = Candidates \cup ({n} \X Range(hosts))
         /\ Searching' = Searching \cup {n}
<1>1. Range(hosts) \subseteq Node
  BY ElementOfSeq, LenProperties DEF Range
<1>2. StackInv'
  <2> SUFFICES ASSUME NEW p \in Node
               PROVE  /\ \A i \in possibleParentsSet'[p] :
                           pings'[p][i] \in Node /\ pingTime'[p][i] = NotAnswered
                      /\ \A i \in Range(possibleParentsStk'[p]) :
                           /\ pings'[p][i] \in Node
                           /\ i \in possibleParentsSet'[p] \/ pingTime'[p][i] # NotAnswered
                      /\ possibleParentsSet'[p] \subseteq Range(possibleParentsStk'[p])
                      /\ Distinct(possibleParentsStk'[p])
                      /\ possibleParentsCntr'[p] = Cardinality(possibleParentsSet'[p])
    BY DEF StackInv
  <2>1. CASE p # n
    BY <2>1 DEF StackInv, ListedSlots
  <2>2. CASE p = n
    <3>1. \A i \in Range(possibleParentsStk[n]) :
            /\ i \in PingSlot /\ i \notin Range(slots) /\ pings'[n][i] = pings[n][i]
            /\ pings[n][i] \in Node /\ pingTime'[n][i] # NotAnswered
      BY StackSlots DEF StackInv, ListedSlots
    <3> QED
      BY <1>1, <2>2, <3>1 DEF ListedSlots
  <2> QED
    BY <2>1, <2>2
<1>3. Searching' = Searching \cup {n}
  <2>1. \A x \in Node : x \in Searching' <=> x \in Searching \/ x = n
    BY DEF Searching, ListedSlots
  <2>2. Searching \subseteq Node /\ Searching' \subseteq Node
    BY DEF Searching
  <2> QED
    BY <2>1, <2>2
<1>4. ASSUME NEW x \in Node, NEW y \in Node
      PROVE  /\ <<x, y>> \in Pendings' <=> <<x, y>> \in Pendings
             /\ <<x, y>> \in Candidates' <=> <<x, y>> \in Candidates \cup ({n} \X Range(hosts))
  <2>1. CASE x # n
    BY <2>1, SearchRelations DEF ListedSlots
  <2>2. CASE x = n
    <3>1. <<n, y>> \in Pendings' <=> <<n, y>> \in Pendings
      BY SearchRelations DEF ListedSlots
    <3>2. \A i \in Range(possibleParentsStk[n]) : pings'[n][i] = pings[n][i]
      BY StackSlots DEF StackInv, ListedSlots
    <3>3. <<n, y>> \in Candidates' <=>
            <<n, y>> \in Candidates \/ \E i \in Range(slots) : pings'[n][i] = y
      BY <3>2, SearchRelations DEF ListedSlots
    <3>4. (\E i \in Range(slots) : pings'[n][i] = y) <=> y \in Range(hosts)
      BY DEF ListedSlots
    <3> QED
      BY <2>2, <3>1, <3>2, <3>3, <3>4
  <2> QED
    BY <2>1, <2>2
<1>5. Pendings' = Pendings
  <2>1. Pendings \in SUBSET (Node \X Node) /\ Pendings' \in SUBSET (Node \X Node)
    BY DEF Pendings
  <2> QED
    BY <1>4, <2>1, SameRelation
<1>6. Candidates' = Candidates \cup ({n} \X Range(hosts))
  <2> DEFINE B == Candidates \cup ({n} \X Range(hosts))
  <2>1. /\ B \in SUBSET (Node \X Node) /\ Candidates' \in SUBSET (Node \X Node)
        /\ \A x, y \in Node : <<x, y>> \in Candidates' <=> <<x, y>> \in B
    BY <1>1, <1>4 DEF Candidates
  <2> HIDE DEF B
  <2>2. Candidates' = B
    BY <2>1, SameRelation
  <2> QED
    BY <2>2 DEF B
<1> QED
  BY <1>2, <1>3, <1>5, <1>6

\* The children of a refuser are newcomers: a search begins anew on free slots.
LEMMA HandleTryOverlay ==
  ASSUME SmallOverlay, OverlayInv, NEW s \in Node, NEW n \in Node, HandleTry(s, n)
  PROVE  DataInv' /\ WireInv' /\ PlaceInv' /\ NothingForgotten /\ NobodyReturns
<1>0. /\ IInv /\ DataInv /\ WireInv /\ PlaceInv
      /\ TableInv /\ StackInv /\ ChildInv /\ OnceInv /\ EchoInv /\ TryInv /\ NetInv /\ TreeInv
  BY DEF OverlayInv, DataInv, WireInv, IInv
<1>1. RelationInv
  BY <1>0, Relations
<1> DEFINE hosts == children[s]
           H == {h \in Node : <<s, h>> \in Edges}
<1>2. /\ net[s][n] # <<>> /\ Head(net[s][n]).type = "TRY"
      /\ UNCHANGED treeVars /\ UNCHANGED status
  BY DEF HandleTry, Receive
<1>3. <<s, n>> \in Tries /\ s \in Full /\ Head(net[s][n]) = SerializeChildren(hosts)
  <2>1. <<s, n>> \in Tries
    BY <1>0, <1>2, TakenQueues DEF Tries
  <2>2. net[s][n] \in Seq(PacketsOK)
    BY <1>0 DEF NetInv, SafeNet
  <2>3. 1 \in DOMAIN net[s][n] /\ net[s][n][1] = Head(net[s][n])
    BY <1>2, <2>2, HasHead
  <2> QED
    BY <1>0, <1>2, <2>1, <2>3 DEF TryInv
<1>4. n \in NonRoot /\ n \notin Adoptees /\ n \notin Searching
  BY <1>0, <1>1, <1>3, OneEngagement DEF RelationInv, PlaceInv
<1>5. /\ hosts \in Seq(NonRoot) /\ hosts \in Seq(Node) /\ Len(hosts) <= MAX_FANOUT
      /\ hosts # <<>>
  <2>1. hosts \in Seq(NonRoot) /\ Len(hosts) <= MAX_FANOUT
    BY <1>0 DEF TreeInv
  <2>2. Seq(NonRoot) \subseteq Seq(Node)
    BY SeqMonotonic DEF NonRoot
  <2>3. Len(hosts) = MAX_FANOUT
    BY <1>3 DEF Full
  <2>4. hosts # <<>>
    BY <2>3, Sizes, EmptySeq
  <2> QED
    BY <2>1, <2>2, <2>4
<1>6. /\ Head(net[s][n]).hosts = hosts /\ Head(net[s][n]).count = Len(hosts)
  BY <1>3, <1>5, SerializeChildrenType
<1>7. ReadsList(n, hosts) /\ net' = PostPings(Taken(s, n), n, hosts)
  <2> DEFINE try == Head(net[s][n])
  <2>1. /\ SendPings(n, try.hosts) /\ net' = PostPings(Taken(s, n), n, try.hosts)
        /\ possibleParentsCntr' = [possibleParentsCntr EXCEPT ![n] = try.count]
        /\ possibleParentsStk' = [possibleParentsStk EXCEPT ![n] =
             @ \o [k \in DOMAIN try.hosts |-> (numPings[n] + k - 1) % MAX_PINGS]]
        /\ possibleParentsSet' = [possibleParentsSet EXCEPT ![n] =
             @ \cup Range([k \in DOMAIN try.hosts |-> (numPings[n] + k - 1) % MAX_PINGS])]
    BY DEF HandleTry
  <2> HIDE DEF hosts
  <2> QED
    BY <1>6, <2>1 DEF ReadsList
<1>8. Range(hosts) = H
  <2>1. \A h \in Node : <<s, h>> \in Edges <=> h \in Range(hosts)
    BY DEF Edges, Child
  <2>2. Range(hosts) \subseteq Node
    BY <1>5, ElementOfSeq, LenProperties DEF Range
  <2> QED
    BY <2>1, <2>2
<1>9. Newcomers(n, hosts)
  <2>1. \A j \in DOMAIN hosts : hosts[j] \in H
    BY <1>8 DEF Range
  <2>2. \A h \in H : <<n, h>> \notin Entries
    BY <1>0, <1>3, <1>4 DEF PlaceInv, SeekInv
  <2>3. \A i, j \in DOMAIN hosts : hosts[i] = hosts[j] => i = j
    BY <1>0 DEF ChildInv
  <2> QED
    BY <1>5, <2>1, <2>2, <2>3 DEF Newcomers
<1>10. \A i, j \in DOMAIN hosts : hosts[i] = hosts[j] => i = j
  BY <1>9 DEF Newcomers
<1>11. ChildInv' /\ Edges' = Edges
       /\ \A p \in Full : p \in Full' /\ children'[p] = children[p]
  BY <1>0, <1>2, TreeStays
<1>12. Idle' = Idle
  BY <1>2, IdleStays
<1> HIDE DEF hosts
<1>13. /\ TableInv' /\ Closed' = Closed
       /\ Entries' = Entries \cup ({n} \X H) /\ Opens' = Opens \cup ({n} \X H)
  <2>1. SendPings(n, hosts)
    BY <1>7 DEF ReadsList
  <2> QED
    BY <1>0, <1>8, <1>9, <2>1, PingedRelations
<1>14. /\ StackInv' /\ Pendings' = Pendings
       /\ Candidates' = Candidates \cup ({n} \X H) /\ Searching' = Searching \cup {n}
  <2>1. \E slots : ListedSlots(n, hosts, slots)
    BY <1>0, <1>4, <1>5, <1>7, <1>9, ListTakesSlots
  <2> QED
    BY <1>0, <1>5, <1>8, <2>1, ListedSearch
<1> DEFINE m == Packet("PING")
<1>15. m.type = "PING"
  BY DEF Packet
<1>16. net' = Sent(Taken(s, n), n, H, m)
  <2>1. Taken(s, n) \in SafeNet
    BY <1>0, <1>2, TakenSafe
  <2> QED
    BY <1>5, <1>7, <1>8, <1>10, <2>1, PingsAreSent
<1>17. \A h \in H : h \in Node /\ <<n, h>> \notin Opens
  BY <1>0, <1>1, <1>3, <1>4 DEF PlaceInv, SeekInv, RelationInv
<1> HIDE DEF m
<1>18. \A h \in H : <<n, h>> \notin Questions /\ <<h, n>> \notin Answers
  BY <1>0, <1>17 DEF EchoInv
<1>19. H \in SUBSET Node
  OBVIOUS
<1> HIDE DEF H
<1>20. OnceInv' /\ Exchanged(s, n, "TRY", H, "PING")
  <2>1. \A y \in H : <<n, y>> \notin Packets(net, m.type)
    BY <1>15, <1>18 DEF Questions
  <2> QED
    BY <1>0, <1>2, <1>15, <1>16, <1>19, <2>1, WireStep
<1>21. /\ Attaches' = Attaches /\ Tries' = Tries \ {<<s, n>>}
       /\ Questions' = Questions \cup ({n} \X H) /\ Answers' = Answers
       /\ Successes' = Successes
  BY <1>20 DEF Exchanged, Attaches, Tries, Questions, Answers, Successes, Single
<1>22. TryInv'
  <2>1. Delivery(s, n, H, m)
    BY <1>2, <1>16 DEF Delivery
  <2> QED
    BY <1>0, <1>11, <1>15, <1>19, <2>1, TryKept
<1>23. EchoInv'
  <2> SUFFICES ASSUME NEW a \in Node, NEW b \in Node
               PROVE  /\ <<a, b>> \in Questions' \/ <<b, a>> \in Answers' => <<a, b>> \in Opens'
                      /\ ~(<<a, b>> \in Questions' /\ <<b, a>> \in Answers')
                      /\ <<a, b>> \in Successes' => <<a, b>> \in Edges'
    BY DEF EchoInv
  <2>1. <<a, b>> \in {n} \X H <=> a = n /\ b \in H
    OBVIOUS
  <2> QED
    BY <1>0, <1>11, <1>13, <1>18, <1>21, <2>1 DEF EchoInv
<1>24. PlaceInv'
  BY <1>0, <1>1, <1>3, <1>4, <1>11, <1>12, <1>13, <1>14, <1>21, ListedPlace DEF H
<1>25. NothingForgotten /\ NobodyReturns
  <2>1. \A a, b \in Node : <<a, b>> \in {n} \X H <=> a = n /\ b \in H
    OBVIOUS
  <2> QED
    BY <1>3, <1>11, <1>13, <1>14, <1>21, <2>1 DEF NothingForgotten, NobodyReturns, Placed, Adoptees
<1> QED
  BY <1>11, <1>13, <1>14, <1>20, <1>22, <1>23, <1>24, <1>25 DEF DataInv, WireInv

\* A time that is a round trip is not the mark of an open entry.
LEMMA RoundTripTime ==
  ASSUME NEW n \in Node, NEW s \in Node, NEW t \in RoundTrip[n][s]
  PROVE  t \in 1..LongestPing /\ t # NotAnswered
<1>1. t \in 1..LongestPing
  BY TimeAssumption
<1> QED
  BY <1>1, Markers

\* An answer is booked on the ping that it answers and measures its round trip.
LEMMA AnswerBooked ==
  ASSUME IInv, TableInv, OnceInv, EchoInv, NEW s \in Node, NEW n \in Node,
         Receive(s, n, "PINGRESPONSE"),
         NEW i \in PingSlot, Matches(s, n, i), NEW time \in Measured(s, n, i)
  PROVE  /\ pings[n][i] = s /\ pingTime[n][i] = NotAnswered
         /\ time \in RoundTrip[n][s]
<1>1. <<s, n>> \in Answers
  BY TakenQueues DEF Receive, Answers, IInv
<1>2. <<n, s>> \in Opens /\ <<n, s>> \notin Questions
  BY <1>1 DEF EchoInv
<1>3. pings[n][i] = s
  BY DEF Matches
<1>4. \A k \in PingSlot : pings[n][k] = s => k = i
  BY <1>3 DEF TableInv
<1>5. pingTime[n][i] = NotAnswered
  BY <1>2, <1>4 DEF Opens
<1>6. NewerPings(s, n, i) = {}
  <2>1. numPings[n] - 1 - i \in Int
    BY Sizes DEF IInv, PingInv, PingSlot
  <2>2. Age(n, i) \in PingSlot
    BY <2>1, Sizes DEF Age
  <2>3. ~(Age(n, i) < Age(n, i))
    BY <2>2 DEF PingSlot
  <2> QED
    BY <1>4, <2>3 DEF NewerPings
<1>7. {k \in DOMAIN net[n][s] : net[n][s][k].type = "PING"} = {}
  BY <1>2 DEF Questions, Packets, Has
<1>8. \E j : {k \in DOMAIN net[s][n] : net[s][n][k].type = "PINGRESPONSE"} = {j}
  <2>1. PICK j \in DOMAIN net[s][n] : net[s][n][j].type = "PINGRESPONSE"
    BY <1>1 DEF Answers, Packets, Has
  <2>2. Once(net[s][n], "PINGRESPONSE")
    BY DEF OnceInv, Single
  <2>3. {k \in DOMAIN net[s][n] : net[s][n][k].type = "PINGRESPONSE"} = {j}
    BY <2>1, <2>2 DEF Once
  <2> QED
    BY <2>3
<1>9. Outstanding(s, n) = 1
  <2>1. Cardinality({}) = 0 /\ \A x : Cardinality({x}) = 1
    BY FS_EmptySet, FS_Singleton
  <2>2. Cardinality({k \in DOMAIN net[n][s] : net[n][s][k].type = "PING"}) = 0
    BY <1>7, <2>1
  <2>3. Cardinality({k \in DOMAIN net[s][n] : net[s][n][k].type = "PINGRESPONSE"}) = 1
    BY <1>8, <2>1
  <2> QED
    BY <2>2, <2>3 DEF Outstanding
<1>10. Measured(s, n, i) = RoundTrip[n][s]
  <2>1. Cardinality(NewerPings(s, n, i)) + 1 - Outstanding(s, n) = 0
    BY <1>6, <1>9, FS_EmptySet
  <2> DEFINE newer == Cardinality(NewerPings(s, n, i)) + 1 - Outstanding(s, n)
  <2>2. newer = 0
    BY <2>1
  <2> HIDE DEF newer
  <2>3. Measured(s, n, i) =
          CASE newer = 0 -> RoundTrip[n][s]
            [] newer < 0 -> {t \in Elapsed : \E r \in RoundTrip[n][s] : t < r}
            [] newer > 0 -> IF pingTime[n][i] = NotAnswered
                            THEN UNION {MoreThan(r) : r \in RoundTrip[n][s]}
                            ELSE MoreThan(pingTime[n][i])
    BY DEF Measured, newer
  <2> QED
    BY <2>2, <2>3
<1> QED
  BY <1>3, <1>5, <1>10

\* The entry of s is answered.
LEMMA AnsweredTable ==
  ASSUME IInv, TableInv, NEW s \in Node, NEW n \in Node, NEW i \in PingSlot,
         pings[n][i] = s, pingTime[n][i] = NotAnswered, NEW time \in RoundTrip[n][s],
         pingTime' = [pingTime EXCEPT ![n][i] = time],
         UNCHANGED <<pings, numPings>>
  PROVE  /\ TableInv' /\ Entries' = Entries
         /\ Opens' = Opens \ {<<n, s>>} /\ Closed' = Closed \cup {<<n, s>>}
         /\ <<n, s>> \in Opens
         /\ pingTime'[n][i] = time /\ time # NotAnswered
         /\ \A x \in Node : \A j \in PingSlot :
              x # n \/ j # i => pingTime'[x][j] = pingTime[x][j]
<1>1. pings' = pings /\ numPings' = numPings
  OBVIOUS
<1>2. time # NotAnswered
  BY RoundTripTime
<1>3. pingTime'[n][i] = time
      /\ \A x \in Node : \A j \in PingSlot :
           x # n \/ j # i => pingTime'[x][j] = pingTime[x][j]
  BY DEF IInv, PingInv
<1>4. TableInv'
  <2> SUFFICES ASSUME NEW p \in Node
               PROVE  \A j \in PingSlot : pings[p][j] \in Node /\ pingTime'[p][j] # NotAnswered =>
                        pingTime'[p][j] \in RoundTrip[p][pings[p][j]]
    BY <1>1 DEF TableInv
  <2> QED
    BY <1>3 DEF TableInv
<1>5. Entries' = Entries
  BY <1>1 DEF Entries
<1>6. \A j \in PingSlot : pings[n][j] = s => j = i
  BY DEF TableInv
<1>7. ASSUME NEW x \in Node, NEW y \in Node
      PROVE  /\ <<x, y>> \in Opens' <=> <<x, y>> \in Opens \ {<<n, s>>}
             /\ <<x, y>> \in Closed' <=> <<x, y>> \in Closed \cup {<<n, s>>}
  <2>1. /\ <<x, y>> \in Opens' <=>
             \E j \in PingSlot : pings[x][j] = y /\ pingTime'[x][j] = NotAnswered
        /\ <<x, y>> \in Closed' <=>
             \E j \in PingSlot : pings[x][j] = y /\ pingTime'[x][j] # NotAnswered
    BY <1>1 DEF Opens, Closed
  <2>2. /\ <<x, y>> \in Opens <=>
             \E j \in PingSlot : pings[x][j] = y /\ pingTime[x][j] = NotAnswered
        /\ <<x, y>> \in Closed <=>
             \E j \in PingSlot : pings[x][j] = y /\ pingTime[x][j] # NotAnswered
    BY DEF Opens, Closed
  <2>3. CASE x = n /\ y = s
    BY <1>2, <1>3, <1>6, <2>1, <2>3
  <2>4. CASE ~(x = n /\ y = s)
    <3>1. \A j \in PingSlot : pings[x][j] = y => pingTime'[x][j] = pingTime[x][j]
      BY <1>3, <2>4
    <3> QED
      BY <2>1, <2>2, <2>4, <3>1
  <2> QED
    BY <2>3, <2>4
<1>8. Opens' = Opens \ {<<n, s>>}
  <2> DEFINE B == Opens \ {<<n, s>>}
  <2>1. /\ B \in SUBSET (Node \X Node) /\ Opens' \in SUBSET (Node \X Node)
        /\ \A x, y \in Node : <<x, y>> \in Opens' <=> <<x, y>> \in B
    BY <1>7 DEF Opens
  <2> HIDE DEF B
  <2>2. Opens' = B
    BY <2>1, SameRelation
  <2> QED
    BY <2>2 DEF B
<1>9. Closed' = Closed \cup {<<n, s>>}
  <2> DEFINE B == Closed \cup {<<n, s>>}
  <2>1. /\ B \in SUBSET (Node \X Node) /\ Closed' \in SUBSET (Node \X Node)
        /\ \A x, y \in Node : <<x, y>> \in Closed' <=> <<x, y>> \in B
    BY <1>7 DEF Closed
  <2> HIDE DEF B
  <2>2. Closed' = B
    BY <2>1, SameRelation
  <2> QED
    BY <2>2 DEF B
<1>10. <<n, s>> \in Opens
  BY DEF Opens
<1> QED
  BY <1>2, <1>3, <1>4, <1>5, <1>8, <1>9, <1>10

\* The searches stay while an attacher answers: none of them waits for it.
LEMMA AttacherSearch ==
  ASSUME IInv, StackInv, TableInv, NEW s \in Node, NEW n \in Node, NEW i \in PingSlot,
         pings[n][i] = s, pingTime[n][i] = NotAnswered, i \notin possibleParentsSet[n],
         pings' = pings, UNCHANGED searchVars, pingTime'[n][i] # NotAnswered,
         \A x \in Node : \A j \in PingSlot :
           x # n \/ j # i => pingTime'[x][j] = pingTime[x][j]
  PROVE  /\ StackInv' /\ Pendings' = Pendings \ {<<n, s>>} /\ <<n, s>> \in Pendings
         /\ Candidates' = Candidates /\ Searching' = Searching
<1>1. /\ possibleParentsStk' = possibleParentsStk
      /\ possibleParentsSet' = possibleParentsSet
      /\ possibleParentsCntr' = possibleParentsCntr
  BY DEF searchVars
<1>2. \A x \in Node : \A j \in Range(possibleParentsStk[x]) : j \in PingSlot
  BY StackSlots
<1>3. \A x \in Node : \A j \in possibleParentsSet[x] : j \in PingSlot
  BY DEF IInv, SearchInv
<1>4. StackInv'
  <2> SUFFICES ASSUME NEW p \in Node
               PROVE  /\ \A j \in possibleParentsSet[p] :
                           pings[p][j] \in Node /\ pingTime'[p][j] = NotAnswered
                      /\ \A j \in Range(possibleParentsStk[p]) :
                           /\ pings[p][j] \in Node
                           /\ j \in possibleParentsSet[p] \/ pingTime'[p][j] # NotAnswered
                      /\ possibleParentsSet[p] \subseteq Range(possibleParentsStk[p])
                      /\ Distinct(possibleParentsStk[p])
                      /\ possibleParentsCntr[p] = Cardinality(possibleParentsSet[p])
    BY <1>1 DEF StackInv
  <2>1. \A j \in possibleParentsSet[p] :
          pings[p][j] \in Node /\ pingTime'[p][j] = NotAnswered
    BY <1>3 DEF StackInv
  <2>2. \A j \in Range(possibleParentsStk[p]) :
          /\ pings[p][j] \in Node
          /\ j \in possibleParentsSet[p] \/ pingTime'[p][j] # NotAnswered
    BY <1>2 DEF StackInv
  <2> QED
    BY <2>1, <2>2 DEF StackInv
<1>5. Candidates' = Candidates /\ Searching' = Searching
  BY <1>1 DEF Candidates, Searching
<1>6. \A j \in PingSlot : pings[n][j] = s => j = i
  BY DEF TableInv
<1>7. <<n, s>> \in Pendings
  BY SearchRelations
<1>8. \A x, y \in Node : <<x, y>> \in Pendings' <=> <<x, y>> \in Pendings \ {<<n, s>>}
  <2> TAKE x, y \in Node
  <2>1. CASE x = n /\ y = s
    BY <1>6, <2>1, SearchRelations
  <2>2. CASE ~(x = n /\ y = s)
    <3>1. \A j \in PingSlot : pings[x][j] = y => pingTime'[x][j] = pingTime[x][j]
      BY <2>2
    <3> QED
      BY <1>1, <2>2, <3>1, SearchRelations
  <2> QED
    BY <2>1, <2>2
<1>9. Pendings' = Pendings \ {<<n, s>>}
  <2> DEFINE B == Pendings \ {<<n, s>>}
  <2>1. /\ B \in SUBSET (Node \X Node) /\ Pendings' \in SUBSET (Node \X Node)
        /\ \A x, y \in Node : <<x, y>> \in Pendings' <=> <<x, y>> \in B
    BY <1>8 DEF Pendings
  <2> HIDE DEF B
  <2>2. Pendings' = B
    BY <2>1, SameRelation
  <2> QED
    BY <2>2 DEF B
<1> QED
  BY <1>4, <1>5, <1>7, <1>9

\* AddChild adds an edge to a node that has no parent.
LEMMA AddedChild ==
  ASSUME TreeInv, ChildInv, NEW n \in Node, NEW s \in NonRoot, NEW time \in RoundTrip[n][s],
         <<n, s>> \notin Edges, NEW nt, AddChild(n, s, time, nt)
  PROVE  /\ ChildInv' /\ Edges' = Edges \cup {<<n, s>>} /\ n \notin Full
         /\ \A p \in Full : p \in Full' /\ children'[p] = children[p]
<1> DEFINE q == children[n]
           t == shortestPing[n]
<1>1. /\ q \in Seq(NonRoot) /\ t \in Seq(0..LongestPing) /\ Len(t) = Len(q)
      /\ Len(q) \in Nat
  BY LenProperties DEF TreeInv
<1>2. /\ children' = [children EXCEPT ![n] = Append(q, s)]
      /\ shortestPing' = [shortestPing EXCEPT ![n] = Append(t, time)]
      /\ serializedChildren' = [serializedChildren EXCEPT ![n] = SerializeChildren(children'[n])]
      /\ Len(q) < MAX_FANOUT
  BY DEF AddChild, HasRoom, Serialized
<1>3. /\ children'[n] = Append(q, s) /\ shortestPing'[n] = Append(t, time)
      /\ serializedChildren'[n] = SerializeChildren(children'[n])
      /\ \A x \in Node : x # n =>
           /\ children'[x] = children[x] /\ shortestPing'[x] = shortestPing[x]
           /\ serializedChildren'[x] = serializedChildren[x]
  BY <1>2 DEF TreeInv
<1>4. n \notin Full
  BY <1>2, Sizes DEF Full
<1>5. \A p \in Full : p \in Full' /\ children'[p] = children[p]
  BY <1>3, <1>4 DEF Full
<1>6. \A j \in DOMAIN q : q[j] # s
  BY DEF Edges, Child, Range, NonRoot
<1>7. /\ \A j \in DOMAIN q : t[j] \in RoundTrip[n][q[j]]
      /\ \A i, j \in DOMAIN q : q[i] = q[j] => i = j
  BY DEF ChildInv
<1> HIDE DEF q, t
<1>8. /\ DOMAIN Append(q, s) = 1..(Len(q) + 1)
      /\ DOMAIN q = 1..Len(q) /\ DOMAIN t = 1..Len(q)
      /\ \A j \in 1..Len(q) : Append(q, s)[j] = q[j] /\ Append(t, time)[j] = t[j]
      /\ Append(q, s)[Len(q) + 1] = s /\ Append(t, time)[Len(q) + 1] = time
  BY <1>1
<1>9. ChildInv'
  <2> SUFFICES ASSUME NEW p \in Node
               PROVE  /\ \A j \in DOMAIN children'[p] :
                           shortestPing'[p][j] \in RoundTrip[p][children'[p][j]]
                      /\ \A i, j \in DOMAIN children'[p] :
                           children'[p][i] = children'[p][j] => i = j
                      /\ children'[p] # <<>> =>
                           serializedChildren'[p] = SerializeChildren(children'[p])
    BY DEF ChildInv
  <2>1. CASE p # n
    BY <1>3, <2>1 DEF ChildInv
  <2>2. CASE p = n
    <3>1. \A j \in 1..(Len(q) + 1) : j \in 1..Len(q) \/ j = Len(q) + 1
      BY <1>1
    <3>2. \A j \in 1..(Len(q) + 1) : Append(t, time)[j] \in RoundTrip[n][Append(q, s)[j]]
      BY <1>7, <1>8, <3>1
    <3>3. \A i, j \in 1..(Len(q) + 1) : Append(q, s)[i] = Append(q, s)[j] => i = j
      BY <1>6, <1>7, <1>8, <3>1
    <3> DEFINE hosts == Append(q, s)
               times == Append(t, time)
    <3>4. children'[p] = hosts /\ shortestPing'[p] = times
          /\ serializedChildren'[p] = SerializeChildren(children'[p])
      BY <1>3, <2>2
    <3>5. /\ DOMAIN hosts = 1..(Len(q) + 1)
          /\ \A j \in 1..(Len(q) + 1) : times[j] \in RoundTrip[p][hosts[j]]
          /\ \A i, j \in 1..(Len(q) + 1) : hosts[i] = hosts[j] => i = j
      BY <1>8, <2>2, <3>2, <3>3
    <3> HIDE DEF hosts, times
    <3> QED
      BY <3>4, <3>5
  <2> QED
    BY <2>1, <2>2
<1>10. \A x, y \in Node : <<x, y>> \in Edges' <=> <<x, y>> \in Edges \cup {<<n, s>>}
  <2> TAKE x, y \in Node
  <2>1. /\ <<x, y>> \in Edges <=> \E j \in DOMAIN children[x] : children[x][j] = y
        /\ <<x, y>> \in Edges' <=> \E j \in DOMAIN children'[x] : children'[x][j] = y
    BY DEF Edges, Child, Range
  <2>2. CASE x # n
    BY <1>3, <2>1, <2>2
  <2>3. CASE x = n
    <3>1. (\E j \in DOMAIN Append(q, s) : Append(q, s)[j] = y) <=>
            (\E j \in DOMAIN q : q[j] = y) \/ y = s
      <4>1. \A j \in 1..(Len(q) + 1) : j \in 1..Len(q) \/ j = Len(q) + 1
        BY <1>1
      <4>2. /\ 1..Len(q) \subseteq 1..(Len(q) + 1)
            /\ Len(q) + 1 \in 1..(Len(q) + 1)
        BY <1>1
      <4> QED
        BY <1>8, <4>1, <4>2
    <3> QED
      BY <1>3, <2>1, <2>3, <3>1 DEF q
  <2> QED
    BY <2>2, <2>3
<1>11. Edges' = Edges \cup {<<n, s>>}
  <2> DEFINE B == Edges \cup {<<n, s>>}
  <2>1. /\ B \in SUBSET (Node \X Node) /\ Edges' \in SUBSET (Node \X Node)
        /\ \A x, y \in Node : <<x, y>> \in Edges' <=> <<x, y>> \in B
    BY <1>10 DEF Edges, NonRoot
  <2> HIDE DEF B
  <2>2. Edges' = B
    BY <2>1, SameRelation
  <2> QED
    BY <2>2 DEF B
<1> QED
  BY <1>4, <1>5, <1>9, <1>11

\* Whoever loses its place is sent a REATTACH.
LEMMA SentAway ==
  ASSUME TreeInv, NEW n \in Node, NEW s \in NonRoot, NEW time, NEW nt \in SafeNet,
         ReplaceChild(n, s, time, nt)
  PROVE  ~NobodySentAway'
<1> DEFINE m    == Packet("REATTACH")
           note == Packet("ATTACHSUCCESS")
<1>1. PICK j \in DOMAIN children[n] : net' = Exchange(nt, n, children[n][j], s)
  BY DEF ReplaceChild, MaxPingIndex
<1> DEFINE c == children[n][j]
<1>2. s \in Node /\ c \in Node /\ c # Root
  BY LenProperties, ElementOfSeq DEF TreeInv, NonRoot
<1>3. m.type = "REATTACH" /\ note.type # "REATTACH"
  BY DEF Packet
<1>4. m \in SafePackets(n, c)
  BY <1>2, PlainPacketSafe DEF PacketType
<1>5. Post(nt, n, c, m) \in SafeNet
  BY <1>2, <1>4, PostSafe
<1>6. net' = Post(Post(nt, n, c, m), n, s, note)
  BY <1>1 DEF Exchange
<1> HIDE DEF m, note, c
<1>7. PICK nu \in SafeNet : nu = Sent(nt, n, {c}, m) /\ net' = Sent(nu, n, {s}, note)
  <2>1. Post(nt, n, c, m) = Sent(nt, n, {c}, m)
    BY <1>2, PostIsSent
  <2>2. \A nu \in SafeNet : Post(nu, n, s, note) = Sent(nu, n, {s}, note)
    BY <1>2, PostIsSent
  <2> QED
    BY <1>5, <1>6, <2>1, <2>2
<1>8. nt[n][c] \in Seq(PacketsOK) /\ nu[n][c] \in Seq(PacketsOK)
  BY <1>2 DEF SafeNet
<1>9. Has(nu[n][c], "REATTACH")
  <2>1. nu[n][c] = Append(nt[n][c], m)
    BY <1>2, <1>7 DEF Sent
  <2> QED
    BY <1>3, <1>8, <2>1, AppendQueue
<1>10. Has(net'[n][c], "REATTACH")
  <2>1. net'[n][c] \in {nu[n][c], Append(nu[n][c], note)}
    BY <1>2, <1>7 DEF Sent
  <2>2. Has(Append(nu[n][c], note), "REATTACH")
    BY <1>8, <1>9, AppendQueue
  <2> QED
    BY <1>9, <2>1, <2>2
<1>11. \A x, y \in Node : <<x, y>> \in Reattaches' <=> Has(net'[x][y], "REATTACH")
  BY DEF Reattaches, Packets
<1> QED
  BY <1>2, <1>10, <1>11 DEF NobodySentAway

\* An attacher is adopted or refused: it takes nobody's place.
LEMMA AddedOrRefused ==
  ASSUME EqualRoundTrips \/ NobodySentAway',
         TreeInv, ChildInv, NEW n \in Node, NEW s \in NonRoot,
         <<n, s>> \notin Edges, NEW time \in RoundTrip[n][s], NEW nt \in SafeNet,
         UpdateChildren(n, s, time, nt)
  PROVE  \/ AddChild(n, s, time, nt)
         \/ Redirect(n, s, time, nt) /\ n \in Full
<1>0. s \in Node
  BY DEF NonRoot
<1>1. ~RefreshChild(n, s, time, nt)
  <2> SUFFICES ASSUME NEW j \in DOMAIN children[n], children[n][j] = s PROVE FALSE
    BY DEF RefreshChild
  <2> QED
    BY <1>0 DEF Edges, Child, Range
<1>2. ~ReplaceChild(n, s, time, nt)
  <2> SUFFICES ASSUME ~NobodySentAway',
                      NEW j \in DOMAIN children[n], time < shortestPing[n][j]
               PROVE  FALSE
    BY SentAway DEF ReplaceChild, MaxPingIndex, Beats
  <2>1. children[n] \in Seq(NonRoot)
    BY DEF TreeInv
  <2>2. children[n][j] \in Node
    BY <2>1, ElementOfSeq, LenProperties DEF NonRoot
  <2>3. shortestPing[n][j] \in RoundTrip[n][children[n][j]]
    BY DEF ChildInv
  <2>4. time = shortestPing[n][j]
    BY <1>0, <2>2, <2>3 DEF EqualRoundTrips
  <2>5. time \in 1..LongestPing
    BY <1>0, RoundTripTime
  <2> QED
    BY <2>4, <2>5, Markers
<1>3. Redirect(n, s, time, nt) => n \in Full
  <2> SUFFICES ASSUME ~(Len(children[n]) < MAX_FANOUT) PROVE n \in Full
    BY DEF Redirect, FullAndUnknown, HasRoom
  <2>1. children[n] \in Seq(NonRoot) /\ Len(children[n]) <= MAX_FANOUT
    BY DEF TreeInv
  <2>2. Len(children[n]) \in Nat
    BY <2>1, LenProperties
  <2> QED
    BY <2>1, <2>2, Sizes DEF Full
<1> QED
  BY <1>1, <1>2, <1>3 DEF UpdateChildren

\* A node of the tree with room adopts one that is not in it, or nothing changes.
GrowsByALeaf ==
  \/ Edges' = Edges
  \/ \E n \in Node, s \in NonRoot :
       /\ s \notin Adoptees
       /\ n = Root \/ n \in Adoptees
       /\ n \notin Full
       /\ Edges' = Edges \cup {<<n, s>>}

\* An attacher that answers gets a place, or a list of the children.
LEMMA PingRespAttacherOverlay ==
  ASSUME EqualRoundTrips \/ NobodySentAway', OverlayInv,
         NEW s \in Node, NEW n \in Node, PingRespAttacher(s, n)
  PROVE  DataInv' /\ WireInv' /\ PlaceInv' /\ NothingForgotten /\ NobodyReturns /\ GrowsByALeaf
<1>0. /\ IInv /\ DataInv /\ WireInv /\ PlaceInv
      /\ TableInv /\ StackInv /\ ChildInv /\ OnceInv /\ EchoInv /\ TryInv /\ NetInv /\ TreeInv
  BY DEF OverlayInv, DataInv, WireInv, IInv
<1>1. RelationInv
  BY <1>0, Relations
<1>2. PICK i \in PingSlot : \E time \in Measured(s, n, i) :
        /\ Matches(s, n, i) /\ ~Awaited(n, i)
        /\ pingTime' = [pingTime EXCEPT ![n][i] = time]
        /\ UpdateChildren(n, pings[n][i], time, Taken(s, n))
  BY DEF PingRespAttacher
<1>3. PICK time \in Measured(s, n, i) :
        /\ Matches(s, n, i) /\ i \notin possibleParentsSet[n]
        /\ pingTime' = [pingTime EXCEPT ![n][i] = time]
        /\ UpdateChildren(n, pings[n][i], time, Taken(s, n))
  BY <1>2 DEF Awaited
<1>4. /\ Receive(s, n, "PINGRESPONSE") /\ pings' = pings /\ numPings' = numPings
      /\ net[s][n] # <<>> /\ Head(net[s][n]).type = "PINGRESPONSE"
      /\ UNCHANGED searchVars /\ UNCHANGED status
  BY DEF PingRespAttacher, Receive
<1>5. pings[n][i] = s /\ pingTime[n][i] = NotAnswered /\ time \in RoundTrip[n][s]
  BY <1>0, <1>3, <1>4, AnswerBooked
<1>6. /\ TableInv' /\ Entries' = Entries
      /\ Opens' = Opens \ {<<n, s>>} /\ Closed' = Closed \cup {<<n, s>>}
      /\ <<n, s>> \in Opens
      /\ pingTime'[n][i] = time /\ time # NotAnswered
      /\ \A x \in Node : \A j \in PingSlot :
           x # n \/ j # i => pingTime'[x][j] = pingTime[x][j]
  <2>1. IInv /\ TableInv
    BY <1>0
  <2>2. pings[n][i] = s /\ pingTime[n][i] = NotAnswered /\ time \in RoundTrip[n][s]
    BY <1>5
  <2>3. pingTime' = [pingTime EXCEPT ![n][i] = time]
    BY <1>3
  <2>4. UNCHANGED <<pings, numPings>>
    BY <1>4
  <2> QED
    BY <2>1, <2>2, <2>3, <2>4, AnsweredTable
<1>7. /\ StackInv' /\ Pendings' = Pendings \ {<<n, s>>} /\ <<n, s>> \in Pendings
      /\ Candidates' = Candidates /\ Searching' = Searching
  BY <1>0, <1>3, <1>4, <1>5, <1>6, AttacherSearch
<1>8. Idle' = Idle
  BY <1>4, IdleStays
<1>9. s \in NonRoot /\ s \notin Adoptees /\ <<n, s>> \notin Edges
  <2>1. s \in NonRoot
    BY <1>1, <1>6 DEF RelationInv
  <2>2. s \notin Adoptees
    BY <1>0, <1>7, OneEngagement DEF PlaceInv
  <2> QED
    BY <2>1, <2>2 DEF Adoptees
<1>10. n = Root \/ n \in Adoptees
  BY <1>0, <1>1, <1>6, <1>9 DEF PlaceInv, SeekInv, RelationInv, Approachable
<1>11. <<n, s>> \notin Tries
  <2>1. <<"ping", n, s>> \in Engagements
    BY <1>7, Engages
  <2>2. <<"try", n, s>> \in Engagements => <<"ping", n, s>> = <<"try", n, s>>
    BY <1>0, <2>1 DEF PlaceInv, Exclusive
  <2> QED
    BY <2>2, Engages
<1>12. Taken(s, n) \in SafeNet
  BY <1>0, <1>4, TakenSafe
<1>13. <<s, n>> \in Answers /\ <<n, s>> \notin Questions
  BY <1>0, <1>4, TakenQueues DEF Answers, EchoInv
<1>14. \/ AddChild(n, s, time, Taken(s, n))
       \/ Redirect(n, s, time, Taken(s, n)) /\ n \in Full
  BY <1>0, <1>3, <1>5, <1>9, <1>12, AddedOrRefused
<1>15. CASE AddChild(n, s, time, Taken(s, n))
  <2> DEFINE m == Packet("ATTACHSUCCESS")
  <2>1. /\ ChildInv' /\ Edges' = Edges \cup {<<n, s>>} /\ n \notin Full
        /\ \A p \in Full : p \in Full' /\ children'[p] = children[p]
    BY <1>0, <1>5, <1>9, <1>15, AddedChild
  <2>2. m.type = "ATTACHSUCCESS"
    BY DEF Packet
  <2>3. net' = Sent(Taken(s, n), n, {s}, m)
    BY <1>12, <1>15, PostIsSent DEF AddChild
  <2> HIDE DEF m
  <2>4. OnceInv' /\ Exchanged(s, n, "PINGRESPONSE", {s}, "ATTACHSUCCESS")
    <3>1. \A y \in {s} : <<n, y>> \notin Packets(net, m.type)
      BY <1>0, <1>9, <2>2 DEF EchoInv, Successes, NonRoot
    <3> QED
      BY <1>0, <1>4, <2>2, <2>3, <3>1, WireStep
  <2>5. /\ Attaches' = Attaches /\ Tries' = Tries
        /\ Questions' = Questions /\ Answers' = Answers \ {<<s, n>>}
        /\ Successes' = Successes \cup {<<n, s>>}
    BY <2>4 DEF Exchanged, Attaches, Tries, Questions, Answers, Successes, Single
  <2>6. TryInv'
    <3>1. Delivery(s, n, {s}, m)
      BY <1>4, <2>3 DEF Delivery
    <3> QED
      BY <1>0, <2>1, <2>2, <3>1, TryKept
  <2>7. EchoInv'
    BY <1>0, <1>6, <1>13, <2>1, <2>5 DEF EchoInv
  <2>8. PlaceInv'
    BY <1>0, <1>1, <1>6, <1>7, <1>8, <1>9, <2>1, <2>5, AdoptedPlace
  <2>9. NothingForgotten /\ NobodyReturns
    BY <1>6, <1>7, <2>1, <2>5 DEF NothingForgotten, NobodyReturns, Placed, Adoptees
  <2> QED
    BY <1>6, <1>7, <1>9, <1>10, <2>1, <2>4, <2>6, <2>7, <2>8, <2>9
       DEF DataInv, WireInv, GrowsByALeaf
<1>16. CASE Redirect(n, s, time, Taken(s, n)) /\ n \in Full
  <2> DEFINE m == serializedChildren[n]
  <2>1. /\ ChildInv' /\ Edges' = Edges
        /\ \A p \in Full : p \in Full' /\ children'[p] = children[p]
    BY <1>0, <1>16, TreeStays DEF Redirect
  <2>2. m = SerializeChildren(children[n]) /\ m.type = "TRY"
    <3>1. children[n] # <<>>
      BY <1>16, Sizes, EmptySeq DEF Full
    <3> QED
      BY <1>0, <3>1 DEF ChildInv, SerializeChildren
  <2>3. net' = Sent(Taken(s, n), n, {s}, m)
    BY <1>12, <1>16, PostIsSent DEF Redirect
  <2> HIDE DEF m
  <2>4. OnceInv' /\ Exchanged(s, n, "PINGRESPONSE", {s}, "TRY")
    <3>1. \A y \in {s} : <<n, y>> \notin Packets(net, m.type)
      BY <1>11, <2>2 DEF Tries
    <3> QED
      BY <1>0, <1>4, <2>2, <2>3, <3>1, WireStep
  <2>5. /\ Attaches' = Attaches /\ Tries' = Tries \cup {<<n, s>>}
        /\ Questions' = Questions /\ Answers' = Answers \ {<<s, n>>}
        /\ Successes' = Successes
    BY <2>4 DEF Exchanged, Attaches, Tries, Questions, Answers, Successes, Single
  <2>6. TryInv'
    <3>1. Delivery(s, n, {s}, m)
      BY <1>4, <2>3 DEF Delivery
    <3> QED
      BY <1>0, <1>16, <2>1, <2>2, <3>1, TryKept
  <2>7. EchoInv'
    BY <1>0, <1>6, <1>13, <2>1, <2>5 DEF EchoInv
  <2>8. PlaceInv'
    BY <1>0, <1>1, <1>6, <1>7, <1>8, <1>9, <2>1, <2>5, RefusedPlace
  <2>9. NothingForgotten /\ NobodyReturns
    BY <1>6, <1>7, <2>1, <2>5 DEF NothingForgotten, NobodyReturns, Placed, Adoptees
  <2> QED
    BY <1>6, <1>7, <2>1, <2>4, <2>6, <2>7, <2>8, <2>9 DEF DataInv, WireInv, GrowsByALeaf
<1> QED
  BY <1>14, <1>15, <1>16

\* The search of n has got the answer of slot i.
SlotAnswered(n, i) ==
  /\ pings' = pings /\ pingTime'[n][i] # NotAnswered
  /\ \A x \in Node : \A j \in PingSlot :
       x # n \/ j # i => pingTime'[x][j] = pingTime[x][j]
  /\ possibleParentsSet' = [possibleParentsSet EXCEPT ![n] = possibleParentsSet[n] \ {i}]
  /\ possibleParentsCntr' =
       [possibleParentsCntr EXCEPT ![n] = (possibleParentsCntr[n] - 1) % (MaxByte + 1)]

\* The counter is zero with the last answer, and not before.
LEMMA CountedDown ==
  ASSUME IInv, StackInv, NEW n \in Node, NEW i \in possibleParentsSet[n], SlotAnswered(n, i)
  PROVE  /\ possibleParentsSet'[n] = possibleParentsSet[n] \ {i}
         /\ possibleParentsCntr'[n] = Cardinality(possibleParentsSet'[n])
         /\ possibleParentsCntr'[n] = 0 <=> possibleParentsSet'[n] = {}
         /\ \A x \in Node : x # n =>
              /\ possibleParentsSet'[x] = possibleParentsSet[x]
              /\ possibleParentsCntr'[x] = possibleParentsCntr[x]
<1> DEFINE S == possibleParentsSet[n]
           k == possibleParentsCntr[n]
<1>1. S \in SUBSET PingSlot /\ k \in 0..MaxByte
  BY DEF IInv, SearchInv
<1>2. IsFiniteSet(PingSlot)
  BY FS_Interval, Sizes DEF PingSlot
<1>3. IsFiniteSet(S)
  BY <1>1, <1>2, FS_Subset
<1>4. /\ IsFiniteSet(S \ {i}) /\ Cardinality(S \ {i}) = Cardinality(S) - 1
      /\ Cardinality(S) \in Nat /\ Cardinality(S \ {i}) \in Nat
  BY <1>3, FS_RemoveElement, FS_CardinalityType
<1>5. k = Cardinality(S)
  BY DEF StackInv
<1>6. (k - 1) % (MaxByte + 1) = k - 1
  <2>1. k - 1 \in 0..MaxByte
    BY <1>1, <1>4, <1>5, Bytes
  <2> QED
    BY <2>1, ByteRemainder
<1>7. possibleParentsSet'[n] = S \ {i} /\ possibleParentsCntr'[n] = k - 1
  BY <1>6 DEF SlotAnswered, IInv, SearchInv
<1>8. Cardinality(S \ {i}) = 0 <=> S \ {i} = {}
  BY <1>4, FS_EmptySet
<1>9. \A x \in Node : x # n => /\ possibleParentsSet'[x] = possibleParentsSet[x]
                              /\ possibleParentsCntr'[x] = possibleParentsCntr[x]
  BY DEF SlotAnswered, IInv, SearchInv
<1> QED
  BY <1>4, <1>5, <1>7, <1>8, <1>9

\* The answer is not that of an attacher.
LEMMA AwaitedAnswer ==
  ASSUME IInv, NEW n \in Node, NEW i \in possibleParentsSet[n], SlotAnswered(n, i)
  PROVE  Pendings' = Pendings
<1>1. possibleParentsSet[n] \in SUBSET PingSlot
  BY DEF IInv, SearchInv
<1>2. \A x \in Node : \A j \in PingSlot :
        /\ x # n \/ j # i => /\ pingTime'[x][j] = pingTime[x][j]
                             /\ j \in possibleParentsSet'[x] <=> j \in possibleParentsSet[x]
        /\ x = n /\ j = i => pingTime'[x][j] # NotAnswered /\ j \in possibleParentsSet[x]
  BY DEF SlotAnswered, IInv, SearchInv
<1>3. pings' = pings
  BY DEF SlotAnswered
<1>4. \A x, y \in Node : <<x, y>> \in Pendings' <=> <<x, y>> \in Pendings
  <2> TAKE x, y \in Node
  <2>1. \A j \in PingSlot :
          (pingTime'[x][j] = NotAnswered /\ j \notin possibleParentsSet'[x]) <=>
          (pingTime[x][j] = NotAnswered /\ j \notin possibleParentsSet[x])
    BY <1>2
  <2> QED
    BY <1>3, <2>1, SearchRelations
<1>5. Pendings \in SUBSET (Node \X Node) /\ Pendings' \in SUBSET (Node \X Node)
  BY DEF Pendings
<1> QED
  BY <1>4, <1>5, SameRelation

\* The search waits for the others.
LEMMA WaitingSearch ==
  ASSUME IInv, StackInv, NEW n \in Node, NEW i \in possibleParentsSet[n], SlotAnswered(n, i),
         possibleParentsCntr'[n] # 0, possibleParentsStk' = possibleParentsStk
  PROVE  StackInv' /\ Candidates' = Candidates /\ Searching' = Searching
<1>1. /\ possibleParentsSet'[n] = possibleParentsSet[n] \ {i}
      /\ possibleParentsCntr'[n] = Cardinality(possibleParentsSet'[n])
      /\ possibleParentsSet'[n] # {}
      /\ \A x \in Node : x # n =>
           /\ possibleParentsSet'[x] = possibleParentsSet[x]
           /\ possibleParentsCntr'[x] = possibleParentsCntr[x]
  BY CountedDown
<1>2. /\ pings' = pings /\ pingTime'[n][i] # NotAnswered
      /\ \A x \in Node : \A j \in PingSlot :
           x # n \/ j # i => pingTime'[x][j] = pingTime[x][j]
  BY DEF SlotAnswered
<1>3. \A x \in Node : \A j \in Range(possibleParentsStk[x]) : j \in PingSlot
  BY StackSlots
<1>4. \A x \in Node : \A j \in possibleParentsSet[x] : j \in PingSlot
  BY DEF IInv, SearchInv
<1>5. StackInv'
  <2> SUFFICES ASSUME NEW p \in Node
               PROVE  /\ \A j \in possibleParentsSet'[p] :
                           pings[p][j] \in Node /\ pingTime'[p][j] = NotAnswered
                      /\ \A j \in Range(possibleParentsStk[p]) :
                           /\ pings[p][j] \in Node
                           /\ j \in possibleParentsSet'[p] \/ pingTime'[p][j] # NotAnswered
                      /\ possibleParentsSet'[p] \subseteq Range(possibleParentsStk[p])
                      /\ Distinct(possibleParentsStk[p])
                      /\ possibleParentsCntr'[p] = Cardinality(possibleParentsSet'[p])
    BY <1>2 DEF StackInv
  <2>1. \A j \in possibleParentsSet'[p] :
          pings[p][j] \in Node /\ pingTime'[p][j] = NotAnswered
    BY <1>1, <1>2, <1>4 DEF StackInv
  <2>2. \A j \in Range(possibleParentsStk[p]) :
          /\ pings[p][j] \in Node
          /\ j \in possibleParentsSet'[p] \/ pingTime'[p][j] # NotAnswered
    <3> TAKE j \in Range(possibleParentsStk[p])
    <3>1. CASE p = n /\ j = i
      BY <1>2, <3>1 DEF StackInv
    <3>2. CASE ~(p = n /\ j = i)
      BY <1>1, <1>2, <1>3, <3>2 DEF StackInv
    <3> QED
      BY <3>1, <3>2
  <2>3. /\ possibleParentsSet'[p] \subseteq Range(possibleParentsStk[p])
        /\ Distinct(possibleParentsStk[p])
    BY <1>1 DEF StackInv
  <2>4. possibleParentsCntr'[p] = Cardinality(possibleParentsSet'[p])
    BY <1>1 DEF StackInv
  <2> QED
    BY <2>1, <2>2, <2>3, <2>4
<1>6. Candidates' = Candidates
  BY <1>2 DEF Candidates
<1>7. Searching' = Searching
  BY <1>1 DEF Searching
<1> QED
  BY <1>5, <1>6, <1>7

\* Whoever has answered is better than nobody.
LEMMA AnyPingIsBetter ==
  LongestPing \in Nat /\ NoParentPing \in Nat /\ LongestPing < NoParentPing
BY SMT DEF LongestPing, NoParentPing

\* The first candidate that is popped is nearer than all before, of which there are none.
LEMMA FirstPoppedIsNearer ==
  ASSUME NEW stk \in Seq(PingSlot), stk # <<>>, NEW time,
         \A j \in DOMAIN stk : time[stk[j]] \in 1..LongestPing
  PROVE  Len(stk) \in DOMAIN stk /\ Nearer(stk, time, Len(stk))
<1>1. /\ Len(stk) \in Nat /\ Len(stk) >= 1
      /\ DOMAIN stk = 1..Len(stk) /\ Len(stk) \in DOMAIN stk
  BY LenProperties, EmptySeq
<1>2. time[stk[Len(stk)]] < NoParentPing
  BY <1>1, AnyPingIsBetter
<1>3. \A k \in (Len(stk) + 1)..Len(stk) : FALSE
  BY <1>1
<1> QED
  BY <1>1, <1>2, <1>3 DEF Nearer

\* What is put back on the stack was there, once, and is not the best.
LEMMA PutBack ==
  ASSUME NEW S, NEW stk \in Seq(S), Distinct(stk), NEW K \in SUBSET (DOMAIN stk),
         NEW best \in DOMAIN stk, best \notin K, NEW p \in Increasing(K),
         NEW q, q = [k \in DOMAIN p |-> stk[p[k]]]
  PROVE  Range(q) \subseteq Range(stk) \ {stk[best]} /\ Distinct(q)
<1>1. IsFiniteSet(DOMAIN stk)
  BY FS_Interval, LenProperties
<1>2. Cardinality(K) \in Nat
  BY <1>1, FS_Subset, FS_CardinalityType
<1>3. /\ p \in [1..Cardinality(K) -> K]
      /\ \A j, k \in DOMAIN p : j < k => p[j] < p[k]
  BY DEF Increasing
<1>4. \A k \in DOMAIN q : k \in Nat /\ k \in DOMAIN p /\ p[k] \in K /\ q[k] = stk[p[k]]
  BY <1>2, <1>3
<1>5. \A k \in K : k \in Nat /\ k \in DOMAIN stk
  BY LenProperties
<1>6. ASSUME NEW k \in DOMAIN q
      PROVE  q[k] \in Range(stk) /\ q[k] # stk[best]
  <2>1. p[k] \in DOMAIN stk /\ p[k] # best /\ q[k] = stk[p[k]]
    BY <1>4
  <2> QED
    BY <2>1 DEF Range, Distinct
<1>7. ASSUME NEW j \in DOMAIN q, NEW k \in DOMAIN q, q[j] = q[k]
      PROVE  j = k
  <2>1. p[j] = p[k]
    BY <1>4, <1>5, <1>7 DEF Distinct
  <2>2. p[j] \in Nat /\ ~(p[j] < p[j])
    BY <1>4, <1>5
  <2>3. ~(j < k) /\ ~(k < j)
    BY <1>3, <1>4, <2>1, <2>2
  <2> QED
    BY <1>4, <2>3
<1> QED
  BY <1>6, <1>7 DEF Range, Distinct

\* The last answer ends the search: one of the candidates, of this search or of an
\* earlier one, is asked for a place and leaves the stack.
LEMMA ChosenParent ==
  ASSUME IInv, StackInv, TableInv', NEW n \in Node,
         NEW i \in possibleParentsSet[n], SlotAnswered(n, i), possibleParentsCntr'[n] = 0,
         NEW nt, ChooseParent(n, pingTime'[n], nt)
  PROVE  /\ StackInv' /\ Searching' = Searching \ {n} /\ Candidates' \subseteq Candidates
         /\ \E c \in Node : /\ <<n, c>> \in Candidates /\ <<n, c>> \notin Candidates'
                            /\ net' = Post(nt, n, c, Packet("ATTACH"))
<1> DEFINE stk    == possibleParentsStk[n]
           time   == pingTime'[n]
           nearer == {j \in DOMAIN stk : Nearer(stk, time, j)}
<1>1. /\ possibleParentsSet'[n] = possibleParentsSet[n] \ {i}
      /\ possibleParentsCntr'[n] = Cardinality(possibleParentsSet'[n])
      /\ possibleParentsSet'[n] = {}
      /\ \A x \in Node : x # n =>
           /\ possibleParentsSet'[x] = possibleParentsSet[x]
           /\ possibleParentsCntr'[x] = possibleParentsCntr[x]
  BY CountedDown
<1>2. /\ pings' = pings /\ pingTime'[n][i] # NotAnswered
      /\ \A x \in Node : \A j \in PingSlot :
           x # n \/ j # i => pingTime'[x][j] = pingTime[x][j]
  BY DEF SlotAnswered
<1>3. \A x \in Node : \A j \in Range(possibleParentsStk[x]) : j \in PingSlot
  BY StackSlots
<1>4. stk \in Seq(PingSlot) /\ stk # <<>> /\ Distinct(stk)
  <2>1. i \in Range(stk)
    BY DEF StackInv
  <2>2. DOMAIN stk # {}
    BY <2>1 DEF Range
  <2> QED
    BY <2>2 DEF IInv, SearchInv, StackInv
<1>5. \A j \in Range(stk) : /\ pings[n][j] \in Node /\ time[j] # NotAnswered
                            /\ time[j] \in RoundTrip[n][pings[n][j]]
  <2> TAKE j \in Range(stk)
  <2>1. j \in PingSlot /\ pings[n][j] \in Node
    BY <1>3 DEF StackInv
  <2>2. pingTime'[n][j] # NotAnswered
    BY <1>1, <1>2, <2>1 DEF StackInv
  <2>3. pingTime'[n][j] \in RoundTrip[n][pings'[n][j]]
    BY <1>2, <2>1, <2>2 DEF TableInv
  <2> QED
    BY <1>2, <2>1, <2>2, <2>3
<1>6. \A j \in DOMAIN stk : stk[j] \in Range(stk) /\ time[stk[j]] \in 1..LongestPing
  <2> TAKE j \in DOMAIN stk
  <2>1. stk[j] \in Range(stk)
    BY DEF Range
  <2> QED
    BY <1>5, <2>1, RoundTripTime
<1>7. nearer # {}
  <2> HIDE DEF stk, time
  <2>1. Len(stk) \in DOMAIN stk /\ Nearer(stk, time, Len(stk))
    BY <1>4, <1>6, FirstPoppedIsNearer
  <2> QED
    BY <2>1
<1>8. PICK best \in nearer :
        /\ \E p \in Increasing(nearer \ {best}) :
             possibleParentsStk' =
               [possibleParentsStk EXCEPT ![n] = [k \in DOMAIN p |-> stk[p[k]]]]
        /\ nextPotentialParent' = [nextPotentialParent EXCEPT ![n] = pings[n][stk[best]]]
        /\ net' = Post(nt, n, nextPotentialParent'[n], Packet("ATTACH"))
  BY <1>7 DEF ChooseParent
<1> DEFINE c == pings[n][stk[best]]
<1>9. /\ Range(possibleParentsStk'[n]) \subseteq Range(stk) \ {stk[best]}
      /\ Distinct(possibleParentsStk'[n])
      /\ \A x \in Node : x # n => possibleParentsStk'[x] = possibleParentsStk[x]
  <2> DEFINE K == nearer \ {best}
  <2>1. PICK p \in Increasing(K) :
          possibleParentsStk' =
            [possibleParentsStk EXCEPT ![n] = [k \in DOMAIN p |-> stk[p[k]]]]
    BY <1>8
  <2>2. /\ possibleParentsStk'[n] = [k \in DOMAIN p |-> stk[p[k]]]
        /\ \A x \in Node : x # n => possibleParentsStk'[x] = possibleParentsStk[x]
    BY <2>1 DEF IInv, SearchInv
  <2>3. K \in SUBSET (DOMAIN stk) /\ best \in DOMAIN stk /\ best \notin K
    BY <1>8
  <2> DEFINE q == possibleParentsStk'[n]
  <2>4. q = [k \in DOMAIN p |-> stk[p[k]]]
    BY <2>2
  <2> HIDE DEF K, stk, q
  <2>5. Range(q) \subseteq Range(stk) \ {stk[best]} /\ Distinct(q)
    BY <1>4, <2>1, <2>3, <2>4, PutBack
  <2> QED
    BY <2>2, <2>5 DEF q
<1>10. stk[best] \in Range(stk) /\ stk[best] \in PingSlot /\ c \in Node
  BY <1>3, <1>5, <1>6, <1>8
<1>11. <<n, c>> \in Candidates
  BY <1>10, SearchRelations
<1>12. <<n, c>> \notin Candidates'
  <2> SUFFICES ASSUME NEW j \in Range(possibleParentsStk'[n]), pings[n][j] = c
               PROVE  FALSE
    BY <1>2, <1>10, SearchRelations
  <2>1. j \in PingSlot /\ j # stk[best]
    BY <1>3, <1>9
  <2> QED
    BY <1>2, <1>10, <2>1 DEF TableInv
<1>13. net' = Post(nt, n, c, Packet("ATTACH"))
  BY <1>8 DEF IInv, SearchInv
<1>14. Searching' = Searching \ {n}
  BY <1>1 DEF Searching
<1>15. Candidates' \subseteq Candidates
  <2>1. \A x \in Node : Range(possibleParentsStk'[x]) \subseteq Range(possibleParentsStk[x])
    BY <1>9
  <2> QED
    BY <1>2, <2>1 DEF Candidates
<1>16. StackInv'
  <2> SUFFICES ASSUME NEW p \in Node
               PROVE  /\ \A j \in possibleParentsSet'[p] :
                           pings[p][j] \in Node /\ pingTime'[p][j] = NotAnswered
                      /\ \A j \in Range(possibleParentsStk'[p]) :
                           /\ pings[p][j] \in Node
                           /\ j \in possibleParentsSet'[p] \/ pingTime'[p][j] # NotAnswered
                      /\ possibleParentsSet'[p] \subseteq Range(possibleParentsStk'[p])
                      /\ Distinct(possibleParentsStk'[p])
                      /\ possibleParentsCntr'[p] = Cardinality(possibleParentsSet'[p])
    BY <1>2 DEF StackInv
  <2>1. CASE p = n
    <3>1. \A j \in Range(possibleParentsStk'[p]) :
            pings[p][j] \in Node /\ pingTime'[p][j] # NotAnswered
      BY <1>5, <1>9, <2>1
    <3> QED
      BY <1>1, <1>9, <2>1, <3>1
  <2>2. CASE p # n
    <3>1. /\ possibleParentsStk'[p] = possibleParentsStk[p]
          /\ possibleParentsSet'[p] = possibleParentsSet[p]
          /\ possibleParentsCntr'[p] = possibleParentsCntr[p]
      BY <1>1, <1>9, <2>2
    <3>2. \A j \in PingSlot : pingTime'[p][j] = pingTime[p][j]
      BY <1>2, <2>2
    <3>3. \A j \in possibleParentsSet[p] : j \in PingSlot
      BY DEF IInv, SearchInv
    <3> QED
      BY <1>3, <3>1, <3>2, <3>3 DEF StackInv
  <2> QED
    BY <2>1, <2>2
<1> QED
  BY <1>10, <1>11, <1>12, <1>13, <1>14, <1>15, <1>16

\* A candidate that answers brings the search to its end or leaves it waiting.
LEMMA PingRespPossibleParentOverlay ==
  ASSUME OverlayInv, NEW s \in Node, NEW n \in Node, PingRespPossibleParent(s, n)
  PROVE  DataInv' /\ WireInv' /\ PlaceInv' /\ NothingForgotten /\ NobodyReturns
<1>0. /\ IInv /\ DataInv /\ WireInv /\ PlaceInv
      /\ TableInv /\ StackInv /\ ChildInv /\ OnceInv /\ EchoInv /\ TryInv /\ NetInv
  BY DEF OverlayInv, DataInv, WireInv, IInv
<1>1. RelationInv
  BY <1>0, Relations
<1>2. PICK i \in PingSlot : \E time \in Measured(s, n, i) :
        /\ Matches(s, n, i) /\ Awaited(n, i)
        /\ pingTime' = [pingTime EXCEPT ![n][i] = time]
        /\ possibleParentsCntr' =
             [possibleParentsCntr EXCEPT ![n] = (possibleParentsCntr[n] - 1) % (MaxByte + 1)]
        /\ possibleParentsSet' =
             [possibleParentsSet EXCEPT ![n] = possibleParentsSet[n] \ {i}]
        /\ IF possibleParentsCntr'[n] = 0
           THEN ChooseParent(n, pingTime'[n], Taken(s, n))
           ELSE /\ net' = Taken(s, n)
                /\ UNCHANGED <<possibleParentsStk, nextPotentialParent>>
  BY DEF PingRespPossibleParent
<1>3. PICK time \in Measured(s, n, i) :
        /\ Matches(s, n, i) /\ Awaited(n, i)
        /\ pingTime' = [pingTime EXCEPT ![n][i] = time]
        /\ possibleParentsCntr' =
             [possibleParentsCntr EXCEPT ![n] = (possibleParentsCntr[n] - 1) % (MaxByte + 1)]
        /\ possibleParentsSet' =
             [possibleParentsSet EXCEPT ![n] = possibleParentsSet[n] \ {i}]
        /\ IF possibleParentsCntr'[n] = 0
           THEN ChooseParent(n, pingTime'[n], Taken(s, n))
           ELSE /\ net' = Taken(s, n)
                /\ UNCHANGED <<possibleParentsStk, nextPotentialParent>>
  BY <1>2
<1>4. /\ Receive(s, n, "PINGRESPONSE") /\ pings' = pings /\ numPings' = numPings
      /\ net[s][n] # <<>> /\ Head(net[s][n]).type = "PINGRESPONSE"
      /\ UNCHANGED treeVars /\ UNCHANGED status
  BY DEF PingRespPossibleParent, Receive
<1>5. /\ pings[n][i] = s /\ pingTime[n][i] = NotAnswered /\ time \in RoundTrip[n][s]
      /\ i \in possibleParentsSet[n]
  BY <1>0, <1>3, <1>4, AnswerBooked DEF Awaited
<1>6. /\ TableInv' /\ Entries' = Entries
      /\ Opens' = Opens \ {<<n, s>>} /\ Closed' = Closed \cup {<<n, s>>}
      /\ <<n, s>> \in Opens
      /\ pingTime'[n][i] = time /\ time # NotAnswered
      /\ \A x \in Node : \A j \in PingSlot :
           x # n \/ j # i => pingTime'[x][j] = pingTime[x][j]
  <2>1. IInv /\ TableInv
    BY <1>0
  <2>2. pings[n][i] = s /\ pingTime[n][i] = NotAnswered /\ time \in RoundTrip[n][s]
    BY <1>5
  <2>3. pingTime' = [pingTime EXCEPT ![n][i] = time]
    BY <1>3
  <2>4. UNCHANGED <<pings, numPings>>
    BY <1>4
  <2> QED
    BY <2>1, <2>2, <2>3, <2>4, AnsweredTable
<1>7. SlotAnswered(n, i)
  BY <1>3, <1>4, <1>6 DEF SlotAnswered
<1>8. Pendings' = Pendings
  BY <1>0, <1>5, <1>7, AwaitedAnswer
<1>9. /\ Idle' = Idle /\ ChildInv' /\ Edges' = Edges
      /\ \A p \in Full : p \in Full' /\ children'[p] = children[p]
  BY <1>0, <1>4, IdleStays, TreeStays
<1>10. Taken(s, n) \in SafeNet
  BY <1>0, <1>4, TakenSafe
<1>11. <<s, n>> \in Answers /\ <<n, s>> \notin Questions
  BY <1>0, <1>4, TakenQueues DEF Answers, EchoInv
<1>12. CASE possibleParentsCntr'[n] # 0
  <2>1. StackInv' /\ Candidates' = Candidates /\ Searching' = Searching
    <3>1. possibleParentsStk' = possibleParentsStk
      BY <1>3, <1>12
    <3> QED
      BY <1>0, <1>5, <1>7, <1>12, <3>1, WaitingSearch
  <2>2. net' = Taken(s, n)
    BY <1>3, <1>12
  <2>3. OnceInv' /\ Exchanged(s, n, "PINGRESPONSE", {}, "NONE")
    BY <1>0, <1>4, <2>2, WireGone
  <2>4. /\ Attaches' = Attaches /\ Tries' = Tries
        /\ Questions' = Questions /\ Answers' = Answers \ {<<s, n>>}
        /\ Successes' = Successes
    BY <2>3 DEF Exchanged, Attaches, Tries, Questions, Answers, Successes, Single
  <2>5. TryInv'
    <3> DEFINE m == Packet("PING")
    <3>1. Delivery(s, n, {}, m) /\ m.type = "PING"
      BY <1>4, <2>2 DEF Delivery, Packet
    <3> HIDE DEF m
    <3> QED
      BY <1>0, <1>9, <3>1, TryKept
  <2>6. EchoInv'
    BY <1>0, <1>6, <1>9, <1>11, <2>4 DEF EchoInv
  <2>7. PlaceInv'
    BY <1>0, <1>6, <1>8, <1>9, <2>1, <2>4, AnsweredPlace
  <2>8. NothingForgotten /\ NobodyReturns
    BY <1>6, <1>8, <1>9, <2>1, <2>4 DEF NothingForgotten, NobodyReturns, Placed, Adoptees
  <2> QED
    BY <1>6, <1>9, <2>1, <2>3, <2>5, <2>6, <2>7, <2>8 DEF DataInv, WireInv
<1>13. CASE possibleParentsCntr'[n] = 0
  <2>1. ChooseParent(n, pingTime'[n], Taken(s, n))
    BY <1>3, <1>13
  <2>2. /\ StackInv' /\ Searching' = Searching \ {n} /\ Candidates' \subseteq Candidates
        /\ \E c \in Node : /\ <<n, c>> \in Candidates /\ <<n, c>> \notin Candidates'
                           /\ net' = Post(Taken(s, n), n, c, Packet("ATTACH"))
    BY <1>0, <1>5, <1>6, <1>7, <1>13, <2>1, ChosenParent
  <2>3. PICK c \in Node : /\ <<n, c>> \in Candidates /\ <<n, c>> \notin Candidates'
                          /\ net' = Post(Taken(s, n), n, c, Packet("ATTACH"))
    BY <2>2
  <2> DEFINE m == Packet("ATTACH")
  <2>4. m.type = "ATTACH"
    BY DEF Packet
  <2>5. net' = Sent(Taken(s, n), n, {c}, m)
    BY <1>10, <2>3, PostIsSent
  <2> HIDE DEF m
  <2>6. n \in Searching /\ \A y \in Node : <<n, y>> \notin Attaches
    <3>1. n \in Searching
      BY <1>5 DEF Searching
    <3> QED
      BY <1>0, <3>1, OneEngagement DEF PlaceInv
  <2>7. OnceInv' /\ Exchanged(s, n, "PINGRESPONSE", {c}, "ATTACH")
    <3>1. \A y \in {c} : <<n, y>> \notin Packets(net, m.type)
      BY <2>4, <2>6 DEF Attaches
    <3> QED
      BY <1>0, <1>4, <2>4, <2>5, <3>1, WireStep
  <2>8. /\ Attaches' = Attaches \cup {<<n, c>>} /\ Tries' = Tries
        /\ Questions' = Questions /\ Answers' = Answers \ {<<s, n>>}
        /\ Successes' = Successes
    BY <2>7 DEF Exchanged, Attaches, Tries, Questions, Answers, Successes, Single
  <2>9. TryInv'
    <3>1. Delivery(s, n, {c}, m)
      BY <1>4, <2>5 DEF Delivery
    <3> QED
      BY <1>0, <1>9, <2>4, <3>1, TryKept
  <2>10. EchoInv'
    BY <1>0, <1>6, <1>9, <1>11, <2>8 DEF EchoInv
  <2>11. PlaceInv'
    BY <1>0, <1>1, <1>6, <1>8, <1>9, <2>2, <2>3, <2>6, <2>8, ChosenPlace
  <2>12. NothingForgotten /\ NobodyReturns
    <3>1. \A x, p \in Node : <<x, p>> \in Attaches' <=> <<x, p>> \in Attaches \/ (x = n /\ p = c)
      BY <2>8
    <3>2. NothingForgotten
      BY <1>6, <1>8, <1>9, <2>2, <2>8, <3>1 DEF NothingForgotten, Placed, Adoptees
    <3>3. NobodyReturns
      BY <1>8, <1>9, <2>2, <2>6, <2>8, <3>1 DEF NobodyReturns, Placed, Adoptees
    <3> QED
      BY <3>2, <3>3
  <2> QED
    BY <1>6, <1>9, <2>2, <2>7, <2>9, <2>10, <2>11, <2>12 DEF DataInv, WireInv
<1> QED
  BY <1>12, <1>13

\* In the beginning nobody knows anybody.
LEMMA InitOverlay == Init => OverlayInv
<1> SUFFICES ASSUME Init PROVE OverlayInv
  OBVIOUS
<1>1. IInv
  BY InitInv
<1>2. /\ \A p \in Node : /\ children[p] = <<>> /\ possibleParentsStk[p] = <<>>
                         /\ possibleParentsSet[p] = {} /\ possibleParentsCntr[p] = 0
                         /\ numPings[p] = 0
                         /\ \A i \in PingSlot : pings[p][i] = NoAddress
      /\ \A s, d \in Node : net[s][d] = <<>>
  BY DEF Init
<1>3. TableInv
  BY <1>2, NodeAssumption DEF TableInv, PingSlot
<1>4. StackInv
  <2>1. Cardinality({}) = 0
    BY FS_EmptySet
  <2>2. \A p \in Node : DOMAIN possibleParentsStk[p] = {}
    BY <1>2
  <2>3. \A p \in Node : Range(possibleParentsStk[p]) = {} /\ Distinct(possibleParentsStk[p])
    BY <2>2 DEF Range, Distinct
  <2> QED
    BY <1>2, <2>1, <2>3 DEF StackInv
<1>5. ChildInv
  BY <1>2 DEF ChildInv
<1>6. \A s, d \in Node : DOMAIN net[s][d] = {}
  BY <1>2
<1>7. \A type : Packets(net, type) = {}
  BY <1>6 DEF Packets, Has
<1>8. WireInv
  <2>1. OnceInv
    BY <1>6, <1>7 DEF OnceInv, NobodySentAway, Once, Reattaches
  <2>2. EchoInv
    BY <1>7 DEF EchoInv, Questions, Answers, Successes
  <2>3. TryInv
    BY <1>6 DEF TryInv
  <2> QED
    BY <2>1, <2>2, <2>3 DEF WireInv
<1>9. /\ Edges = {} /\ Entries = {} /\ Pendings = {} /\ Candidates = {} /\ Searching = {}
      /\ Attaches = {} /\ Tries = {}
  <2>1. Edges = {}
    BY <1>2 DEF Edges, Child, Range
  <2>2. Entries = {} /\ Pendings = {}
    BY <1>2, NodeAssumption DEF Entries, Pendings
  <2>3. Candidates = {} /\ Searching = {}
    <3>1. \A p \in Node : DOMAIN possibleParentsStk[p] = {}
      BY <1>2
    <3> QED
      BY <1>2, <3>1 DEF Candidates, Searching, Range
  <2> QED
    BY <1>7, <2>1, <2>2, <2>3 DEF Attaches, Tries
<1>10. Engagements = {}
  BY <1>9 DEF Engagements, Engaged
<1>11. PlaceInv
  BY <1>9, <1>10 DEF PlaceInv, Exclusive, IdleInv, SeekInv
<1> QED
  BY <1>1, <1>3, <1>4, <1>5, <1>8, <1>11 DEF OverlayInv, DataInv

\* Every step keeps the invariant, only an adoption changes the tree, and only a start
\* begins a conversation.
LEMMA NextOverlay ==
  ASSUME EqualRoundTrips \/ NobodySentAway', SmallOverlay, OverlayInv, [Next]_vars
  PROVE  OverlayInv' /\ GrowsByALeaf /\ NobodyReturns
<1>1. IInv'
  BY NextInv DEF OverlayInv
<1>2. ASSUME UNCHANGED treeVars
      PROVE  GrowsByALeaf
  BY <1>2, TreeStays DEF GrowsByALeaf, OverlayInv, DataInv
<1>3. DataInv' /\ WireInv' /\ PlaceInv' /\ GrowsByALeaf /\ NobodyReturns
  <2>1. CASE UNCHANGED vars
    <3>1. /\ UNCHANGED status /\ net' = net
          /\ UNCHANGED treeVars /\ UNCHANGED pingVars /\ UNCHANGED searchVars
      BY <2>1 DEF vars
    <3>2. Idle' \subseteq Idle
      BY <3>1, IdleStays
    <3> QED
      BY <1>2, <3>1, <3>2, NothingHappensOverlay
  <2>2. ASSUME NEW n \in Node, StartApplication(n)
        PROVE  DataInv' /\ WireInv' /\ PlaceInv' /\ GrowsByALeaf /\ NobodyReturns
    <3>1. UNCHANGED treeVars
      BY <2>2 DEF StartApplication
    <3> QED
      BY <1>2, <2>2, <3>1, StartApplicationOverlay
  <2>3. ASSUME NEW n \in Node, StopApplication(n)
        PROVE  DataInv' /\ WireInv' /\ PlaceInv' /\ GrowsByALeaf /\ NobodyReturns
    <3>1. UNCHANGED treeVars
      BY <2>3 DEF StopApplication
    <3> QED
      BY <1>2, <2>3, <3>1, StopApplicationOverlay
  <2>4. ASSUME NEW s \in Node, NEW n \in Node, HandleAttach(s, n)
        PROVE  DataInv' /\ WireInv' /\ PlaceInv' /\ GrowsByALeaf /\ NobodyReturns
    <3>1. UNCHANGED treeVars
      BY <2>4 DEF HandleAttach
    <3> QED
      BY <1>2, <2>4, <3>1, HandleAttachOverlay
  <2>5. ASSUME NEW s \in Node, NEW n \in Node, HandlePing(s, n)
        PROVE  DataInv' /\ WireInv' /\ PlaceInv' /\ GrowsByALeaf /\ NobodyReturns
    <3>1. UNCHANGED treeVars
      BY <2>5 DEF HandlePing
    <3> QED
      BY <1>2, <2>5, <3>1, HandlePingOverlay
  <2>6. ASSUME NEW s \in Node, NEW n \in Node, HandleTry(s, n)
        PROVE  DataInv' /\ WireInv' /\ PlaceInv' /\ GrowsByALeaf /\ NobodyReturns
    <3>1. UNCHANGED treeVars
      BY <2>6 DEF HandleTry
    <3> QED
      BY <1>2, <2>6, <3>1, HandleTryOverlay
  <2>7. ASSUME NEW s \in Node, NEW n \in Node, PingRespPossibleParent(s, n)
        PROVE  DataInv' /\ WireInv' /\ PlaceInv' /\ GrowsByALeaf /\ NobodyReturns
    <3>1. UNCHANGED treeVars
      BY <2>7 DEF PingRespPossibleParent
    <3> QED
      BY <1>2, <2>7, <3>1, PingRespPossibleParentOverlay
  <2>8. ASSUME NEW s \in Node, NEW n \in Node, PingRespAttacher(s, n)
        PROVE  DataInv' /\ WireInv' /\ PlaceInv' /\ GrowsByALeaf /\ NobodyReturns
    BY <2>8, PingRespAttacherOverlay
  <2>9. ASSUME NEW s \in Node, NEW n \in Node,
               \/ PingRespUnmatched(s, n) \/ HandleAttachSuccess(s, n)
               \/ Discard(s, n) \/ Lose(s, n)
        PROVE  DataInv' /\ WireInv' /\ PlaceInv' /\ GrowsByALeaf /\ NobodyReturns
    <3>1. UNCHANGED treeVars
      BY <2>9 DEF PingRespUnmatched, HandleAttachSuccess, Discard, Lose
    <3> QED
      BY <1>2, <2>9, <3>1, PacketGoneOverlay
  <2>10. \A s, n \in Node : ~HandleReattach(s, n)
    BY NoReattach
  <2>11. CASE Next
    BY <2>2, <2>3, <2>4, <2>5, <2>6, <2>7, <2>8, <2>9, <2>10, <2>11 DEF Next, InterpretPacket
  <2> QED
    BY <2>1, <2>11
<1> QED
  BY <1>1, <1>3 DEF OverlayInv

-------------------------------------------------------------------------------
(* Theorems: what holds as long as nobody is sent away *)

\* The invariant holds in every state, whatever is lost and whoever stops.
THEOREM OverlayInvariant ==
  ASSUME SmallOverlay
  PROVE  Spec /\ []NobodySentAway => []OverlayInv
<1>1. Init => OverlayInv
  BY InitOverlay
<1>2. OverlayInv /\ NobodySentAway' /\ [Next]_vars => OverlayInv'
  BY NextOverlay
<1> QED
  BY <1>1, <1>2, PTL DEF Spec

\* A node with room for another child has fewer than MAX_FANOUT of them.
LEMMA KidsCounted ==
  ASSUME TreeInv, NEW n \in Node
  PROVE  /\ IsFiniteSet(Range(children[n]))
         /\ Cardinality(Range(children[n])) \in Nat
         /\ Cardinality(Range(children[n])) <= Len(children[n])
         /\ n \notin Full => Cardinality(Range(children[n])) < MAX_FANOUT
<1> DEFINE q == children[n]
           S == 1..Len(q)
<1>1. /\ q \in Seq(NonRoot) /\ Len(q) \in Nat /\ Len(q) <= MAX_FANOUT
      /\ DOMAIN q = S /\ MAX_FANOUT \in Nat
  BY LenProperties, Sizes DEF TreeInv
<1>2. IsFiniteSet(S) /\ Cardinality(S) = Len(q)
  BY <1>1, FS_Interval
<1>3. q \in Surjection(S, Range(q))
  BY <1>1 DEF Surjection, Range
<1> HIDE DEF S
<1>4. IsFiniteSet(Range(q)) /\ Cardinality(Range(q)) <= Len(q)
  BY <1>2, <1>3, FS_Surjection
<1>5. Cardinality(Range(q)) \in Nat
  BY <1>4, FS_CardinalityType
<1>6. n \notin Full => Len(q) # MAX_FANOUT
  BY DEF Full
<1> QED
  BY <1>1, <1>4, <1>5, <1>6

\* The instance counts as this module does.
LEMMA SameCardinality == \A S : Tree!Cardinality(S) = Cardinality(S)
BY DEF Tree!Cardinality, Cardinality

\* The tree of ScdtServer implements MulticastTree: every step of the protocol
\* adopts one node that is not in the tree, by a node with room that is, or is none
\* of the tree's.
THEOREM OverlayGrows ==
  ASSUME SmallOverlay
  PROVE  Spec /\ []NobodySentAway => GrowsAsATree
<1> DEFINE edges == {e \in Node \X Node : Child(e[1], e[2])}
<1>1. Init => Tree!Init
  BY DEF Init, Tree!Init, Child, Range
<1>2. OverlayInv /\ NobodySentAway' /\ [Next]_vars => [Tree!Next]_edges
  <2> SUFFICES ASSUME OverlayInv, NobodySentAway', [Next]_vars PROVE [Tree!Next]_edges
    OBVIOUS
  <2>1. GrowsByALeaf
    BY NextOverlay
  <2>2. edges = Edges /\ edges' = Edges'
    BY DEF Edges
  <2>3. ASSUME NEW n \in Node, NEW s \in NonRoot,
               s \notin Adoptees, n = Root \/ n \in Adoptees, n \notin Full,
               Edges' = Edges \cup {<<n, s>>}
        PROVE  Tree!Join(s, n)
    <3>1. Tree!Members = {Root} \cup {e[2] : e \in Edges}
      BY DEF Tree!Members, Edges
    <3>2. s \notin Tree!Members
      BY <2>3, <3>1 DEF NonRoot, Adoptees, Edges
    <3>3. n \in Tree!Members
      <4>1. CASE n = Root
        BY <3>1, <4>1
      <4>2. ASSUME NEW p \in Node, <<p, n>> \in Edges
            PROVE  n \in Tree!Members
        <5>1. <<p, n>>[2] = n
          OBVIOUS
        <5> QED
          BY <3>1, <4>2, <5>1
      <4> QED
        BY <2>3, <4>1, <4>2 DEF Adoptees
    <3>4. Tree!Kids(n) = Range(children[n])
      <4>1. TreeInv /\ Range(children[n]) \subseteq Node
        BY LenProperties, ElementOfSeq DEF OverlayInv, IInv, TreeInv, NonRoot, Range
      <4>2. Tree!Kids(n) = {m \in Node : <<n, m>> \in edges}
        BY DEF Tree!Kids
      <4> QED
        BY <4>1, <4>2 DEF Child
    <3>5. Cardinality(Tree!Kids(n)) < MAX_FANOUT
      BY <2>3, <3>4, KidsCounted DEF OverlayInv, IInv
    <3> QED
      BY <2>2, <2>3, <3>2, <3>3, <3>5, SameCardinality DEF Tree!Join
  <2>4. CASE Edges' = Edges
    BY <2>2, <2>4
  <2>5. CASE \E n \in Node, s \in NonRoot :
               /\ s \notin Adoptees
               /\ n = Root \/ n \in Adoptees
               /\ n \notin Full
               /\ Edges' = Edges \cup {<<n, s>>}
    BY <2>3, <2>5 DEF Tree!Next, NonRoot
  <2> QED
    BY <2>1, <2>4, <2>5 DEF GrowsByALeaf
<1> QED
  BY <1>1, <1>2, OverlayInvariant, PTL DEF Spec, GrowsAsATree, Tree!Spec

TreeProofs == INSTANCE MulticastTreeProofs
                WITH MaxFanout <- MAX_FANOUT,
                     edges <- {e \in Node \X Node : Child(e[1], e[2])}

\* What is forwarded from m_children to m_children reaches every node of the overlay
\* on one path, as long as nobody is sent away: the theorems about MulticastTree hold of
\* what implements it.
THEOREM OverlayAlwaysTree ==
  ASSUME SmallOverlay
  PROVE  Spec /\ []NobodySentAway => []OverlayIsTree
<1> DEFINE edges == {e \in Node \X Node : Child(e[1], e[2])}
<1>1. Tree!Init => TreeProofs!Init
  BY DEF Tree!Init, TreeProofs!Init
<1>2. [Tree!Next]_edges => [TreeProofs!Next]_edges
  <2>1. Tree!Members = TreeProofs!Members
    BY DEF Tree!Members, TreeProofs!Members
  <2>2. \A p : Tree!Kids(p) = TreeProofs!Kids(p)
    BY DEF Tree!Kids, TreeProofs!Kids
  <2>3. \A S : Tree!Cardinality(S) = TreeProofs!Cardinality(S)
    BY DEF Tree!Cardinality, TreeProofs!Cardinality
  <2> HIDE DEF edges
  <2>4. \A n, p : Tree!Join(n, p) = TreeProofs!Join(n, p)
    BY <2>1, <2>2, <2>3 DEF Tree!Join, TreeProofs!Join
  <2> QED
    BY <2>4 DEF Tree!Next, TreeProofs!Next
<1>3. TreeProofs!OneParent /\ TreeProofs!ReachesRoot => OverlayIsTree
  <2>1. Tree!Members = TreeProofs!Members
    BY DEF Tree!Members, TreeProofs!Members
  <2> QED
    BY <2>1 DEF OverlayIsTree, Tree!OneParent, Tree!ReachesRoot,
       TreeProofs!OneParent, TreeProofs!ReachesRoot
<1> QED
  BY <1>1, <1>2, <1>3, OverlayGrows, TreeProofs!EveryNodeHasOneParent,
     TreeProofs!EveryNodeReachesRoot, PTL
     DEF GrowsAsATree, Tree!Spec, TreeProofs!Spec

\* What the data phase assumes of m_children when it begins (TreeAssumption of ScdtData):
\* SetSockets of two nodes, or of one, never make two sockets to the same child, and
\* nobody has the root as a child.
FitsDataPhase ==
  /\ children \in [Node -> Seq(NonRoot)]
  /\ \A p, q \in Node : \A i \in DOMAIN children[p], j \in DOMAIN children[q] :
       children[p][i] = children[q][j] => p = q /\ i = j

\* The join protocol provides it at any time, at rest or not.
THEOREM DataPhaseFits ==
  ASSUME SmallOverlay
  PROVE  Spec /\ []NobodySentAway => []FitsDataPhase
<1>1. OverlayInv => FitsDataPhase
  <2> SUFFICES ASSUME OverlayInv PROVE FitsDataPhase
    OBVIOUS
  <2>1. TreeInv /\ ChildInv /\ Exclusive(Engagements)
    BY DEF OverlayInv, IInv, DataInv, PlaceInv
  <2>2. children \in [Node -> Seq(NonRoot)]
    BY <2>1 DEF TreeInv
  <2>3. ASSUME NEW p \in Node, NEW q \in Node,
               NEW i \in DOMAIN children[p], NEW j \in DOMAIN children[q],
               children[p][i] = children[q][j]
        PROVE  p = q /\ i = j
    <3> DEFINE n == children[p][i]
    <3>1. n \in Node
      BY <2>2, LenProperties, ElementOfSeq DEF NonRoot
    <3>2. <<p, n>> \in Edges /\ <<q, n>> \in Edges
      BY <2>3, <3>1 DEF Edges, Child, Range
    <3> HIDE DEF n
    <3>3. p = q
      BY <2>1, <3>1, <3>2, OneEngagement
    <3> QED
      BY <2>1, <2>3, <3>3 DEF ChildInv
  <2> QED
    BY <2>2, <2>3 DEF FitsDataPhase
<1> QED
  BY <1>1, OverlayInvariant, PTL

\* The counter of answers to wait for is right, so the last answer ends the search.
THEOREM SearchesEnd ==
  ASSUME SmallOverlay
  PROVE  Spec /\ []NobodySentAway => []CounterCountsAwaited
<1>1. OverlayInv => CounterCountsAwaited
  BY DEF OverlayInv, DataInv, StackInv, CounterCountsAwaited
<1> QED
  BY <1>1, OverlayInvariant, PTL

\* As long as the table is not full m_numPings counts its hosts.
THEOREM PingsAreCounted ==
  ASSUME SmallOverlay
  PROVE  Spec /\ []NobodySentAway => []NumPingsCountsHosts
<1>1. OverlayInv => NumPingsCountsHosts
  <2> SUFFICES ASSUME OverlayInv, NEW n \in Node
               PROVE  numPings[n] = Cardinality({i \in PingSlot : pings[n][i] \in Node})
    BY DEF NumPingsCountsHosts
  <2> DEFINE used == numPings[n]
             S    == {i \in PingSlot : pings[n][i] \in Node}
  <2>1. used \in Nat /\ used < MAX_PINGS /\ MAX_PINGS \in Nat
    BY Sizes DEF OverlayInv, IInv, PingInv, PingSlot
  <2>2. \A i \in PingSlot : pings[n][i] \in Node <=> i < used
    BY DEF OverlayInv, DataInv, TableInv
  <2> HIDE DEF used
  <2>3. S = 0..(used - 1)
    BY <2>1, <2>2 DEF PingSlot
  <2>4. Cardinality(0..(used - 1)) = IF 0 > used - 1 THEN 0 ELSE (used - 1) - 0 + 1
    BY <2>1, FS_Interval
  <2> HIDE DEF S
  <2>5. Cardinality(S) = used
    BY <2>1, <2>3, <2>4
  <2> QED
    BY <2>5 DEF used, S
<1> QED
  BY <1>1, OverlayInvariant, PTL

\* An answer is booked on the ping that it answers, so m_pingTime and m_shortestPing
\* hold round trips to the hosts beside them.
THEOREM TimesAreMeasured ==
  ASSUME SmallOverlay
  PROVE  Spec /\ []NobodySentAway => []TimesAreRoundTrips
<1>1. OverlayInv => TimesAreRoundTrips
  BY DEF OverlayInv, DataInv, TableInv, ChildInv, TimesAreRoundTrips
<1> QED
  BY <1>1, OverlayInvariant, PTL

\* What goes on about the place of n, as an engagement <<k, p, n>>.
Speaks(x, k, p, n) ==
  \/ /\ k = "child"
     /\ \E j \in DOMAIN children[p] : children[p][j] = n /\ x = <<<<"child", p>>, j>>
  \/ /\ k = "attach"
     /\ \E j \in DOMAIN net[n][p] : net[n][p][j].type = "ATTACH" /\ x = <<<<"attach", p>>, j>>
  \/ /\ k = "ping"
     /\ \E i \in Adopting(p, n) : x = <<<<"ping", p>>, i>>
  \/ /\ k = "try"
     /\ \E j \in DOMAIN net[p][n] : net[p][n][j].type = "TRY" /\ x = <<<<"answer", p>>, j>>
  \/ k = "search" /\ p = n /\ possibleParentsSet[n] # {} /\ x = <<"search", n>>

\* Every conversation is an engagement.
LEMMA ConversationSpeaks ==
  ASSUME OnceInv, NEW n \in Node, NEW x \in Conversations(n)
  PROVE  \E k \in Kind, p \in Node : Speaks(x, k, p, n)
<1>1. \/ \E p \in Node :
           \/ x \in {<<"child", p>>} \X {j \in DOMAIN children[p] : children[p][j] = n}
           \/ x \in {<<"attach", p>>} \X Queued(n, p, {"ATTACH"})
           \/ x \in {<<"ping", p>>} \X Adopting(p, n)
           \/ x \in {<<"answer", p>>} \X Queued(p, n, {"TRY", "REATTACH"})
      \/ possibleParentsSet[n] # {} /\ x = <<"search", n>>
  BY DEF Conversations
<1>2. ASSUME NEW p \in Node,
             x \in {<<"child", p>>} \X {j \in DOMAIN children[p] : children[p][j] = n}
      PROVE  Speaks(x, "child", p, n)
  BY <1>2 DEF Speaks
<1>3. ASSUME NEW p \in Node, x \in {<<"attach", p>>} \X Queued(n, p, {"ATTACH"})
      PROVE  Speaks(x, "attach", p, n)
  BY <1>3 DEF Speaks, Queued
<1>4. ASSUME NEW p \in Node, x \in {<<"ping", p>>} \X Adopting(p, n)
      PROVE  Speaks(x, "ping", p, n)
  BY <1>4 DEF Speaks
<1>5. ASSUME NEW p \in Node, x \in {<<"answer", p>>} \X Queued(p, n, {"TRY", "REATTACH"})
      PROVE  Speaks(x, "try", p, n)
  <2>1. PICK j \in DOMAIN net[p][n] :
          net[p][n][j].type \in {"TRY", "REATTACH"} /\ x = <<<<"answer", p>>, j>>
    BY <1>5 DEF Queued
  <2>2. net[p][n][j].type # "REATTACH"
    <3>1. <<p, n>> \notin Packets(net, "REATTACH")
      BY DEF OnceInv, NobodySentAway, Reattaches
    <3>2. <<p, n>>[1] = p /\ <<p, n>>[2] = n /\ <<p, n>> \in Node \X Node
      OBVIOUS
    <3> QED
      BY <3>1, <3>2 DEF Packets, Has
  <2> QED
    BY <2>1, <2>2 DEF Speaks
<1>6. ASSUME possibleParentsSet[n] # {}, x = <<"search", n>>
      PROVE  Speaks(x, "search", n, n)
  BY <1>6 DEF Speaks
<1> QED
  BY <1>1, <1>2, <1>3, <1>4, <1>5, <1>6 DEF Kind

\* An engagement is one conversation.
LEMMA SpeaksOnce ==
  ASSUME OverlayInv, NEW n \in Node, NEW k, NEW p \in Node,
         NEW x, Speaks(x, k, p, n), NEW y, Speaks(y, k, p, n)
  PROVE  <<k, p, n>> \in Engagements /\ y = x
<1>0. TableInv /\ ChildInv /\ OnceInv
  BY DEF OverlayInv, DataInv, WireInv
<1>1. CASE k = "child"
  <2>1. PICK i \in DOMAIN children[p] : children[p][i] = n /\ x = <<<<"child", p>>, i>>
    BY <1>1 DEF Speaks
  <2>2. PICK j \in DOMAIN children[p] : children[p][j] = n /\ y = <<<<"child", p>>, j>>
    BY <1>1 DEF Speaks
  <2>3. <<p, n>> \in Edges
    BY <2>1 DEF Edges, Child, Range
  <2>4. i = j
    BY <1>0, <2>1, <2>2 DEF ChildInv
  <2>5. <<"child", p, n>> \in Engagements
    BY <2>3, Engages
  <2> QED
    BY <1>1, <2>1, <2>2, <2>4, <2>5
<1>2. CASE k = "attach"
  <2>1. PICK i \in DOMAIN net[n][p] :
          net[n][p][i].type = "ATTACH" /\ x = <<<<"attach", p>>, i>>
    BY <1>2 DEF Speaks
  <2>2. PICK j \in DOMAIN net[n][p] :
          net[n][p][j].type = "ATTACH" /\ y = <<<<"attach", p>>, j>>
    BY <1>2 DEF Speaks
  <2>3. <<n, p>> \in Attaches
    BY <2>1 DEF Attaches, Packets, Has
  <2>4. i = j
    BY <1>0, <2>1, <2>2 DEF OnceInv, Once, Single
  <2>5. <<"attach", p, n>> \in Engagements
    BY <2>3, Engages
  <2> QED
    BY <1>2, <2>1, <2>2, <2>4, <2>5
<1>3. CASE k = "ping"
  <2>1. PICK i \in Adopting(p, n) : x = <<<<"ping", p>>, i>>
    BY <1>3 DEF Speaks
  <2>2. PICK j \in Adopting(p, n) : y = <<<<"ping", p>>, j>>
    BY <1>3 DEF Speaks
  <2>3. <<p, n>> \in Pendings
    BY <2>1, SearchRelations DEF Adopting
  <2>4. i = j
    BY <1>0 DEF Adopting, TableInv
  <2>5. <<"ping", p, n>> \in Engagements
    BY <2>3, Engages
  <2> QED
    BY <1>3, <2>1, <2>2, <2>4, <2>5
<1>4. CASE k = "try"
  <2>1. PICK i \in DOMAIN net[p][n] :
          net[p][n][i].type = "TRY" /\ x = <<<<"answer", p>>, i>>
    BY <1>4 DEF Speaks
  <2>2. PICK j \in DOMAIN net[p][n] :
          net[p][n][j].type = "TRY" /\ y = <<<<"answer", p>>, j>>
    BY <1>4 DEF Speaks
  <2>3. <<p, n>> \in Tries
    BY <2>1 DEF Tries, Packets, Has
  <2>4. i = j
    BY <1>0, <2>1, <2>2 DEF OnceInv, Once, Single
  <2>5. <<"try", p, n>> \in Engagements
    BY <2>3, Engages
  <2> QED
    BY <1>4, <2>1, <2>2, <2>4, <2>5
<1>5. CASE k = "search"
  <2>1. p = n /\ possibleParentsSet[n] # {} /\ x = <<"search", n>> /\ y = <<"search", n>>
    BY <1>5 DEF Speaks
  <2>2. n \in Searching
    BY <2>1 DEF Searching
  <2>3. <<"search", n, n>> \in Engagements
    BY <2>2, Engages
  <2> QED
    BY <1>5, <2>1, <2>3
<1> QED
  BY <1>1, <1>2, <1>3, <1>4, <1>5 DEF Speaks

\* Nobody has two places in the tree or two requests for one.
LEMMA OneConversationAtMost ==
  ASSUME OverlayInv, NEW n \in Node
  PROVE  \/ Conversations(n) = {} /\ Cardinality(Conversations(n)) = 0
         \/ Conversations(n) # {} /\ Cardinality(Conversations(n)) = 1
<1>1. ASSUME NEW x \in Conversations(n), NEW y \in Conversations(n)
      PROVE  x = y
  <2>1. PICK k \in Kind, p \in Node : Speaks(x, k, p, n)
    BY ConversationSpeaks DEF OverlayInv, WireInv
  <2>2. PICK j \in Kind, q \in Node : Speaks(y, j, q, n)
    BY ConversationSpeaks DEF OverlayInv, WireInv
  <2>3. <<k, p, n>> \in Engagements /\ <<j, q, n>> \in Engagements
    BY <2>1, <2>2, SpeaksOnce
  <2>4. <<k, p, n>> = <<j, q, n>>
    BY <2>3 DEF OverlayInv, PlaceInv, Exclusive
  <2>5. k = j /\ p = q
    BY <2>4
  <2> QED
    BY <2>1, <2>2, <2>5, SpeaksOnce
<1> DEFINE C == Conversations(n)
<1> HIDE DEF C
<1>2. CASE C = {}
  BY <1>2, FS_EmptySet DEF C
<1>3. CASE C # {}
  <2>1. PICK x : x \in C
    BY <1>3
  <2>2. C = {x}
    BY <1>1, <2>1 DEF C
  <2>3. Cardinality(C) = 1
    BY <2>2, FS_Singleton
  <2> QED
    BY <1>3, <2>3 DEF C
<1> QED
  BY <1>2, <1>3

\* Whoever is placed has a conversation.
LEMMA PlacedConverses ==
  ASSUME NEW n \in Placed
  PROVE  Conversations(n) # {}
<1>0. n \in Node
  BY DEF Placed
<1>1. \A x, p : p \in Node /\
        \/ x \in {<<"child", p>>} \X {j \in DOMAIN children[p] : children[p][j] = n}
        \/ x \in {<<"attach", p>>} \X Queued(n, p, {"ATTACH"})
        \/ x \in {<<"ping", p>>} \X Adopting(p, n)
        \/ x \in {<<"answer", p>>} \X Queued(p, n, {"TRY", "REATTACH"})
        => x \in Conversations(n)
  BY DEF Conversations
<1>2. ASSUME NEW p \in Node, <<p, n>> \in Edges
      PROVE  Conversations(n) # {}
  <2>1. PICK j \in DOMAIN children[p] : children[p][j] = n
    BY <1>2 DEF Edges, Child, Range
  <2>2. <<<<"child", p>>, j>> \in
          {<<"child", p>>} \X {i \in DOMAIN children[p] : children[p][i] = n}
    BY <2>1
  <2> QED
    BY <1>1, <2>2
<1>3. ASSUME NEW p \in Node, <<n, p>> \in Attaches
      PROVE  Conversations(n) # {}
  <2>1. PICK j \in DOMAIN net[n][p] : net[n][p][j].type = "ATTACH"
    BY <1>3 DEF Attaches, Packets, Has
  <2>2. <<<<"attach", p>>, j>> \in {<<"attach", p>>} \X Queued(n, p, {"ATTACH"})
    BY <2>1 DEF Queued
  <2> QED
    BY <1>1, <2>2
<1>4. ASSUME NEW p \in Node, <<p, n>> \in Pendings
      PROVE  Conversations(n) # {}
  <2>1. PICK i \in PingSlot :
          /\ pings[p][i] = n /\ pingTime[p][i] = NotAnswered /\ i \notin possibleParentsSet[p]
    BY <1>0, <1>4, SearchRelations
  <2>2. <<<<"ping", p>>, i>> \in {<<"ping", p>>} \X Adopting(p, n)
    BY <2>1 DEF Adopting
  <2> QED
    BY <1>1, <2>2
<1>5. ASSUME NEW p \in Node, <<p, n>> \in Tries
      PROVE  Conversations(n) # {}
  <2>1. PICK j \in DOMAIN net[p][n] : net[p][n][j].type = "TRY"
    BY <1>5 DEF Tries, Packets, Has
  <2>2. <<<<"answer", p>>, j>> \in {<<"answer", p>>} \X Queued(p, n, {"TRY", "REATTACH"})
    BY <2>1 DEF Queued
  <2> QED
    BY <1>1, <2>2
<1>6. ASSUME n \in Searching
      PROVE  Conversations(n) # {}
  BY <1>6 DEF Searching, Conversations
<1> QED
  BY <1>2, <1>3, <1>4, <1>5, <1>6 DEF Placed, Adoptees

\* Whoever has a conversation is placed, and conversely.
LEMMA ConversesWhenPlaced ==
  ASSUME OverlayInv
  PROVE  \A n \in Node : Conversations(n) # {} <=> n \in Placed
<1>1. ASSUME NEW n \in Node, NEW x \in Conversations(n)
      PROVE  n \in Placed
  <2>1. PICK k \in Kind, p \in Node : Speaks(x, k, p, n)
    BY <1>1, ConversationSpeaks DEF OverlayInv, WireInv
  <2>2. <<k, p, n>> \in Engagements
    BY <2>1, SpeaksOnce
  <2>3. k = "search" => p = n
    BY <2>1 DEF Speaks
  <2>4. \/ <<p, n>> \in Edges \/ <<n, p>> \in Attaches \/ <<p, n>> \in Pendings
        \/ <<p, n>> \in Tries \/ n \in Searching
    BY <2>2, <2>3, Engages DEF Kind
  <2> QED
    BY <2>4 DEF Placed, Adoptees
<1> QED
  BY <1>1, PlacedConverses

\* Nobody gets two places in the tree as long as nobody is sent away, whatever is lost
\* and whoever stops.
THEOREM NobodyTwice ==
  ASSUME SmallOverlay
  PROVE  Spec /\ []NobodySentAway => []AtMostOneConversation
<1>1. OverlayInv => AtMostOneConversation
  BY OneConversationAtMost DEF AtMostOneConversation
<1> QED
  BY <1>1, OverlayInvariant, PTL

\* Nor does anybody who has none get a place after its start: a node that is left out
\* once is left out for good.
THEOREM LeftOutStaysOut ==
  ASSUME SmallOverlay
  PROVE  Spec /\ []NobodySentAway => LeftOutForGood
<1> DEFINE Talks == \A n \in Node : Conversations(n) # {} <=> n \in Placed
<1>1. OverlayInv => Talks
  BY ConversesWhenPlaced
<1>2. OverlayInv /\ Talks /\ Talks' /\ NobodySentAway' /\ [Next]_vars =>
        [\A n \in Node \ {Root} :
           status[n] # "idle" /\ Conversations(n) = {} => Conversations(n)' = {}]_vars
  <2> SUFFICES ASSUME OverlayInv, Talks, Talks', NobodySentAway', [Next]_vars,
                      NEW n \in Node, status[n] # "idle", Conversations(n) = {}
               PROVE  Conversations(n)' = {}
    OBVIOUS
  <2>1. n \notin Idle /\ n \notin Placed
    BY DEF Idle
  <2>2. NobodyReturns
    BY NextOverlay
  <2>3. n \notin Placed'
    BY <2>1, <2>2 DEF NobodyReturns
  <2> QED
    BY <2>3
<1> HIDE DEF Talks
<1> QED
  BY <1>1, <1>2, OverlayInvariant, PTL DEF LeftOutForGood, Spec

-------------------------------------------------------------------------------
(* When, besides, the root starts first and nobody has stopped *)

\* The drivers that wait with every other node until the root has started.
RootStartsFirst == \A n \in NonRoot : Root \in StartsAfter[n]
AwakeInv        == Root \in Idle => Idle = Node
NobodyStopped   == \A n \in Node : status[n] # "stopped"

\* The ping of p to n, or its answer, is on its way.
Heard(p, n) == <<p, n>> \in Questions \/ <<n, p>> \in Answers

\* Nothing about the place of n is lost: it has a place or a request for one, the ping
\* of its adopter and those of its search will be answered, and if it is a child it
\* knows its parent or is about to.
Unharmed == {n \in Node :
  /\ n \in Placed
  /\ \A h \in Node : <<h, n>> \in Pendings => Heard(h, n)
  /\ \A h \in Node : <<n, h>> \in Opens /\ <<n, h>> \notin Pendings => Heard(n, h)
  /\ \A p \in Node : <<p, n>> \in Edges => parentIp[n] = p \/ <<p, n>> \in Successes}
Harmed == {n \in NonRoot : n \notin Idle /\ n \notin Unharmed}

\* A packet that is lost harms one node.
HarmInv == NobodyStopped => Cardinality(Harmed) <= lost

\* An answer comes from a host in the table.
LEMMA NoStranger ==
  ASSUME OverlayInv, NEW s \in Node, NEW n \in Node
  PROVE  ~PingRespUnmatched(s, n)
<1> SUFFICES ASSUME PingRespUnmatched(s, n) PROVE FALSE
  OBVIOUS
<1>1. /\ net[s][n] # <<>> /\ Head(net[s][n]).type = "PINGRESPONSE"
      /\ \A i \in 0..(numPings[n] - 1) : pings[n][i] # s
  BY DEF PingRespUnmatched, Receive
<1>2. NetInv /\ EchoInv /\ TableInv
  BY DEF OverlayInv, IInv, WireInv, DataInv
<1>3. <<s, n>> \in Answers
  BY <1>1, <1>2, TakenQueues DEF Answers
<1>4. <<n, s>> \in Opens
  BY <1>2, <1>3 DEF EchoInv
<1>5. PICK i \in PingSlot : pings[n][i] = s
  BY <1>4 DEF Opens
<1>6. i < numPings[n]
  BY <1>2, <1>5 DEF TableInv
<1>7. numPings[n] \in Nat /\ i \in Nat
  BY Sizes DEF OverlayInv, IInv, PingInv, PingSlot
<1>8. i \in 0..(numPings[n] - 1)
  BY <1>6, <1>7
<1> QED
  BY <1>1, <1>5, <1>8

\* No packet is under way to a node that has not started.
LEMMA NothingForTheIdle ==
  ASSUME OverlayInv, AwakeInv, NEW s \in Node, NEW n \in Idle, net[s][n] # <<>>
  PROVE  Head(net[s][n]).type \notin Single
<1>0. /\ n \in Node
      /\ NetInv /\ DataInv /\ EchoInv /\ OnceInv /\ TryInv /\ IInv /\ PlaceInv
      /\ Exclusive(Engagements) /\ IdleInv /\ SeekInv
  BY DEF Idle, OverlayInv, IInv, WireInv, PlaceInv
<1>1. RelationInv
  BY <1>0, Relations
<1>2. \A type : Head(net[s][n]).type = type => <<s, n>> \in Packets(net, type)
  BY <1>0, TakenQueues
<1>3. n \notin Adoptees
  <2> SUFFICES ASSUME NEW p \in Node, <<p, n>> \in Edges PROVE FALSE
    BY DEF Adoptees
  <2>1. <<"child", p, n>> \in Engagements
    BY <1>0, Engages
  <2> QED
    BY <1>0, <2>1 DEF IdleInv
<1>4. <<s, n>> \notin Attaches
  <2> SUFFICES ASSUME <<s, n>> \in Attaches PROVE FALSE
    OBVIOUS
  <2>1. s \in NonRoot /\ s \notin Adoptees
    BY <1>0, <1>1, OneEngagement DEF RelationInv
  <2>2. n = Root
    BY <1>0, <1>3, <2>1 DEF SeekInv, Approachable
  <2>3. s \in Idle
    BY <2>2 DEF AwakeInv
  <2>4. <<"attach", n, s>> \in Engagements
    BY <1>0, Engages
  <2> QED
    BY <1>0, <2>3, <2>4 DEF IdleInv
<1>5. <<s, n>> \notin Questions
  BY <1>0, <1>1 DEF EchoInv, RelationInv, IdleInv
<1>6. <<s, n>> \notin Answers
  <2> SUFFICES ASSUME <<s, n>> \in Answers PROVE FALSE
    OBVIOUS
  <2>1. <<n, s>> \in Entries
    BY <1>0, <1>1 DEF EchoInv, RelationInv
  <2>2. n # Root
    BY <1>0, <2>1 DEF AwakeInv, IdleInv
  <2>3. PICK q \in Node : <<q, s>> \in Edges /\ <<q, n>> \in Closed
    BY <1>0, <1>3, <2>1, <2>2 DEF SeekInv, NonRoot
  <2> QED
    BY <1>0, <1>1, <2>3 DEF RelationInv, IdleInv
<1>7. <<s, n>> \notin Tries
  <2> SUFFICES ASSUME <<s, n>> \in Tries PROVE FALSE
    OBVIOUS
  <2>1. <<"try", s, n>> \in Engagements
    BY <1>0, Engages
  <2> QED
    BY <1>0, <2>1 DEF IdleInv
<1>8. <<s, n>> \notin Successes
  BY <1>0, <1>3 DEF EchoInv, Adoptees
<1> QED
  BY <1>2, <1>4, <1>5, <1>6, <1>7, <1>8
     DEF Single, Attaches, Questions, Answers, Tries, Successes

\* The pings and adoptions of a step harm nobody whose parent does not change.
LEMMA UnharmedKept ==
  ASSUME NothingForgotten, NEW n \in Unharmed, parentIp'[n] = parentIp[n]
  PROVE  n \in Unharmed'
<1>1. n \in Node /\ n \in Placed'
  BY DEF Unharmed, NothingForgotten
<1>2. ASSUME NEW h \in Node, <<h, n>> \in Pendings'
      PROVE  Heard(h, n)'
  <2>1. <<h, n>> \in Opens'
    BY <1>2 DEF Pendings, Opens
  <2>2. \/ Heard(h, n)'
        \/ <<h, n>> \in Opens /\ <<h, n>> \notin Questions /\ <<n, h>> \notin Answers
    BY <1>1, <2>1 DEF NothingForgotten, Heard
  <2>3. <<h, n>> \in Opens => <<h, n>> \in Pendings
    BY <1>1, <1>2, <2>1 DEF NothingForgotten
  <2> QED
    BY <2>2, <2>3 DEF Unharmed, Heard
<1>3. ASSUME NEW h \in Node, <<n, h>> \in Opens', <<n, h>> \notin Pendings'
      PROVE  Heard(n, h)'
  <2>1. \/ Heard(n, h)'
        \/ <<n, h>> \in Opens /\ <<n, h>> \notin Questions /\ <<h, n>> \notin Answers
    BY <1>1, <1>3 DEF NothingForgotten, Heard
  <2>2. <<n, h>> \in Opens => <<n, h>> \notin Pendings
    BY <1>1, <1>3 DEF NothingForgotten
  <2> QED
    BY <2>1, <2>2 DEF Unharmed, Heard
<1>4. ASSUME NEW p \in Node, <<p, n>> \in Edges'
      PROVE  parentIp'[n] = p \/ <<p, n>> \in Successes'
  BY <1>1, <1>4 DEF NothingForgotten, Unharmed
<1> QED
  BY <1>1, <1>2, <1>3, <1>4 DEF Unharmed

\* Nobody starts, and nobody learns of a parent.
LEMMA NobodyHarmed ==
  ASSUME NothingForgotten, UNCHANGED status, UNCHANGED parentIp
  PROVE  Harmed' \subseteq Harmed
<1>1. Idle' = Idle
  BY IdleStays
<1>2. \A n \in Unharmed : n \in Unharmed'
  BY UnharmedKept
<1> QED
  BY <1>1, <1>2 DEF Harmed

\* What is left when the oldest packet of s to n is gone: all but that packet.
PacketsGone(s, n, type) ==
  /\ Opens' = Opens /\ Edges' = Edges /\ Pendings' = Pendings /\ Idle' = Idle
  /\ Questions' = IF type = "PING" THEN Questions \ {<<s, n>>} ELSE Questions
  /\ Answers' = IF type = "PINGRESPONSE" THEN Answers \ {<<s, n>>} ELSE Answers
  /\ Successes' = IF type = "ATTACHSUCCESS" THEN Successes \ {<<s, n>>} ELSE Successes
  /\ \A m \in Placed : m \in Placed' \/ (type = "ATTACH" /\ m = s) \/ (type = "TRY" /\ m = n)

LEMMA OnePacketGone ==
  ASSUME OverlayInv, NEW s \in Node, NEW n \in Node,
         net[s][n] # <<>>, net' = Taken(s, n),
         UNCHANGED treeVars, UNCHANGED pingVars, UNCHANGED searchVars, UNCHANGED status
  PROVE  PacketsGone(s, n, Head(net[s][n]).type)
<1> DEFINE type == Head(net[s][n]).type
<1>0. IInv /\ NetInv /\ OnceInv /\ TableInv /\ StackInv /\ ChildInv
  BY DEF OverlayInv, IInv, WireInv, DataInv
<1>1. /\ Edges' = Edges /\ Opens' = Opens /\ Pendings' = Pendings /\ Searching' = Searching
      /\ Idle' = Idle
  BY <1>0, TreeStays, TableStays, SearchStays, IdleStays
<1>2. Exchanged(s, n, type, {}, "NONE")
  BY <1>0, WireGone
<1> HIDE DEF type
<1>3. /\ Attaches' = IF type = "ATTACH" THEN Attaches \ {<<s, n>>} ELSE Attaches
      /\ Tries' = IF type = "TRY" THEN Tries \ {<<s, n>>} ELSE Tries
      /\ Questions' = IF type = "PING" THEN Questions \ {<<s, n>>} ELSE Questions
      /\ Answers' = IF type = "PINGRESPONSE" THEN Answers \ {<<s, n>>} ELSE Answers
      /\ Successes' = IF type = "ATTACHSUCCESS" THEN Successes \ {<<s, n>>} ELSE Successes
  BY <1>2 DEF Exchanged, Attaches, Tries, Questions, Answers, Successes, Single
<1>4. ASSUME NEW m \in Placed
      PROVE  m \in Placed' \/ (type = "ATTACH" /\ m = s) \/ (type = "TRY" /\ m = n)
  <2>1. \A p \in Node : <<m, p>> \in Attaches =>
          <<m, p>> \in Attaches' \/ (type = "ATTACH" /\ m = s)
    BY <1>3
  <2>2. \A p \in Node : <<p, m>> \in Tries =>
          <<p, m>> \in Tries' \/ (type = "TRY" /\ m = n)
    BY <1>3
  <2> QED
    BY <1>1, <2>1, <2>2 DEF Placed, Adoptees
<1> QED
  BY <1>1, <1>3, <1>4 DEF PacketsGone, type

\* The start of a node begins its conversation.
LEMMA StartApplicationHarm ==
  ASSUME OverlayInv, NEW n \in Node, StartApplication(n)
  PROVE  Harmed' \subseteq Harmed
<1>0. IInv /\ PlaceInv /\ IdleInv
  BY DEF OverlayInv, PlaceInv
<1>1. /\ status[n] = "idle" /\ status' = [status EXCEPT ![n] = "running"]
      /\ UNCHANGED treeVars /\ UNCHANGED pingVars /\ UNCHANGED searchVars
      /\ \A x \in Node : x # n => parentIp'[x] = parentIp[x]
  BY <1>0 DEF StartApplication, SendsAttach, IInv, NodeInv
<1>2. n \in Idle /\ Idle' = Idle \ {n}
  BY <1>0, <1>1 DEF Idle, IInv, NodeInv
<1>3. NothingForgotten /\ (n # Root => n \in Placed')
  BY StartApplicationOverlay
<1>4. ASSUME NEW m \in NonRoot, m \notin Idle, m \in Unharmed
      PROVE  m \in Unharmed'
  <2>1. parentIp'[m] = parentIp[m]
    BY <1>1, <1>2, <1>4 DEF NonRoot
  <2> QED
    BY <1>3, <1>4, <2>1, UnharmedKept
<1>5. ASSUME n # Root
      PROVE  n \in Unharmed'
  <2>1. \A x \in Engagements : x[3] # n
    BY <1>0, <1>2 DEF IdleInv
  <2>2. \A p \in Node : <<p, n>> \notin Edges /\ <<p, n>> \notin Pendings
    <3> SUFFICES ASSUME NEW p \in Node PROVE <<p, n>> \notin Edges /\ <<p, n>> \notin Pendings
      OBVIOUS
    <3>1. <<"child", p, n>> \notin Engagements /\ <<"ping", p, n>> \notin Engagements
      BY <2>1
    <3> QED
      BY <3>1, Engages
  <2>3. n \notin Searching
    <3>1. <<"search", n, n>> \notin Engagements
      BY <2>1
    <3> QED
      BY <3>1, Engages
  <2>4. \A h \in Node : <<n, h>> \in Opens => <<n, h>> \in Pendings
    BY <2>3, SearchRelations DEF Opens, Searching
  <2>5. Edges' = Edges /\ Opens' = Opens /\ Pendings' = Pendings
    BY <1>1 DEF treeVars, pingVars, searchVars, Edges, Child, Opens, Pendings
  <2> QED
    BY <1>3, <1>5, <2>2, <2>4, <2>5 DEF Unharmed
<1> QED
  BY <1>2, <1>4, <1>5 DEF Harmed, NonRoot

\* Whoever is told of its adoption is told by its only parent.
LEMMA HandleAttachSuccessHarm ==
  ASSUME OverlayInv, NEW s \in Node, NEW n \in Node, HandleAttachSuccess(s, n)
  PROVE  Harmed' \subseteq Harmed
<1>0. IInv /\ NetInv /\ EchoInv /\ Exclusive(Engagements)
  BY DEF OverlayInv, IInv, WireInv, PlaceInv
<1>1. /\ net[s][n] # <<>> /\ net' = Taken(s, n) /\ Head(net[s][n]).type = "ATTACHSUCCESS"
      /\ UNCHANGED treeVars /\ UNCHANGED pingVars /\ UNCHANGED searchVars /\ UNCHANGED status
      /\ parentIp'[n] = s /\ \A x \in Node : x # n => parentIp'[x] = parentIp[x]
  BY <1>0 DEF HandleAttachSuccess, Receive, IInv, NodeInv
<1>2. PacketsGone(s, n, "ATTACHSUCCESS")
  BY <1>1, OnePacketGone
<1>3. /\ \A m \in Placed : m \in Placed'
      /\ Opens' = Opens /\ Edges' = Edges /\ Pendings' = Pendings
      /\ Questions' = Questions /\ Answers' = Answers
      /\ Successes' = Successes \ {<<s, n>>} /\ Idle' = Idle
  BY <1>2 DEF PacketsGone
<1>4. <<s, n>> \in Edges
  BY <1>0, <1>1, TakenQueues DEF Successes, EchoInv
<1>5. ASSUME NEW m \in Unharmed
      PROVE  m \in Unharmed'
  <2>1. m \in Node /\ m \in Placed'
    BY <1>3 DEF Unharmed
  <2>2. \A h \in Node : /\ <<h, m>> \in Pendings' => Heard(h, m)'
                        /\ <<m, h>> \in Opens' /\ <<m, h>> \notin Pendings' => Heard(m, h)'
    BY <1>3 DEF Unharmed, Heard
  <2>3. ASSUME NEW p \in Node, <<p, m>> \in Edges'
        PROVE  parentIp'[m] = p \/ <<p, m>> \in Successes'
    <3>1. CASE m = n
      BY <1>0, <1>1, <1>3, <1>4, <2>3, <3>1, OneEngagement
    <3>2. CASE m # n
      BY <1>1, <1>3, <2>1, <2>3, <3>2 DEF Unharmed
    <3> QED
      BY <3>1, <3>2
  <2> QED
    BY <2>1, <2>2, <2>3 DEF Unharmed
<1> QED
  BY <1>3, <1>5 DEF Harmed

\* Whatever is lost was about the place of one node.
LEMMA LoseHarmsOne ==
  ASSUME OverlayInv, NEW s \in Node, NEW n \in Node, Lose(s, n)
  PROVE  \E o \in Node : Harmed' \subseteq Harmed \cup {o}
<1> DEFINE type == Head(net[s][n]).type
<1>1. /\ net[s][n] # <<>> /\ net' = Taken(s, n)
      /\ UNCHANGED treeVars /\ UNCHANGED pingVars /\ UNCHANGED searchVars
      /\ UNCHANGED status /\ UNCHANGED parentIp
  BY DEF Lose
<1>2. PacketsGone(s, n, type)
  BY <1>1, OnePacketGone
<1> HIDE DEF type
<1>3. /\ Opens' = Opens /\ Edges' = Edges /\ Pendings' = Pendings /\ Idle' = Idle
      /\ Questions' = IF type = "PING" THEN Questions \ {<<s, n>>} ELSE Questions
      /\ Answers' = IF type = "PINGRESPONSE" THEN Answers \ {<<s, n>>} ELSE Answers
      /\ Successes' = IF type = "ATTACHSUCCESS" THEN Successes \ {<<s, n>>} ELSE Successes
      /\ \A m \in Placed : m \in Placed' \/ (type = "ATTACH" /\ m = s) \/ (type = "TRY" /\ m = n)
  BY <1>2 DEF PacketsGone
<1> SUFFICES ASSUME NEW o \in Node,
                    type = "ATTACH" => o = s,
                    type = "PING" => o = IF <<s, n>> \in Pendings THEN n ELSE s,
                    type = "PINGRESPONSE" => o = IF <<n, s>> \in Pendings THEN s ELSE n,
                    type \notin {"ATTACH", "PING", "PINGRESPONSE"} => o = n
             PROVE  Harmed' \subseteq Harmed \cup {o}
  <2>1. CASE type = "ATTACH"
    BY <2>1
  <2>2. CASE type = "PING"
    BY <2>2
  <2>3. CASE type = "PINGRESPONSE"
    BY <2>3
  <2>4. CASE type \notin {"ATTACH", "PING", "PINGRESPONSE"}
    BY <2>4
  <2> QED
    BY <2>1, <2>2, <2>3, <2>4
<1>4. ASSUME NEW m \in Unharmed, m # o
      PROVE  m \in Unharmed'
  <2>1. m \in Node /\ m \in Placed
    BY DEF Unharmed
  <2>2. m \in Placed'
    BY <1>3, <1>4, <2>1
  <2>3. ASSUME NEW h \in Node, <<h, m>> \in Pendings'
        PROVE  Heard(h, m)'
    <3>1. <<h, m>> \in Pendings /\ Heard(h, m)
      BY <1>3, <2>3 DEF Unharmed
    <3>2. type = "PING" => <<h, m>> # <<s, n>>
      BY <1>4, <3>1
    <3>3. type = "PINGRESPONSE" => <<m, h>> # <<s, n>>
      BY <1>4, <3>1
    <3> QED
      BY <1>3, <3>1, <3>2, <3>3 DEF Heard
  <2>4. ASSUME NEW h \in Node, <<m, h>> \in Opens', <<m, h>> \notin Pendings'
        PROVE  Heard(m, h)'
    <3>1. <<m, h>> \notin Pendings /\ Heard(m, h)
      BY <1>3, <2>4 DEF Unharmed
    <3>2. type = "PING" => <<m, h>> # <<s, n>>
      BY <1>4, <3>1
    <3>3. type = "PINGRESPONSE" => <<h, m>> # <<s, n>>
      BY <1>4, <3>1
    <3> QED
      BY <1>3, <3>1, <3>2, <3>3 DEF Heard
  <2>5. ASSUME NEW p \in Node, <<p, m>> \in Edges'
        PROVE  parentIp'[m] = p \/ <<p, m>> \in Successes'
    <3>1. parentIp'[m] = p \/ <<p, m>> \in Successes
      BY <1>1, <1>3, <2>1, <2>5 DEF Unharmed
    <3>2. type = "ATTACHSUCCESS" => <<p, m>> # <<s, n>>
      BY <1>4
    <3> QED
      BY <1>3, <3>1, <3>2
  <2> QED
    BY <2>1, <2>2, <2>3, <2>4, <2>5 DEF Unharmed
<1> QED
  BY <1>3, <1>4 DEF Harmed

\* A packet for a node that has not started would harm nobody.
LEMMA DiscardHarm ==
  ASSUME OverlayInv, AwakeInv, NobodyStopped,
         NEW s \in Node, NEW n \in Node, Discard(s, n)
  PROVE  Harmed' \subseteq Harmed
<1> DEFINE type == Head(net[s][n]).type
<1>1. /\ net[s][n] # <<>> /\ net' = Taken(s, n) /\ status[n] # "running"
      /\ UNCHANGED treeVars /\ UNCHANGED pingVars /\ UNCHANGED searchVars
      /\ UNCHANGED status /\ UNCHANGED parentIp
  BY DEF Discard
<1>2. PacketsGone(s, n, type)
  BY <1>1, OnePacketGone
<1>3. n \in Idle
  BY <1>1 DEF Idle, NobodyStopped, OverlayInv, IInv, NodeInv
<1>4. type \notin Single
  BY <1>1, <1>3, NothingForTheIdle
<1> HIDE DEF type
<1>5. NothingForgotten
  BY <1>2, <1>4 DEF PacketsGone, NothingForgotten, Single
<1> QED
  BY <1>1, <1>5, NobodyHarmed

\* Nobody starts before the root, and whoever has stopped stays so.
LEMMA AwakeKept ==
  ASSUME RootStartsFirst, OverlayInv, AwakeInv, [Next]_vars
  PROVE  AwakeInv' /\ (NobodyStopped' => NobodyStopped)
<1>0. status \in [Node -> {"idle", "running", "stopped"}] /\ Root \in Node
  BY NodeAssumption DEF OverlayInv, IInv, NodeInv
<1>1. CASE UNCHANGED status
  BY <1>1, IdleStays DEF AwakeInv, NobodyStopped
<1>2. ASSUME NEW n \in Node, StartApplication(n)
      PROVE  AwakeInv' /\ (NobodyStopped' => NobodyStopped)
  <2>1. /\ status[n] = "idle" /\ status' = [status EXCEPT ![n] = "running"]
        /\ \A m \in StartsAfter[n] : status[m] # "idle"
    BY <1>2 DEF StartApplication
  <2>2. Root \notin Idle'
    BY <1>0, <2>1 DEF RootStartsFirst, NonRoot, Idle
  <2>3. NobodyStopped' => NobodyStopped
    BY <1>0, <2>1 DEF NobodyStopped
  <2> QED
    BY <2>2, <2>3 DEF AwakeInv
<1>3. ASSUME NEW n \in Node, StopApplication(n)
      PROVE  AwakeInv' /\ (NobodyStopped' => NobodyStopped)
  <2>1. status[n] = "running" /\ status' = [status EXCEPT ![n] = "stopped"]
    BY <1>3 DEF StopApplication
  <2>2. Idle' = Idle
    BY <1>0, <2>1 DEF Idle
  <2>3. ~NobodyStopped'
    BY <1>0, <2>1 DEF NobodyStopped
  <2> QED
    BY <2>2, <2>3 DEF AwakeInv
<1>4. ASSUME NEW s \in Node, NEW n \in Node, InterpretPacket(s, n) \/ Discard(s, n) \/ Lose(s, n)
      PROVE  UNCHANGED status
  BY <1>4 DEF InterpretPacket, HandleAttach, HandlePing, PingRespUnmatched,
     PingRespPossibleParent, PingRespAttacher, HandleReattach, HandleTry,
     HandleAttachSuccess, Discard, Lose
<1>5. UNCHANGED vars => UNCHANGED status
  BY DEF vars
<1> QED
  BY <1>1, <1>2, <1>3, <1>4, <1>5 DEF Next

\* Every step but a loss harms nobody, and a loss harms one node.
LEMMA NextHarms ==
  ASSUME EqualRoundTrips \/ NobodySentAway', SmallOverlay, OverlayInv, AwakeInv,
         NobodyStopped, NobodyStopped', [Next]_vars
  PROVE  \/ Harmed' \subseteq Harmed /\ lost' = lost
         \/ \E o \in Node : Harmed' \subseteq Harmed \cup {o} /\ lost' = lost + 1
<1>1. CASE UNCHANGED vars
  <2>1. /\ UNCHANGED status /\ UNCHANGED parentIp /\ net' = net /\ lost' = lost
        /\ UNCHANGED treeVars /\ UNCHANGED pingVars /\ UNCHANGED searchVars
    BY <1>1 DEF vars
  <2>2. Idle' \subseteq Idle
    BY <2>1, IdleStays
  <2> QED
    BY <2>1, <2>2, NothingHappensOverlay, NobodyHarmed
<1>2. ASSUME NEW n \in Node, StartApplication(n)
      PROVE  Harmed' \subseteq Harmed /\ lost' = lost
  BY <1>2, StartApplicationHarm DEF StartApplication
<1>3. ASSUME NEW n \in Node, StopApplication(n)
      PROVE  FALSE
  BY <1>3 DEF StopApplication, NobodyStopped, OverlayInv, IInv, NodeInv
<1>4. ASSUME NEW s \in Node, NEW n \in Node, HandleAttach(s, n)
      PROVE  Harmed' \subseteq Harmed /\ lost' = lost
  <2>1. UNCHANGED status /\ UNCHANGED parentIp /\ lost' = lost
    BY <1>4 DEF HandleAttach
  <2> QED
    BY <1>4, <2>1, HandleAttachOverlay, NobodyHarmed
<1>5. ASSUME NEW s \in Node, NEW n \in Node, HandlePing(s, n)
      PROVE  Harmed' \subseteq Harmed /\ lost' = lost
  <2>1. UNCHANGED status /\ UNCHANGED parentIp /\ lost' = lost
    BY <1>5 DEF HandlePing
  <2> QED
    BY <1>5, <2>1, HandlePingOverlay, NobodyHarmed
<1>6. ASSUME NEW s \in Node, NEW n \in Node, HandleTry(s, n)
      PROVE  Harmed' \subseteq Harmed /\ lost' = lost
  <2>1. UNCHANGED status /\ UNCHANGED parentIp /\ lost' = lost
    BY <1>6 DEF HandleTry
  <2> QED
    BY <1>6, <2>1, HandleTryOverlay, NobodyHarmed
<1>7. ASSUME NEW s \in Node, NEW n \in Node, PingRespPossibleParent(s, n)
      PROVE  Harmed' \subseteq Harmed /\ lost' = lost
  <2>1. UNCHANGED status /\ UNCHANGED parentIp /\ lost' = lost
    BY <1>7 DEF PingRespPossibleParent
  <2> QED
    BY <1>7, <2>1, PingRespPossibleParentOverlay, NobodyHarmed
<1>8. ASSUME NEW s \in Node, NEW n \in Node, PingRespAttacher(s, n)
      PROVE  Harmed' \subseteq Harmed /\ lost' = lost
  <2>1. UNCHANGED status /\ UNCHANGED parentIp /\ lost' = lost
    BY <1>8 DEF PingRespAttacher
  <2> QED
    BY <1>8, <2>1, PingRespAttacherOverlay, NobodyHarmed
<1>9. ASSUME NEW s \in Node, NEW n \in Node, HandleAttachSuccess(s, n)
      PROVE  Harmed' \subseteq Harmed /\ lost' = lost
  BY <1>9, HandleAttachSuccessHarm DEF HandleAttachSuccess
<1>10. ASSUME NEW s \in Node, NEW n \in Node, Discard(s, n)
       PROVE  Harmed' \subseteq Harmed /\ lost' = lost
  BY <1>10, DiscardHarm DEF Discard
<1>11. ASSUME NEW s \in Node, NEW n \in Node, Lose(s, n)
       PROVE  \E o \in Node : Harmed' \subseteq Harmed \cup {o} /\ lost' = lost + 1
  <2>1. lost' = lost + 1
    BY <1>11 DEF Lose
  <2> QED
    BY <1>11, <2>1, LoseHarmsOne
<1>12. \A s, n \in Node : ~PingRespUnmatched(s, n) /\ ~HandleReattach(s, n)
  BY NoStranger, NoReattach
<1>13. CASE Next
  BY <1>2, <1>3, <1>4, <1>5, <1>6, <1>7, <1>8, <1>9, <1>10, <1>11, <1>12, <1>13
     DEF Next, InterpretPacket
<1> QED
  BY <1>1, <1>13

\* So at most as many nodes are harmed as packets are lost.
LEMMA HarmKept ==
  ASSUME EqualRoundTrips \/ NobodySentAway', SmallOverlay, RootStartsFirst,
         OverlayInv, AwakeInv, HarmInv, [Next]_vars
  PROVE  HarmInv'
<1> SUFFICES ASSUME NobodyStopped' PROVE Cardinality(Harmed') <= lost'
  BY DEF HarmInv
<1>1. NobodyStopped /\ Cardinality(Harmed) <= lost
  BY AwakeKept DEF HarmInv
<1>2. lost \in Int
  BY SizeAssumption, ScenarioAssumption DEF OverlayInv, IInv, NodeInv
<1>3. IsFiniteSet(Harmed)
  BY FS_Subset DEF Harmed, NonRoot, SmallOverlay
<1>4. Cardinality(Harmed) \in Nat
  BY <1>3, FS_CardinalityType
<1>5. CASE Harmed' \subseteq Harmed /\ lost' = lost
  <2>1. IsFiniteSet(Harmed') /\ Cardinality(Harmed') <= Cardinality(Harmed)
    BY <1>3, <1>5, FS_Subset
  <2>2. Cardinality(Harmed') \in Nat
    BY <2>1, FS_CardinalityType
  <2> QED
    BY <1>1, <1>2, <1>4, <1>5, <2>1, <2>2
<1>6. ASSUME NEW o \in Node, Harmed' \subseteq Harmed \cup {o}, lost' = lost + 1
      PROVE  Cardinality(Harmed') <= lost'
  <2> DEFINE all == Harmed \cup {o}
  <2>1. IsFiniteSet(all) /\ Cardinality(all) <= Cardinality(Harmed) + 1
    <3>1. Cardinality(all) = IF o \in Harmed THEN Cardinality(Harmed) ELSE Cardinality(Harmed) + 1
      BY <1>3, FS_AddElement
    <3>2. IsFiniteSet(all)
      BY <1>3, FS_AddElement
    <3> QED
      BY <1>4, <3>1, <3>2
  <2> HIDE DEF all
  <2>2. IsFiniteSet(Harmed') /\ Cardinality(Harmed') <= Cardinality(all)
    <3>1. Harmed' \in SUBSET all
      BY <1>6 DEF all
    <3> QED
      BY <2>1, <3>1, FS_Subset
  <2>3. Cardinality(Harmed') \in Nat /\ Cardinality(all) \in Nat
    BY <2>1, <2>2, FS_CardinalityType
  <2> QED
    BY <1>1, <1>2, <1>4, <1>6, <2>1, <2>2, <2>3
<1> QED
  BY <1>1, <1>5, <1>6, NextHarms

\* The invariant of the drivers in which the root starts first: a loss harms at most one
\* node, as long as nobody has stopped.
THEOREM LossesHarmOneEach ==
  ASSUME SmallOverlay, RootStartsFirst
  PROVE  Spec /\ []NobodySentAway => [](OverlayInv /\ AwakeInv /\ HarmInv)
<1>1. Init => AwakeInv /\ HarmInv
  <2> SUFFICES ASSUME Init PROVE AwakeInv /\ HarmInv
    OBVIOUS
  <2>1. Idle = Node
    BY DEF Init, Idle
  <2>2. Harmed = {}
    BY <2>1 DEF Harmed, NonRoot
  <2> QED
    BY <2>1, <2>2, FS_EmptySet DEF Init, AwakeInv, HarmInv
<1>2. OverlayInv /\ AwakeInv /\ HarmInv /\ NobodySentAway' /\ [Next]_vars =>
        OverlayInv' /\ AwakeInv' /\ HarmInv'
  BY NextOverlay, AwakeKept, HarmKept
<1> QED
  BY <1>1, <1>2, InitOverlay, PTL DEF Spec

\* Whoever is not harmed has a parent at rest, and m_parentIp is its address.
LEMMA UnharmedAtRest ==
  ASSUME OverlayInv, Quiet, NEW n \in Unharmed
  PROVE  parentIp[n] \in Node /\ Child(parentIp[n], n)
<1>1. \A s, d \in Node : DOMAIN net[s][d] = {}
  BY DEF Quiet
<1>2. \A type : Packets(net, type) = {}
  BY <1>1 DEF Packets, Has
<1>3. n \in Node /\ n \in Placed /\ \A h \in Node : ~Heard(n, h) /\ ~Heard(h, n)
  BY <1>2 DEF Unharmed, Heard, Questions, Answers
<1>4. \A p \in Node : <<p, n>> \notin Pendings
  BY <1>3 DEF Unharmed
<1>5. n \notin Searching
  <2> SUFFICES ASSUME NEW i \in possibleParentsSet[n] PROVE FALSE
    BY DEF Searching
  <2>1. /\ i \in PingSlot /\ pings[n][i] \in Node /\ pingTime[n][i] = NotAnswered
    BY <1>3 DEF OverlayInv, DataInv, StackInv, IInv, SearchInv
  <2> DEFINE h == pings[n][i]
  <2>2. <<n, h>> \in Opens
    BY <1>3, <2>1 DEF Opens
  <2>3. <<n, h>> \notin Pendings
    BY <1>3, <2>1 DEF Pendings, OverlayInv, DataInv, TableInv
  <2> HIDE DEF h
  <2>4. h \in Node
    BY <2>1 DEF h
  <2> QED
    BY <1>3, <2>2, <2>3, <2>4 DEF Unharmed
<1>6. PICK p \in Node : <<p, n>> \in Edges
  BY <1>2, <1>3, <1>4, <1>5 DEF Placed, Adoptees, Attaches, Tries
<1>7. parentIp[n] = p
  BY <1>2, <1>6 DEF Unharmed, Successes
<1> QED
  BY <1>6, <1>7 DEF Edges

\* Each loss costs at most one node its parent: once everybody has started and no packet
\* is under way, no more nodes are without a parent that they know than packets were
\* lost, unless somebody has stopped.
THEOREM LossesCostOneEach ==
  ASSUME SmallOverlay, RootStartsFirst
  PROVE  Spec /\ []NobodySentAway => []LossesStayLocal
<1>1. OverlayInv /\ HarmInv => LossesStayLocal
  <2> DEFINE out == {n \in Node \ {Root} : ~(parentIp[n] \in Node /\ Child(parentIp[n], n))}
  <2> SUFFICES ASSUME OverlayInv, HarmInv, Quiet, NobodyStopped
               PROVE  Cardinality(out) <= lost
    BY DEF LossesStayLocal, NobodyStopped
  <2>1. out \subseteq Harmed
    BY UnharmedAtRest DEF Harmed, NonRoot, Idle, Quiet
  <2>2. IsFiniteSet(Harmed)
    BY FS_Subset DEF Harmed, NonRoot, SmallOverlay
  <2> HIDE DEF out
  <2>3. IsFiniteSet(out) /\ Cardinality(out) <= Cardinality(Harmed)
    BY <2>1, <2>2, FS_Subset
  <2>4. Cardinality(out) \in Nat /\ Cardinality(Harmed) \in Nat
    BY <2>2, <2>3, FS_CardinalityType
  <2>5. Cardinality(Harmed) <= lost /\ lost \in Int
    BY ScenarioAssumption DEF HarmInv, OverlayInv, IInv, NodeInv
  <2> QED
    BY <2>3, <2>4, <2>5
<1> QED
  BY <1>1, LossesHarmOneEach, PTL

-------------------------------------------------------------------------------
(* When, besides, no packet is lost and nobody stops *)

Reliable == MaxLost = 0 /\ EarlyStop = {} /\ RootStartsFirst

\* Then nobody is harmed.
THEOREM ReliableInvariant ==
  ASSUME SmallOverlay, Reliable
  PROVE  Spec /\ []NobodySentAway => [](OverlayInv /\ NonRoot \ Idle \subseteq Unharmed)
<1>1. Init => NobodyStopped
  BY DEF Init, NobodyStopped
<1>2. OverlayInv /\ NobodyStopped /\ [Next]_vars => NobodyStopped'
  <2> SUFFICES ASSUME OverlayInv, NobodyStopped, [Next]_vars PROVE NobodyStopped'
    OBVIOUS
  <2>1. status \in [Node -> {"idle", "running", "stopped"}]
    BY DEF OverlayInv, IInv, NodeInv
  <2>2. ASSUME NEW n \in Node, StartApplication(n)
        PROVE  NobodyStopped'
    BY <2>1, <2>2 DEF StartApplication, NobodyStopped
  <2>3. \A n \in Node : ~StopApplication(n)
    BY DEF StopApplication, Reliable
  <2>4. ASSUME NEW s \in Node, NEW n \in Node, InterpretPacket(s, n) \/ Discard(s, n) \/ Lose(s, n)
        PROVE  UNCHANGED status
    BY <2>4 DEF InterpretPacket, HandleAttach, HandlePing, PingRespUnmatched,
       PingRespPossibleParent, PingRespAttacher, HandleReattach, HandleTry,
       HandleAttachSuccess, Discard, Lose
  <2>5. UNCHANGED vars => UNCHANGED status
    BY DEF vars
  <2>6. UNCHANGED status => NobodyStopped'
    BY DEF NobodyStopped
  <2> QED
    BY <2>2, <2>3, <2>4, <2>5, <2>6 DEF Next
<1>3. OverlayInv /\ HarmInv /\ NobodyStopped => NonRoot \ Idle \subseteq Unharmed
  <2> SUFFICES ASSUME OverlayInv, HarmInv, NobodyStopped
               PROVE  NonRoot \ Idle \subseteq Unharmed
    OBVIOUS
  <2>1. IsFiniteSet(Harmed)
    BY FS_Subset DEF Harmed, NonRoot, SmallOverlay
  <2>2. Cardinality(Harmed) \in Nat
    BY <2>1, FS_CardinalityType
  <2>3. lost = 0
    BY DEF OverlayInv, IInv, NodeInv, Reliable
  <2>4. Harmed = {}
    BY <2>1, <2>2, <2>3, FS_EmptySet DEF HarmInv
  <2> QED
    BY <2>4 DEF Harmed
<1>4. RootStartsFirst
  BY DEF Reliable
<1> QED
  BY <1>1, <1>2, <1>3, <1>4, LossesHarmOneEach, PTL DEF Spec

\* Every node that has started has exactly one place in the tree or one request for a
\* place, as long as no packet is lost and nobody stops.
THEOREM NobodyForgotten ==
  ASSUME SmallOverlay, Reliable
  PROVE  Spec /\ []NobodySentAway => []OneConversation
<1>1. OverlayInv /\ NonRoot \ Idle \subseteq Unharmed => OneConversation
  <2> SUFFICES ASSUME OverlayInv, NonRoot \ Idle \subseteq Unharmed,
                      NEW n \in Node \ {Root}, status[n] = "running"
               PROVE  Cardinality(Conversations(n)) = 1
    BY DEF OneConversation
  <2>1. n \in Placed
    BY DEF Unharmed, Idle, NonRoot
  <2> QED
    BY <2>1, PlacedConverses, OneConversationAtMost
<1> QED
  BY <1>1, ReliableInvariant, PTL

\* "Address of parent" (scdt-server.h:210): once everybody has started and no packet is
\* under way, every node has a parent and m_parentIp is its address.
THEOREM EveryoneHasParentAtRest ==
  ASSUME SmallOverlay, Reliable
  PROVE  Spec /\ []NobodySentAway => []ParentAdopted
<1>1. OverlayInv /\ NonRoot \ Idle \subseteq Unharmed => ParentAdopted
  <2> SUFFICES ASSUME OverlayInv, NonRoot \ Idle \subseteq Unharmed,
                      NEW n \in Node \ {Root}, Quiet, status[n] = "running"
               PROVE  parentIp[n] \in Node /\ Child(parentIp[n], n)
    BY DEF ParentAdopted
  <2>1. n \in Unharmed
    BY DEF Idle, NonRoot
  <2> QED
    BY <2>1, UnharmedAtRest
<1> QED
  BY <1>1, ReliableInvariant, PTL

-------------------------------------------------------------------------------
(* When all the pings of a host take the same time *)

\* Nobody is sent away then, so all of the above holds in every behaviour.
THEOREM EqualSendNobodyAway ==
  ASSUME EqualRoundTrips, SmallOverlay
  PROVE  Spec => []NobodySentAway
<1>1. OverlayInv /\ [Next]_vars => OverlayInv'
  BY NextOverlay
<1>2. OverlayInv => NobodySentAway
  BY DEF OverlayInv, WireInv, OnceInv, NobodySentAway
<1> QED
  BY <1>1, <1>2, InitOverlay, PTL DEF Spec

\* The overlay is a tree that grows by leaves, as the data phase assumes it, and nobody
\* gets two places in it, whatever is lost and whoever stops, or one once it was left
\* out; the counters of the searches and of the tables are right, and the times in the
\* tables.
THEOREM EqualTree ==
  ASSUME EqualRoundTrips, SmallOverlay
  PROVE  Spec => /\ GrowsAsATree /\ []OverlayIsTree /\ []FitsDataPhase
                 /\ []AtMostOneConversation /\ []CounterCountsAwaited /\ []NumPingsCountsHosts
                 /\ []TimesAreRoundTrips /\ LeftOutForGood
BY EqualSendNobodyAway, OverlayGrows, OverlayAlwaysTree, DataPhaseFits, NobodyTwice,
   SearchesEnd, PingsAreCounted, TimesAreMeasured, LeftOutStaysOut, PTL

\* If the root starts first, each loss costs at most one node its parent.
THEOREM EqualLosses ==
  ASSUME EqualRoundTrips, SmallOverlay, RootStartsFirst
  PROVE  Spec => []LossesStayLocal
BY EqualSendNobodyAway, LossesCostOneEach, PTL

\* If nothing is lost and nobody stops, everybody has one place or request for one, and
\* is adopted by the parent it believes in once no packet is under way.
THEOREM EqualReliable ==
  ASSUME EqualRoundTrips, SmallOverlay, Reliable
  PROVE  Spec => []OneConversation /\ []ParentAdopted
BY EqualSendNobodyAway, NobodyForgotten, EveryoneHasParentAtRest, PTL

===============================================================================
