------------------------------ MODULE ScdtServer ------------------------------
(***************************************************************************)
(* The join protocol of the SCDT overlay (scdt-server.cc).                 *)
(*                                                                         *)
(* Every node runs one ScdtServer application.  One of them is the root of *)
(* a multicast tree; the others send it ATTACH when they start.  A node    *)
(* that is asked to adopt somebody pings it first and, when the answer     *)
(* comes, adopts it (ATTACHSUCCESS), adopts it in the place of a child     *)
(* that it sends away (REATTACH), or answers with the list of its children *)
(* (TRY).  The asker pings the hosts of the list and, when all have        *)
(* answered, sends ATTACH to the nearest.                                  *)
(*                                                                         *)
(* Fields keep the name they have in the code, without the prefix "m_".    *)
(* One action stands for one event of the simulator: the start or the stop *)
(* of an application, or one packet taken by HandleRead and interpreted to *)
(* the end.  Packets between two given nodes stay in order (a fixed route  *)
(* of FIFO queues) but may be lost.  The clock is abstracted to the times   *)
(* that a ping may measure, RoundTrip and Elapsed.                         *)
(*                                                                         *)
(* A definition named after another one with a "Bug" part is a mistake     *)
(* that the code does not make; the runs show that a property notices it.  *)
(***************************************************************************)
EXTENDS Integers, Sequences, FiniteSets, Functions

CONSTANTS
  Node,          \* the hosts that run the application
  Root,          \* the host whose application has m_isRoot
  NoAddress,     \* an Address that was never assigned
  MAX_FANOUT,    \* capacity of m_children
  MAX_PINGS,     \* capacity of m_pings and its parallel arrays
  RoundTrip,     \* RoundTrip[n][s]: the times that a packet of n to s and its answer may take
  Elapsed,       \* the times that may pass between any ping and any answer
  StartsAfter,   \* StartsAfter[n]: the nodes that have started before n starts
  StartsCalm,    \* the nodes that start when no packet is under way
  StalePadding,  \* may memcmp see two copies of one Address as different?
  MaxLost,       \* bound: packets the network may lose
  EarlyStop      \* the nodes that may stop while the overlay is being built

ASSUME NodeAssumption ==
  /\ Root \in Node
  /\ NoAddress \notin Node
\* m_numChildren and m_possibleParentsCntr are of type uint8_t.
MaxByte == 255
ASSUME SizeAssumption ==
  /\ MAX_FANOUT \in 1..MaxByte
  /\ MAX_PINGS \in Nat
  /\ MAX_FANOUT <= MAX_PINGS
\* A ping is answered well before the times that the code uses as markers.
LongestPing == 9999998
ASSUME TimeAssumption ==
  /\ RoundTrip \in [Node -> [Node -> (SUBSET (1..LongestPing)) \ {{}}]]
  /\ Elapsed \subseteq 0..LongestPing
  /\ 0 \in Elapsed
ASSUME ScenarioAssumption ==
  /\ StartsAfter \in [Node -> SUBSET Node]
  /\ StartsCalm \subseteq Node
  /\ StalePadding \in BOOLEAN
  /\ MaxLost \in Nat
  /\ EarlyStop \subseteq Node

VARIABLES
  status,               \* "idle" before StartApplication, "stopped" after StopApplication
  parentIp,
  children,             \* m_children[0 .. m_numChildren - 1]
  shortestPing,         \* parallel to children
  serializedChildren,   \* the TRY packet prepared for the next refusal
  pings,
  pingTime,             \* parallel to pings
  numPings,
  possibleParentsStk,   \* the top of the stack is the last element
  possibleParentsSet,
  possibleParentsCntr,
  nextPotentialParent,
  net,                  \* net[s][d]: the packets on their way from s to d
  lost                  \* number of packets lost so far

treeVars   == <<children, shortestPing, serializedChildren>>
pingVars   == <<pings, pingTime, numPings>>
searchVars == <<possibleParentsStk, possibleParentsSet, possibleParentsCntr,
                nextPotentialParent>>
vars == <<status, parentIp, treeVars, pingVars, searchVars, net, lost>>

-------------------------------------------------------------------------------
(* Packets.  Only a TRY carries more than its type: the number of children *)
(* and their addresses.                                                    *)

PacketType == {"ATTACH", "PING", "PINGRESPONSE", "REATTACH", "TRY", "ATTACHSUCCESS"}
Packet(type) == [type |-> type, count |-> 0, hosts |-> <<>>]

\* The buffer of SerializeChildren: "TRY", the count in one byte, the addresses.
SerializeChildrenBug(hosts) ==
  [type |-> "TRY", count |-> (Len(hosts) + 1) % (MaxByte + 1), hosts |-> hosts]
SerializeChildren(hosts) ==
  [type |-> "TRY", count |-> Len(hosts) % (MaxByte + 1), hosts |-> hosts]

\* m_serializedChildren before the first child: one byte that is never sent.
NothingSerialized == Packet("NONE")

\* SendTo: the packet joins the queue to its destination; it fails, and nothing
\* is sent, when the address was never assigned.
Post(nt, s, d, m) ==
  IF d \in Node THEN [nt EXCEPT ![s][d] = Append(@, m)] ELSE nt

\* SendTo (PING, ...) to each host of a list in turn.
PostPings(nt, n, hosts) ==
  [nt EXCEPT ![n] = [d \in Node |->
     nt[n][d] \o [k \in 1..Cardinality({j \in DOMAIN hosts : hosts[j] = d})
                    |-> Packet("PING")]]]

\* RecvFrom: the oldest packet of s to n leaves the network.
Taken(s, n) == [net EXCEPT ![s][n] = Tail(@)]

-------------------------------------------------------------------------------
PingSlot      == 0..(MAX_PINGS - 1)
NotAnswered   == 99999999    \* m_pingTime of a ping without an answer
NoParentPingBug == 0
NoParentPing  == 9999999     \* m_nextPotentialParentPing between two searches

\* DoSetup leaves possibleParentsCntr and pingTime as they are; neither is read
\* before a TRY or a ping has written it.
Init ==
  /\ status = [n \in Node |-> "idle"]
  /\ parentIp = [n \in Node |-> NoAddress]
  /\ children = [n \in Node |-> <<>>]
  /\ shortestPing = [n \in Node |-> <<>>]
  /\ serializedChildren = [n \in Node |-> NothingSerialized]
  /\ pings = [n \in Node |-> [i \in PingSlot |-> NoAddress]]
  /\ pingTime = [n \in Node |-> [i \in PingSlot |-> NotAnswered]]
  /\ numPings = [n \in Node |-> 0]
  /\ possibleParentsStk = [n \in Node |-> <<>>]
  /\ possibleParentsSet = [n \in Node |-> {}]
  /\ possibleParentsCntr = [n \in Node |-> 0]
  /\ nextPotentialParent = [n \in Node |-> NoAddress]
  /\ net = [s \in Node |-> [d \in Node |-> <<>>]]
  /\ lost = 0

\* Who sends an ATTACH when it starts.
SendsAttachBug(n) == TRUE
SendsAttach(n) == n # Root

\* The drivers give each node a start time of its own.  They start the root first,
\* or all at the same instant: no packet reaches it before it has bound its socket.
StartApplication(n) ==
  /\ status[n] = "idle"
  /\ \A m \in StartsAfter[n] : status[m] # "idle"
  /\ n \in StartsCalm => \A s, d \in Node : net[s][d] = <<>>
  /\ status' = [status EXCEPT ![n] = "running"]
  /\ IF SendsAttach(n)
     THEN /\ parentIp' = [parentIp EXCEPT ![n] = Root]
          /\ net' = Post(net, n, Root, Packet("ATTACH"))
     ELSE UNCHANGED <<parentIp, net>>
  /\ UNCHANGED <<treeVars, pingVars, searchVars, lost>>

\* The socket is closed and its callback removed; everything else stays.
StopApplication(n) ==
  /\ n \in EarlyStop
  /\ status[n] = "running"
  /\ status' = [status EXCEPT ![n] = "stopped"]
  /\ UNCHANGED <<parentIp, treeVars, pingVars, searchVars, net, lost>>

-------------------------------------------------------------------------------
(* HandleRead and InterpretPacket: n takes the oldest packet that s sent it *)

Receive(s, n, type) ==
  /\ status[n] = "running"
  /\ net[s][n] # <<>>
  /\ Head(net[s][n]).type = type

\* SendPing for each host of a list: slots are taken in turn and wrap around.
SendPingsBug(n, hosts) ==
  LET turn(i) == 1 + ((i - numPings[n]) % MAX_PINGS)
  IN  /\ pings' = [pings EXCEPT ![n] = [i \in PingSlot |->
                     IF turn(i) <= Len(hosts) THEN hosts[turn(i)] ELSE pings[n][i]]]
      /\ pingTime' = [pingTime EXCEPT ![n] = [i \in PingSlot |->
                     IF turn(i) <= Len(hosts) THEN NotAnswered ELSE pingTime[n][i]]]
      /\ numPings' = [numPings EXCEPT ![n] = (@ + 1) % MAX_PINGS]
SendPingsResetBug(n, hosts) ==
  LET turn(i) == 1 + ((i - numPings[n]) % MAX_PINGS)
  IN  /\ pings' = [pings EXCEPT ![n] = [i \in PingSlot |->
                     IF turn(i) <= Len(hosts) THEN hosts[turn(i)] ELSE pings[n][i]]]
      /\ pingTime' = [pingTime EXCEPT ![n] = [i \in PingSlot |-> NotAnswered]]
      /\ numPings' = [numPings EXCEPT ![n] = (@ + Len(hosts)) % MAX_PINGS]
SendPings(n, hosts) ==
  LET turn(i) == 1 + ((i - numPings[n]) % MAX_PINGS)
  IN  /\ pings' = [pings EXCEPT ![n] = [i \in PingSlot |->
                     IF turn(i) <= Len(hosts) THEN hosts[turn(i)] ELSE pings[n][i]]]
      /\ pingTime' = [pingTime EXCEPT ![n] = [i \in PingSlot |->
                     IF turn(i) <= Len(hosts) THEN NotAnswered ELSE pingTime[n][i]]]
      /\ numPings' = [numPings EXCEPT ![n] = (@ + Len(hosts)) % MAX_PINGS]

HandleAttach(s, n) ==
  /\ Receive(s, n, "ATTACH")
  /\ SendPings(n, <<s>>)
  /\ net' = PostPings(Taken(s, n), n, <<s>>)
  /\ UNCHANGED <<status, parentIp, treeVars, searchVars, lost>>

HandlePing(s, n) ==
  /\ Receive(s, n, "PING")
  /\ net' = Post(Taken(s, n), n, s, Packet("PINGRESPONSE"))
  /\ UNCHANGED <<status, parentIp, treeVars, pingVars, searchVars, lost>>

HandleReattach(s, n) ==
  /\ Receive(s, n, "REATTACH")
  /\ parentIp' = [parentIp EXCEPT ![n] = Root]
  /\ net' = Post(Taken(s, n), n, Root, Packet("ATTACH"))
  /\ UNCHANGED <<status, treeVars, pingVars, searchVars, lost>>

HandleAttachSuccess(s, n) ==
  /\ Receive(s, n, "ATTACHSUCCESS")
  /\ parentIp' = [parentIp EXCEPT ![n] = s]
  /\ net' = Taken(s, n)
  /\ UNCHANGED <<status, treeVars, pingVars, searchVars, lost>>

HandleTry(s, n) ==
  /\ Receive(s, n, "TRY")
  /\ LET try   == Head(net[s][n])
         slots == [k \in DOMAIN try.hosts |-> (numPings[n] + k - 1) % MAX_PINGS]
     IN  /\ possibleParentsCntr' = [possibleParentsCntr EXCEPT ![n] = try.count]
         /\ SendPings(n, try.hosts)
         /\ possibleParentsStk' = [possibleParentsStk EXCEPT ![n] = @ \o slots]
         /\ possibleParentsSet' = [possibleParentsSet EXCEPT ![n] = @ \cup Range(slots)]
         /\ net' = PostPings(Taken(s, n), n, try.hosts)
  /\ UNCHANGED <<status, parentIp, treeVars, nextPotentialParent, lost>>

-------------------------------------------------------------------------------
(* UpdateChildren (addr, time), called with the packet already taken from nt *)

HasRoomBug(n) == Len(children[n]) <= MAX_FANOUT
HasRoom(n) == Len(children[n]) < MAX_FANOUT

\* A newcomer with ping time "time" takes the place of a child with ping time "best".
BeatsBug(time, best) == time <= best
Beats(time, best) == time < best

\* SerializeChildren after the children of n have become "hosts".
SerializedBug(n, hosts) ==
  IF Len(hosts) > Len(children[n])
  THEN [serializedChildren EXCEPT ![n] = SerializeChildren(hosts)]
  ELSE serializedChildren
SerializedSelfBug(n, hosts) ==
  [serializedChildren EXCEPT ![n] = SerializeChildren(Append(hosts, n))]
Serialized(n, hosts) == [serializedChildren EXCEPT ![n] = SerializeChildren(hosts)]

AddChild(n, addr, time, nt) ==
  /\ HasRoom(n)
  /\ children' = [children EXCEPT ![n] = Append(@, addr)]
  /\ shortestPing' = [shortestPing EXCEPT ![n] = Append(@, time)]
  /\ serializedChildren' = Serialized(n, children'[n])
  /\ net' = Post(nt, n, addr, Packet("ATTACHSUCCESS"))

\* memcmp also compares the bytes of an Address that hold nothing.
RefreshChild(n, addr, time, nt) ==
  /\ ~HasRoom(n)
  /\ \E j \in DOMAIN children[n] :
       /\ children[n][j] = addr
       /\ StalePadding \/ \A k \in 1..(j - 1) : children[n][k] # addr
       /\ shortestPing' = [shortestPing EXCEPT ![n][j] = IF time < @ THEN time ELSE @]
  /\ net' = nt
  /\ UNCHANGED <<children, serializedChildren>>

FullAndUnknown(n, addr) ==
  /\ ~HasRoom(n)
  /\ StalePadding \/ addr \notin Range(children[n])

\* The packets of a replacement, in the order of the code.
ExchangeBug(nt, n, oldAddr, addr) == Post(nt, n, addr, Packet("ATTACHSUCCESS"))
Exchange(nt, n, oldAddr, addr) ==
  Post(Post(nt, n, oldAddr, Packet("REATTACH")), n, addr, Packet("ATTACHSUCCESS"))

\* The loop over m_shortestPing ends with the first of the smallest, whatever the
\* name maxPingIndex says: it is that child that a nearer newcomer replaces.
MaxPingIndex(n) == {j \in DOMAIN children[n] :
  /\ \A k \in DOMAIN children[n] : shortestPing[n][j] <= shortestPing[n][k]
  /\ \A k \in 1..(j - 1) : shortestPing[n][j] < shortestPing[n][k]}

ReplaceChild(n, addr, time, nt) ==
  /\ FullAndUnknown(n, addr)
  /\ \E j \in MaxPingIndex(n) :
       /\ Beats(time, shortestPing[n][j])
       /\ children' = [children EXCEPT ![n][j] = addr]
       /\ shortestPing' = [shortestPing EXCEPT ![n][j] = time]
       /\ net' = Exchange(nt, n, children[n][j], addr)
  /\ serializedChildren' = Serialized(n, children'[n])

Redirect(n, addr, time, nt) ==
  /\ FullAndUnknown(n, addr)
  /\ \A j \in MaxPingIndex(n) : ~Beats(time, shortestPing[n][j])
  /\ net' = Post(nt, n, addr, serializedChildren[n])
  /\ UNCHANGED treeVars

UpdateChildren(n, addr, time, nt) ==
  \/ AddChild(n, addr, time, nt)
  \/ RefreshChild(n, addr, time, nt)
  \/ ReplaceChild(n, addr, time, nt)
  \/ Redirect(n, addr, time, nt)

-------------------------------------------------------------------------------
(* The search for a parent: all the pings sent for a TRY are answered.       *)

\* A position of the stack that, when popped, is nearer than all popped before.
Nearer(stk, time, j) ==
  /\ time[stk[j]] < NoParentPing
  /\ \A k \in (j + 1)..Len(stk) : time[stk[j]] < time[stk[k]]

\* The enumeration of K in increasing order (there is exactly one).
Increasing(K) ==
  {p \in [1..Cardinality(K) -> K] : \A a, b \in DOMAIN p : a < b => p[a] < p[b]}

\* The stack is emptied; the candidates that were once the best but were beaten
\* go back to it in their old order, the others are forgotten.
ChooseParent(n, time, nt) ==
  LET stk    == possibleParentsStk[n]
      nearer == {j \in DOMAIN stk : Nearer(stk, time, j)}
  IN  \/ /\ nearer = {}
         /\ possibleParentsStk' = [possibleParentsStk EXCEPT ![n] = <<>>]
         /\ net' = Post(nt, n, nextPotentialParent[n], Packet("ATTACH"))
         /\ UNCHANGED nextPotentialParent
      \/ \E best \in nearer :
         /\ \A j \in nearer : best <= j
         /\ \E p \in Increasing(nearer \ {best}) :
              possibleParentsStk' =
                [possibleParentsStk EXCEPT ![n] = [k \in DOMAIN p |-> stk[p[k]]]]
         /\ nextPotentialParent' =
              [nextPotentialParent EXCEPT ![n] = pings[n][stk[best]]]
         /\ net' = Post(nt, n, nextPotentialParent'[n], Packet("ATTACH"))

\* The answer of s is booked on the first slot in use that holds s.
MatchesBug(s, n, i) ==
  /\ i < numPings[n] - 1
  /\ pings[n][i] = s
  /\ \A k \in 0..(i - 1) : pings[n][k] # s
Matches(s, n, i) ==
  /\ i < numPings[n]
  /\ pings[n][i] = s
  /\ \A k \in 0..(i - 1) : pings[n][k] # s

\* m_pingTime is the time since m_pingStartTime of the slot on which the answer is
\* booked: a round trip if this is the answer to that very ping, more if it answers
\* a later ping (the largest time stands for all longer ones), less if it answers
\* an earlier one, whose slot comes after it in the array.
Age(n, i)     == (numPings[n] - 1 - i) % MAX_PINGS
NewerPings(s, n, i) == {k \in PingSlot : pings[n][k] = s /\ Age(n, k) < Age(n, i)}
Outstanding(s, n) ==
  Cardinality({k \in DOMAIN net[n][s] : net[n][s][k].type = "PING"})
  + Cardinality({k \in DOMAIN net[s][n] : net[s][n][k].type = "PINGRESPONSE"})
MoreThan(time) == {t \in Elapsed : t > time \/ \A u \in Elapsed : u <= t}

Measured(s, n, i) ==
  LET newer == Cardinality(NewerPings(s, n, i)) + 1 - Outstanding(s, n)
  IN  CASE newer = 0 -> RoundTrip[n][s]
        [] newer < 0 -> {t \in Elapsed : \E r \in RoundTrip[n][s] : t < r}
        [] newer > 0 -> IF pingTime[n][i] = NotAnswered
                        THEN UNION {MoreThan(r) : r \in RoundTrip[n][s]}
                        ELSE MoreThan(pingTime[n][i])

\* The answer is one that a search waits for, not that of an attacher.
AwaitedBug(n, i) == FALSE
Awaited(n, i) == i \in possibleParentsSet[n]

PingRespUnmatched(s, n) ==
  /\ Receive(s, n, "PINGRESPONSE")
  /\ \A i \in 0..(numPings[n] - 1) : pings[n][i] # s
  /\ net' = Taken(s, n)
  /\ UNCHANGED <<status, parentIp, treeVars, pingVars, searchVars, lost>>

PingRespPossibleParent(s, n) ==
  /\ Receive(s, n, "PINGRESPONSE")
  /\ \E i \in PingSlot : \E time \in Measured(s, n, i) :
       /\ Matches(s, n, i) /\ Awaited(n, i)
       /\ pingTime' = [pingTime EXCEPT ![n][i] = time]
       /\ possibleParentsCntr' = [possibleParentsCntr EXCEPT ![n] = (@ - 1) % (MaxByte + 1)]
       /\ possibleParentsSet' = [possibleParentsSet EXCEPT ![n] = @ \ {i}]
       /\ IF possibleParentsCntr'[n] = 0
          THEN ChooseParent(n, pingTime'[n], Taken(s, n))
          ELSE /\ net' = Taken(s, n)
               /\ UNCHANGED <<possibleParentsStk, nextPotentialParent>>
  /\ UNCHANGED <<status, parentIp, treeVars, pings, numPings, lost>>

PingRespAttacher(s, n) ==
  /\ Receive(s, n, "PINGRESPONSE")
  /\ \E i \in PingSlot : \E time \in Measured(s, n, i) :
       /\ Matches(s, n, i) /\ ~Awaited(n, i)
       /\ pingTime' = [pingTime EXCEPT ![n][i] = time]
       /\ UpdateChildren(n, pings[n][i], time, Taken(s, n))
  /\ UNCHANGED <<status, parentIp, pings, numPings, searchVars, lost>>

-------------------------------------------------------------------------------
\* A packet for a node without an open socket is dropped by its stack.
Discard(s, n) ==
  /\ status[n] # "running"
  /\ net[s][n] # <<>>
  /\ net' = Taken(s, n)
  /\ UNCHANGED <<status, parentIp, treeVars, pingVars, searchVars, lost>>

\* A full queue on the route drops a packet.
Lose(s, n) ==
  /\ lost < MaxLost
  /\ net[s][n] # <<>>
  /\ net' = Taken(s, n)
  /\ lost' = lost + 1
  /\ UNCHANGED <<status, parentIp, treeVars, pingVars, searchVars>>

InterpretPacket(s, n) ==
  \/ HandleAttach(s, n)
  \/ HandlePing(s, n)
  \/ PingRespUnmatched(s, n)
  \/ PingRespPossibleParent(s, n)
  \/ PingRespAttacher(s, n)
  \/ HandleReattach(s, n)
  \/ HandleTry(s, n)
  \/ HandleAttachSuccess(s, n)

Next ==
  \/ \E n \in Node : StartApplication(n) \/ StopApplication(n)
  \/ \E s, n \in Node : InterpretPacket(s, n) \/ Discard(s, n) \/ Lose(s, n)

\* The simulator runs every scheduled event: an application starts, and a packet
\* that is not lost reaches its node.
Fairness ==
  /\ \A n \in Node : WF_vars(StartApplication(n))
  /\ \A s, n \in Node : WF_vars(InterpretPacket(s, n) \/ Discard(s, n))

Spec == Init /\ [][Next]_vars
FairSpec == Spec /\ Fairness

-------------------------------------------------------------------------------
PacketsOK ==
  [type : PacketType \cup {"NONE"}, count : 0..MaxByte, hosts : Seq(Node)]

\* Every field holds a value of its C++ type.
TypeOK ==
  /\ status \in [Node -> {"idle", "running", "stopped"}]
  /\ parentIp \in [Node -> Node \cup {NoAddress}]
  /\ children \in [Node -> Seq(Node)]
  /\ shortestPing \in [Node -> Seq(0..LongestPing)]
  /\ \A n \in Node : /\ Len(children[n]) <= MAX_FANOUT
                     /\ Len(shortestPing[n]) = Len(children[n])
  /\ serializedChildren \in [Node -> PacketsOK]
  /\ pings \in [Node -> [PingSlot -> Node \cup {NoAddress}]]
  /\ pingTime \in [Node -> [PingSlot -> 0..NotAnswered]]
  /\ numPings \in [Node -> PingSlot]
  /\ possibleParentsStk \in [Node -> Seq(PingSlot)]
  /\ possibleParentsSet \in [Node -> SUBSET PingSlot]
  /\ possibleParentsCntr \in [Node -> 0..MaxByte]
  /\ nextPotentialParent \in [Node -> Node \cup {NoAddress}]
  /\ net \in [Node -> [Node -> Seq(PacketsOK)]]
  /\ lost \in 0..MaxLost

-------------------------------------------------------------------------------
(* Safety *)

Child(p, n)  == n \in Range(children[p])
Adopted(n)   == \E p \in Node : Child(p, n)
Quiet        == /\ \A n \in Node : status[n] # "idle"
                /\ \A s, d \in Node : net[s][d] = <<>>

\* Nobody ever adopts the root: StartApplication gives it no parent, and whatever
\* lists of hosts travel afterwards never name it.
RootIsNobodysChild == ~Adopted(Root)

\* The TRY that a refusal sends (m_serializedChildren) lists the children of now:
\* each change of m_children is followed by SerializeChildren, before or after
\* the packets of UpdateChildren.
SerializedIsFresh == \A n \in Node : children[n] # <<>> =>
  /\ serializedChildren[n].hosts = children[n]
  /\ serializedChildren[n].count = Len(children[n])

\* A node that believes in a parent is a child of it, or the parent's REATTACH is
\* on its way: ATTACHSUCCESS and REATTACH never cross.
ParentBacked == \A n, p \in Node :
  parentIp[n] = p /\ p # Root /\ status[n] = "running" =>
    \/ Child(p, n)
    \/ Packet("REATTACH") \in Range(net[p][n])

\* m_possibleParentsCntr counts the answers that the search still waits for: the
\* search can end, and ends with the last of them.
CounterCountsAwaited == \A n \in Node :
  possibleParentsCntr[n] = Cardinality(possibleParentsSet[n])

\* All that is going on about the place of n in the tree: its entries among
\* somebody's children, its ATTACH, the ping of an adopter that waits for its
\* answer, a TRY or a REATTACH to it, its own search.
Adopting(p, n) == {i \in PingSlot \ possibleParentsSet[p] :
                     pings[p][i] = n /\ pingTime[p][i] = NotAnswered}
Queued(s, d, types) == {k \in DOMAIN net[s][d] : net[s][d][k].type \in types}
Conversations(n) ==
  (UNION {   ({<<"child", p>>} \X {j \in DOMAIN children[p] : children[p][j] = n})
        \cup ({<<"attach", p>>} \X Queued(n, p, {"ATTACH"}))
        \cup ({<<"ping", p>>} \X Adopting(p, n))
        \cup ({<<"answer", p>>} \X Queued(p, n, {"TRY", "REATTACH"})) : p \in Node})
  \cup (IF possibleParentsSet[n] # {} THEN {<<"search", n>>} ELSE {})

\* Every node that has started has exactly one place in the tree or one request
\* for a place, never both, never two and never none.
OneConversation == \A n \in Node \ {Root} :
  status[n] = "running" => Cardinality(Conversations(n)) = 1

\* When packets get lost or nodes stop, a node may end without a place, but still
\* never gets two.
AtMostOneConversation == \A n \in Node : Cardinality(Conversations(n)) <= 1

\* Nothing sends ATTACH a second time: a node whose request was lost, or met a node
\* that had stopped, stays out of the tree for good.
LeftOutForGood == [][\A n \in Node \ {Root} :
  status[n] # "idle" /\ Conversations(n) = {} => Conversations(n)' = {}]_vars

\* But it stays out alone.  Each packet is about the place of one node, so each loss
\* costs at most one node its parent: all the others have one when the overlay is at
\* rest, and know it, unless somebody has stopped.
LossesStayLocal == Quiet /\ (\A n \in Node : status[n] # "stopped") =>
  Cardinality({n \in Node \ {Root} :
                 ~(parentIp[n] \in Node /\ Child(parentIp[n], n))}) <= lost

\* An answer is booked on the ping that it answers: a time in m_pingTime, and so one
\* in m_shortestPing, is a round trip to that very host.
TimesAreRoundTrips == \A p \in Node :
  /\ \A i \in PingSlot : pings[p][i] \in Node /\ pingTime[p][i] # NotAnswered =>
       pingTime[p][i] \in RoundTrip[p][pings[p][i]]
  /\ \A j \in DOMAIN children[p] : shortestPing[p][j] \in RoundTrip[p][children[p][j]]

\* As long as nobody is sent away the overlay only grows, by one leaf at a time: it
\* implements MulticastTree.
Tree == INSTANCE MulticastTree
          WITH MaxFanout <- MAX_FANOUT,
               edges <- {e \in Node \X Node : Child(e[1], e[2])}
GrowsAsATree == Tree!Spec

\* What that means for the data forwarded from m_children to m_children: it reaches
\* every node of the overlay, on one path.
OverlayIsTree == Tree!OneParent /\ Tree!ReachesRoot

-------------------------------------------------------------------------------
(* What the comments of the code say and evictions or a full table refute *)

\* "Address of parent" (scdt-server.h:210): when the overlay is at rest, every
\* node has a parent and m_parentIp is its address.
ParentAdopted == \A n \in Node \ {Root} :
  Quiet /\ status[n] = "running" => parentIp[n] \in Node /\ Child(parentIp[n], n)

\* "Counter of number of hosts ping data has been stored for" (scdt-server.h:226).
NumPingsCountsHosts == \A n \in Node :
  numPings[n] = Cardinality({i \in PingSlot : pings[n][i] \in Node})

-------------------------------------------------------------------------------
(* Liveness *)

\* Every node is adopted in the end and knows by whom, unless a packet is lost or
\* a node stops on the way.
EveryoneAdopted == \A n \in Node \ {Root} :
  <>[](\/ parentIp[n] \in Node /\ Child(parentIp[n], n)
      \/ lost > 0 \/ \E m \in Node : status[m] = "stopped")
===============================================================================
