-------------------------- MODULE PacketLossCounter --------------------------
(***************************************************************************)
(* The loss counter of UdpServer (packet-loss-counter.cc) as operators on  *)
(* a record.  A ring of bits, one for each of the last "size" sequence     *)
(* numbers, remembers what has arrived; a number is judged when the number *)
(* that reuses its bit is passed.                                          *)
(*                                                                         *)
(* The ring is indexed by seqNum modulo its size in bits, which is what    *)
(* GetBit and SetBit do with a byte and a bit in it, for sizes that are    *)
(* multiples of 8 (SetBitMapSize asserts that).                            *)
(***************************************************************************)
EXTENDS Integers, FiniteSets

\* A ring in which everything counts as received.
AllReceived(size) == [k \in 0..(size - 1) |-> TRUE]

\* The constructor.
NewCounter(size) ==
  [lost |-> 0, lastMaxSeqNum |-> 0, size |-> size, bitMap |-> AllReceived(size)]

\* SetBitMapSize: a new ring; what was known of the last numbers is forgotten.
SetBitMapSizeBug(c, size) == [c EXCEPT !.size = size]
SetBitMapSize(c, size) ==
  [lost |-> c.lost, lastMaxSeqNum |-> c.lastMaxSeqNum, size |-> size,
   bitMap |-> AllReceived(size)]

GetBit(c, seqNum) == c.bitMap[seqNum % c.size]

\* The numbers that the loop of NotifyReceived passes, and those that are
\* judged on the way because their bit is needed again.
Passed(c, seqNum) == (c.lastMaxSeqNum + 1)..seqNum
Judged(c, seqNum) == (c.lastMaxSeqNum + 1 - c.size)..(seqNum - c.size)

\* A number that is judged is lost when its bit is clear: since it was passed
\* earlier and did not arrive, or since this very loop has just passed it.
FoundLost(c, seqNum) ==
  {n \in Judged(c, seqNum) : n > c.lastMaxSeqNum \/ ~GetBit(c, n)}

\* The ring after the loop and the SetBit behind it; RingBug forgets to clear.
RingBug(c, seqNum) == [c.bitMap EXCEPT ![seqNum % c.size] = TRUE]
Ring(c, seqNum) ==
  [k \in 0..(c.size - 1) |->
     \/ k = seqNum % c.size
     \/ c.bitMap[k] /\ \A i \in Passed(c, seqNum) : i % c.size # k]

\* The largest number seen; LastMaxBug takes the latest instead.
LastMaxBug(c, seqNum) == seqNum
LastMax(c, seqNum) ==
  IF seqNum > c.lastMaxSeqNum THEN seqNum ELSE c.lastMaxSeqNum

NotifyReceived(c, seqNum) ==
  [lost          |-> c.lost + Cardinality(FoundLost(c, seqNum)),
   lastMaxSeqNum |-> LastMax(c, seqNum),
   size          |-> c.size,
   bitMap        |-> Ring(c, seqNum)]
==============================================================================
