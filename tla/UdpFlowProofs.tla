---------------------------- MODULE UdpFlowProofs ----------------------------
(***************************************************************************)
(* Proofs about UdpFlow and its loss counter, for every number of packets, *)
(* every set of window sizes and any losses, copies, delays and changes of *)
(* the window.                                                             *)
(***************************************************************************)
EXTENDS UdpFlow, TLAPS, FiniteSetTheorems

\* The numbers that the ring has a bit for.
Window == (counter.lastMaxSeqNum - counter.size + 1)..counter.lastMaxSeqNum

\* What has left the window has been judged, and nothing that is yet to come.
JudgedInv ==
  /\ counter.lastMaxSeqNum - counter.size <= judged
  /\ judged <= counter.lastMaxSeqNum
  /\ orderly => judged = counter.lastMaxSeqNum - counter.size

\* Nothing that has been received in time is larger than the largest.
InTimeInv == \A n \in inTime : n <= counter.lastMaxSeqNum

\* A clear bit is that of a packet not yet judged that is not there; if nothing
\* came out of order, a bit that is set is that of a packet that is there.
BitsInv == \A n \in Window :
  /\ ~GetBit(counter, n) => n > judged /\ n >= 1 /\ n \notin inTime
  /\ orderly /\ GetBit(counter, n) => n <= 0 \/ n \in inTime

\* The packets behind the first that left the window without having arrived.
Missed == MissedFrom(1)

IInv == TypeOK /\ JudgedInv /\ InTimeInv /\ BitsInv /\ LaterLossesExact /\ LostNeverOvercounts

-------------------------------------------------------------------------------
\* A positive multiple of a positive number is not smaller.
LEMMA Multiple ==
  ASSUME NEW w \in Nat \ {0}, NEW q \in Int, q >= 1
  PROVE  w * q >= w
BY Z3

\* Two numbers of one window have different bits (GetBit, SetBit).
LEMMA DistinctSlots ==
  ASSUME NEW w \in Nat \ {0}, NEW a \in Int, NEW b \in Int, a < b, b < a + w
  PROVE  a % w # b % w
<1>1. a = w * (a \div w) + (a % w) /\ b = w * (b \div w) + (b % w)
  BY Z3
<1>2. a \div w \in Int /\ b \div w \in Int /\ a % w \in 0..(w - 1) /\ b % w \in 0..(w - 1)
  BY Z3
<1>3. SUFFICES ASSUME a % w = b % w PROVE FALSE
  OBVIOUS
<1> DEFINE q == (b \div w) - (a \div w)
<1>4. b - a = w * q
  BY <1>1, <1>2, <1>3, Z3
<1>5. q \in Int
  BY <1>2
<1> HIDE DEF q
<1>6. CASE q >= 1
  BY <1>4, <1>5, <1>6, Multiple
<1>7. CASE q <= 0
  BY <1>4, <1>5, <1>7, Z3
<1> QED BY <1>5, <1>6, <1>7

\* The bit of a number is one of the ring.
LEMMA SlotType ==
  ASSUME NEW w \in Nat \ {0}, NEW n \in Int
  PROVE  n % w \in 0..(w - 1)
BY Z3

\* What a counter is made of (the constructor of PacketLossCounter).
LEMMA CounterType ==
  ASSUME TypeOK
  PROVE  /\ counter.lost \in Nat
         /\ counter.lastMaxSeqNum \in Nat
         /\ counter.size \in Nat \ {0}
         /\ counter.bitMap \in [0..(counter.size - 1) -> BOOLEAN]
         /\ judged \in Int /\ inTime \subseteq Nat /\ orderly \in BOOLEAN
BY FlowAssumption DEF TypeOK

\* Missed is a finite set.
LEMMA MissedFinite ==
  ASSUME judged \in Int
  PROVE  IsFiniteSet(Missed) /\ Cardinality(Missed) \in Nat
<1>1. IsFiniteSet(1..judged)
  BY FS_Interval
<1>2. Missed \in SUBSET (1..judged)
  BY DEF Missed, MissedFrom
<1>3. IsFiniteSet(Missed)
  BY <1>1, <1>2, FS_Subset
<1> QED BY <1>3, FS_CardinalityType

-------------------------------------------------------------------------------
(* The initial state.                                                      *)

LEMMA InitInv == Init => IInv
<1> SUFFICES ASSUME Init PROVE IInv
  OBVIOUS
<1>1. PICK size \in WindowSizes : counter = NewCounter(size) /\ judged = -size
  BY DEF Init
<1>2. size \in Nat \ {0}
  BY FlowAssumption
<1>3. /\ counter.lost = 0 /\ counter.lastMaxSeqNum = 0 /\ counter.size = size
      /\ counter.bitMap = [k \in 0..(size - 1) |-> TRUE]
  BY <1>1 DEF NewCounter, AllReceived
<1>4. TypeOK
  <2>1. counter.bitMap \in [0..(counter.size - 1) -> BOOLEAN]
    BY <1>3
  <2>2. judged \in Int /\ counter.size \in WindowSizes /\ counter.lost \in Nat /\ counter.lastMaxSeqNum \in Nat
    BY <1>1, <1>2, <1>3
  <2> QED BY <2>1, <2>2 DEF Init, TypeOK, AppState
<1>5. JudgedInv /\ InTimeInv
  BY <1>1, <1>2, <1>3 DEF Init, JudgedInv, InTimeInv
<1>6. BitsInv
  <2> SUFFICES ASSUME NEW n \in Window
               PROVE  GetBit(counter, n) /\ n <= 0
    BY DEF BitsInv
  <2>1. n \in Int /\ n <= 0
    BY <1>2, <1>3 DEF Window
  <2>2. n % size \in 0..(size - 1)
    BY <2>1, <1>2, SlotType
  <2> QED BY <2>1, <2>2, <1>3 DEF GetBit
<1>7. Missed = {}
  BY <1>1, <1>2 DEF Missed, MissedFrom
<1>8. Cardinality(Missed) = 0
  BY <1>7, FS_EmptySet
<1>9. LaterLossesExact /\ LostNeverOvercounts
  BY <1>3, <1>8 DEF LaterLossesExact, LostNeverOvercounts, Missed
<1> QED BY <1>4, <1>5, <1>6, <1>9 DEF IInv

-------------------------------------------------------------------------------
(* A packet is read.                                                       *)

\* NotifyReceived, field by field, in a state that satisfies the invariant.
LEMMA Notified ==
  ASSUME IInv, NEW n \in Nat, HandleRead(n)
  PROVE  /\ counter'.lost = counter.lost + Cardinality(FoundLost(counter, n))
         /\ counter'.lastMaxSeqNum = LastMax(counter, n)
         /\ counter'.size = counter.size
         /\ counter'.bitMap = Ring(counter, n)
         /\ judged' = JudgedBy(counter')
         /\ inTime' = IF n > judged THEN inTime \cup {n} ELSE inTime
         /\ orderly' = (orderly /\ n > judged)
BY DEF HandleRead, NotifyReceived

\* The bits after a packet was read: those of the numbers passed over are clear,
\* the others in the window are as before, except that of the packet itself.
LEMMA BitsAfter ==
  ASSUME IInv, NEW n \in Nat, HandleRead(n), NEW m \in Window'
  PROVE  /\ m = n => GetBit(counter, m)'
         /\ m > counter.lastMaxSeqNum /\ m # n => ~GetBit(counter, m)'
         /\ m <= counter.lastMaxSeqNum =>
              m \in Window /\ (GetBit(counter, m) => GetBit(counter, m)')
         /\ m <= counter.lastMaxSeqNum /\ n > counter.lastMaxSeqNum =>
              (GetBit(counter, m)' => GetBit(counter, m))
         /\ m <= counter.lastMaxSeqNum /\ n \in Window /\ m # n =>
              (GetBit(counter, m)' => GetBit(counter, m))
<1> DEFINE w == counter.size
           last == counter.lastMaxSeqNum
<1>1. TypeOK
  BY DEF IInv
<1>2. w \in Nat \ {0} /\ last \in Nat /\ counter.bitMap \in [0..(w - 1) -> BOOLEAN]
  BY <1>1, CounterType
<1>3. counter'.size = w /\ counter'.lastMaxSeqNum = LastMax(counter, n) /\ counter'.bitMap = Ring(counter, n)
  BY Notified
<1>4. last <= LastMax(counter, n) /\ n <= LastMax(counter, n) /\ LastMax(counter, n) \in Nat
  BY <1>2 DEF LastMax
<1>5. m \in Int /\ LastMax(counter, n) - w < m /\ m <= LastMax(counter, n)
  BY <1>2, <1>3, <1>4 DEF Window
<1>6. m % w \in 0..(w - 1)
  BY <1>2, <1>5, SlotType
<1>7. GetBit(counter, m)' <=>
        \/ m % w = n % w
        \/ counter.bitMap[m % w] /\ \A i \in (last + 1)..n : i % w # m % w
  BY <1>3, <1>6 DEF GetBit, Ring, Passed
<1>8. GetBit(counter, m) = counter.bitMap[m % w]
  BY DEF GetBit
<1> HIDE DEF w, last
<1>9. m = n => GetBit(counter, m)'
  BY <1>7
<1>10. ASSUME m > last, m # n PROVE ~GetBit(counter, m)'
  <2>1. n > last /\ LastMax(counter, n) = n
    BY <1>2, <1>5, <1>10 DEF LastMax, last
  <2>2. m < n /\ n < m + w
    BY <2>1, <1>2, <1>5, <1>10
  <2>3. m % w # n % w
    BY <2>2, <1>2, <1>5, DistinctSlots
  <2>4. m \in (last + 1)..n
    BY <2>2, <1>2, <1>5, <1>10
  <2> QED BY <2>3, <2>4, <1>7
<1>11. ASSUME m <= last PROVE m \in Window
  BY <1>11, <1>2, <1>4, <1>5 DEF Window, w, last
<1>12. ASSUME m <= last, NEW i \in (last + 1)..n PROVE i % w # m % w
  <2>1. i \in Int /\ n = LastMax(counter, n)
    BY <1>2, <1>12 DEF LastMax, last
  <2>2. m < i /\ i < m + w
    BY <2>1, <1>2, <1>5, <1>12
  <2> QED BY <2>1, <2>2, <1>2, <1>5, DistinctSlots
<1>13. ASSUME m <= last PROVE GetBit(counter, m) => GetBit(counter, m)'
  BY <1>7, <1>8, <1>12, <1>13
<1>14. ASSUME m <= last, n > last PROVE GetBit(counter, m)' => GetBit(counter, m)
  <2>1. n \in (last + 1)..n
    BY <1>2, <1>14
  <2>2. n % w # m % w
    BY <2>1, <1>12, <1>14
  <2> QED BY <2>2, <1>7, <1>8
<1>15. ASSUME m <= last, n \in Window, m # n
       PROVE  GetBit(counter, m)' => GetBit(counter, m)
  <2>1. m \in Window
    BY <1>11, <1>15
  <2>2. (m < n /\ n < m + w) \/ (n < m /\ m < n + w)
    BY <2>1, <1>2, <1>5, <1>15 DEF Window, w, last
  <2>3. m % w # n % w
    BY <2>2, <1>2, <1>5, DistinctSlots
  <2> QED BY <2>3, <1>7, <1>8
<1> QED BY <1>9, <1>10, <1>11, <1>13, <1>14, <1>15 DEF last

\* What is lost with a packet is what leaves the window now and is not there.
LEMMA FoundLostIsMissed ==
  ASSUME IInv, NEW n \in Nat, HandleRead(n)
  PROVE  /\ FoundLost(counter, n) \cap Missed = {}
         /\ FoundLost(counter, n) \cup Missed \subseteq Missed'
         /\ orderly' => FoundLost(counter, n) \cup Missed = Missed'
<1> DEFINE w == counter.size
           last == counter.lastMaxSeqNum
<1>1. TypeOK /\ JudgedInv /\ InTimeInv /\ BitsInv
  BY DEF IInv
<1>2. /\ w \in Nat \ {0} /\ last \in Nat /\ judged \in Int /\ inTime \subseteq Nat
      /\ orderly \in BOOLEAN
  BY <1>1, CounterType
<1>3. /\ judged' = IF LastMax(counter, n) - w > judged THEN LastMax(counter, n) - w ELSE judged
      /\ inTime' = IF n > judged THEN inTime \cup {n} ELSE inTime
      /\ orderly' = (orderly /\ n > judged)
  BY Notified DEF JudgedBy
<1>4. LastMax(counter, n) = IF n > last THEN n ELSE last
  BY DEF LastMax
<1>5. judged' \in Int /\ judged <= judged'
  BY <1>2, <1>3, <1>4
<1>6. /\ last - w <= judged /\ judged <= last
      /\ orderly => judged = last - w
  BY <1>1 DEF JudgedInv
<1>7. \A m \in inTime : m <= last
  BY <1>1 DEF InTimeInv
<1>8. FoundLost(counter, n) =
        {m \in (last + 1 - w)..(n - w) : m > last \/ ~GetBit(counter, m)}
  BY DEF FoundLost, Judged
<1>9. Window = (last - w + 1)..last
  BY DEF Window
<1> HIDE DEF w, last
\* A number found lost was not judged before, and has not arrived.
<1>10. ASSUME NEW m \in FoundLost(counter, n)
       PROVE  m \in Int /\ m > judged /\ m <= judged' /\ m >= 1 /\ m \notin inTime'
  <2>1. m \in Int /\ last - w + 1 <= m /\ m <= n - w /\ (m > last \/ ~GetBit(counter, m))
    BY <1>2, <1>8, <1>10
  <2>2. n > last /\ m < n /\ m <= judged'
    BY <2>1, <1>2, <1>3, <1>4, <1>5
  <2>3. m > judged /\ m >= 1 /\ m \notin inTime
    <3>1. CASE m > last
      BY <3>1, <2>1, <1>2, <1>6, <1>7
    <3>2. CASE m <= last
      <4>1. m \in Window /\ ~GetBit(counter, m)
        BY <3>2, <2>1, <1>2, <1>9
      <4> QED BY <4>1, <1>1 DEF BitsInv
    <3> QED BY <3>1, <3>2, <2>1, <1>2
  <2>4. m \notin inTime'
    BY <2>2, <2>3, <1>3
  <2> QED BY <2>1, <2>2, <2>3, <2>4
<1>11. ASSUME NEW m \in Missed
       PROVE  m \in Int /\ m >= 1 /\ m <= judged /\ m \in Missed'
  <2>1. m \in Int /\ m >= 1 /\ m <= judged /\ m \notin inTime
    BY <1>2 DEF Missed, MissedFrom
  <2>2. m \notin inTime'
    BY <2>1, <1>2, <1>3
  <2> QED BY <2>1, <2>2, <1>2, <1>5 DEF Missed, MissedFrom
<1>12. FoundLost(counter, n) \cap Missed = {}
  BY <1>2, <1>10, <1>11
<1>13. FoundLost(counter, n) \cup Missed \subseteq Missed'
  <2>1. ASSUME NEW m \in FoundLost(counter, n) PROVE m \in Missed'
    BY <1>5, <1>10, <2>1 DEF Missed, MissedFrom
  <2> QED BY <2>1, <1>11
\* If nothing came out of order, whatever has not come is noticed.
<1>14. ASSUME orderly', NEW m \in Missed'
       PROVE  m \in FoundLost(counter, n) \cup Missed
  <2>1. m \in Int /\ m >= 1 /\ m <= judged' /\ m \notin inTime'
    BY <1>5 DEF Missed, MissedFrom
  <2>2. m \notin inTime /\ orderly /\ judged = last - w
    BY <2>1, <1>3, <1>6, <1>14
  <2>3. CASE m <= judged
    BY <2>1, <2>2, <2>3, <1>2 DEF Missed, MissedFrom
  <2>4. CASE m > judged
    <3>1. n > last /\ m <= n - w /\ m >= last + 1 - w
      BY <2>1, <2>2, <2>4, <1>2, <1>3, <1>4
    <3>2. m <= last => ~GetBit(counter, m)
      <4>1. SUFFICES ASSUME m <= last PROVE ~GetBit(counter, m)
        OBVIOUS
      <4>2. m \in Window
        BY <3>1, <4>1, <2>1, <1>2, <1>9
      <4> QED BY <4>2, <2>1, <2>2, <1>1 DEF BitsInv
    <3> QED BY <3>1, <3>2, <2>1, <1>2, <1>8
  <2> QED BY <2>1, <2>3, <2>4, <1>2
<1>15. orderly' => FoundLost(counter, n) \cup Missed = Missed'
  BY <1>13, <1>14
<1> QED BY <1>12, <1>13, <1>15

LEMMA HandleReadInv ==
  ASSUME IInv, NEW n \in Nat, HandleRead(n)
  PROVE  IInv'
<1> DEFINE w == counter.size
           last == counter.lastMaxSeqNum
<1>1. TypeOK /\ JudgedInv /\ InTimeInv /\ BitsInv /\ LaterLossesExact /\ LostNeverOvercounts
  BY DEF IInv
<1>2. /\ w \in Nat \ {0} /\ last \in Nat /\ judged \in Int /\ inTime \subseteq Nat
      /\ orderly \in BOOLEAN /\ counter.lost \in Nat
      /\ counter.bitMap \in [0..(w - 1) -> BOOLEAN]
  BY <1>1, CounterType
<1>3. /\ counter'.lost = counter.lost + Cardinality(FoundLost(counter, n))
      /\ counter'.lastMaxSeqNum = LastMax(counter, n)
      /\ counter'.size = w
      /\ counter'.bitMap = Ring(counter, n)
      /\ judged' = IF LastMax(counter, n) - w > judged THEN LastMax(counter, n) - w ELSE judged
      /\ inTime' = IF n > judged THEN inTime \cup {n} ELSE inTime
      /\ orderly' = (orderly /\ n > judged)
  BY Notified DEF JudgedBy
<1>4. LastMax(counter, n) = IF n > last THEN n ELSE last
  BY DEF LastMax
<1>5. /\ last - w <= judged /\ judged <= last
      /\ orderly => judged = last - w
  BY <1>1 DEF JudgedInv
<1>6. IsFiniteSet(Missed) /\ Cardinality(Missed) \in Nat
  BY <1>2, MissedFinite
<1>7. judged' \in Int
  BY <1>2, <1>3, <1>4
<1>8. IsFiniteSet(Missed') /\ Cardinality(Missed') \in Nat
  <2>1. IsFiniteSet(1..judged')
    BY <1>7, FS_Interval
  <2>2. Missed' \in SUBSET (1..judged')
    BY DEF Missed, MissedFrom
  <2> QED BY <2>1, <2>2, FS_Subset, FS_CardinalityType
\* The losses found with this packet are added to those known before.
<1>9. /\ Cardinality(FoundLost(counter, n)) \in Nat
      /\ counter'.lost <= counter.lost + Cardinality(Missed') - Cardinality(Missed)
      /\ orderly' => counter'.lost = counter.lost + Cardinality(Missed') - Cardinality(Missed)
  <2> DEFINE F == FoundLost(counter, n)
  <2>1. F \cap Missed = {} /\ F \cup Missed \subseteq Missed' /\ (orderly' => F \cup Missed = Missed')
    BY FoundLostIsMissed
  <2> HIDE DEF F
  <2>2. IsFiniteSet(F) /\ IsFiniteSet(F \cup Missed)
    BY <2>1, <1>8, FS_Subset
  <2>3. Cardinality(F) \in Nat /\ Cardinality(F \cup Missed) \in Nat
    BY <2>2, FS_CardinalityType
  <2>4. Cardinality(F \cup Missed) = Cardinality(F) + Cardinality(Missed)
    <3>1. Cardinality(F \cup Missed) = Cardinality(F) + Cardinality(Missed) - Cardinality(F \cap Missed)
      BY <2>2, <1>6, FS_Union
    <3>2. Cardinality(F \cap Missed) = 0
      BY <2>1, FS_EmptySet
    <3> QED BY <3>1, <3>2, <2>3, <1>6
  <2>5. Cardinality(F \cup Missed) <= Cardinality(Missed')
    BY <2>1, <1>8, FS_Subset
  <2>6. orderly' => Cardinality(F \cup Missed) = Cardinality(Missed')
    BY <2>1
  <2>7. counter'.lost = counter.lost + Cardinality(F)
    BY <1>3 DEF F
  <2> QED BY <2>3, <2>4, <2>5, <2>6, <2>7, <1>2, <1>6, <1>8 DEF F
<1>10. (LaterLossesExact /\ LostNeverOvercounts)'
  BY <1>1, <1>2, <1>3, <1>6, <1>8, <1>9 DEF LaterLossesExact, LostNeverOvercounts, Missed
<1>11. JudgedInv'
  BY <1>2, <1>3, <1>4, <1>5 DEF JudgedInv
<1>12. InTimeInv'
  BY <1>1, <1>2, <1>3, <1>4 DEF InTimeInv
<1>13. TypeOK'
  <2>1. Ring(counter, n) \in [0..(w - 1) -> BOOLEAN]
    BY <1>2 DEF Ring
  <2>2. inTime' \subseteq Nat /\ orderly' \in BOOLEAN /\ LastMax(counter, n) \in Nat
    BY <1>2, <1>3, <1>4
  <2>3. counter'.lost \in Nat
    BY <1>2, <1>3, <1>9
  <2>4. inFlight' \subseteq Nat /\ copies' \in Nat /\ received' \in Nat
    <3>1. inFlight \subseteq Nat /\ copies \in Nat /\ received \in Nat
      BY <1>1 DEF TypeOK
    <3>2. inFlight' \subseteq inFlight
      BY DEF HandleRead
    <3>3. (copies' = copies + 1 \/ copies' = copies) /\ received' = received + 1
      BY DEF HandleRead
    <3>4. copies' \in Nat /\ received' \in Nat
      BY <3>1, <3>3
    <3> QED BY <3>1, <3>2, <3>4
  <2>5. counter'.size \in WindowSizes /\ counter'.lastMaxSeqNum \in Nat
        /\ counter'.bitMap \in [0..(counter'.size - 1) -> BOOLEAN]
    BY <2>1, <2>2, <1>1, <1>3 DEF TypeOK
  <2>6. client' \in AppState /\ sent' \in Nat /\ sendEvent' \in BOOLEAN /\ ipv6' \in BOOLEAN
        /\ server' \in AppState /\ resizes' \in Nat
    BY <1>1 DEF TypeOK, HandleRead, clientVars
  <2> QED BY <2>2, <2>3, <2>4, <2>5, <2>6, <1>7 DEF TypeOK
<1>14. BitsInv'
  <2> SUFFICES ASSUME NEW m \in Window'
               PROVE  /\ ~GetBit(counter, m)' => m > judged' /\ m >= 1 /\ m \notin inTime'
                      /\ orderly' /\ GetBit(counter, m)' => m <= 0 \/ m \in inTime'
    BY DEF BitsInv
  <2>1. m \in Int /\ LastMax(counter, n) - w < m /\ m <= LastMax(counter, n)
    BY <1>2, <1>3, <1>4 DEF Window
  <2>2. CASE m = n
    <3>1. GetBit(counter, m)' = TRUE
      BY <2>2, BitsAfter, <1>13, SlotType DEF GetBit, TypeOK
    <3> QED BY <3>1, <2>2, <1>2, <1>3
  <2>3. CASE m > last /\ m # n
    <3>1. ~GetBit(counter, m)'
      BY <2>3, BitsAfter
    <3>2. m > judged' /\ m >= 1 /\ m \notin inTime'
      BY <2>1, <2>3, <1>1, <1>2, <1>3, <1>4, <1>5 DEF InTimeInv
    <3> QED BY <3>1, <3>2
  <2>4. CASE m <= last /\ m # n
    <3>1. m \in Window /\ (GetBit(counter, m) => GetBit(counter, m)')
      BY <2>4, BitsAfter
    <3>2. ASSUME ~GetBit(counter, m)' PROVE m > judged' /\ m >= 1 /\ m \notin inTime'
      <4>1. m > judged /\ m >= 1 /\ m \notin inTime
        BY <3>1, <3>2, <1>1 DEF BitsInv
      <4> QED BY <4>1, <2>1, <2>4, <1>2, <1>3
    <3>3. ASSUME orderly', GetBit(counter, m)' PROVE m <= 0 \/ m \in inTime'
      <4>0. orderly /\ n > judged
        BY <3>3, <1>3
      <4>1. n > last \/ n \in Window
        BY <4>0, <1>2, <1>5 DEF Window
      <4>2. GetBit(counter, m)
        BY <4>1, <2>4, <3>3, BitsAfter
      <4>3. m <= 0 \/ m \in inTime
        BY <4>2, <3>1, <3>3, <1>1, <1>3 DEF BitsInv
      <4> QED BY <4>3, <1>3
    <3> QED BY <3>2, <3>3
  <2> QED BY <2>1, <2>2, <2>3, <2>4, <1>2
<1> QED BY <1>10, <1>11, <1>12, <1>13, <1>14 DEF IInv

-------------------------------------------------------------------------------
(* The window is changed, and the steps that leave the counter alone.      *)

LEMMA ResizeInv ==
  ASSUME IInv, NEW size \in WindowSizes, SetPacketWindowSize(size)
  PROVE  IInv'
<1>1. TypeOK /\ JudgedInv /\ InTimeInv /\ BitsInv /\ LaterLossesExact /\ LostNeverOvercounts
  BY DEF IInv
<1>2. /\ counter.lastMaxSeqNum \in Nat /\ judged \in Int /\ inTime \subseteq Nat
      /\ counter.lost \in Nat /\ counter.size \in Nat \ {0}
  BY <1>1, CounterType
<1>3. size \in Nat \ {0}
  BY FlowAssumption
<1>4. /\ counter'.lost = counter.lost /\ counter'.lastMaxSeqNum = counter.lastMaxSeqNum
      /\ counter'.size = size /\ counter'.bitMap = [k \in 0..(size - 1) |-> TRUE]
      /\ judged' = JudgedBy(counter') /\ orderly' = FALSE /\ inTime' = inTime
  BY DEF SetPacketWindowSize, SetBitMapSize, AllReceived
<1>5. judged' \in Int /\ judged <= judged'
  BY <1>2, <1>3, <1>4 DEF JudgedBy
<1>6. JudgedInv' /\ InTimeInv'
  BY <1>1, <1>2, <1>3, <1>4 DEF JudgedInv, InTimeInv, JudgedBy
<1>7. TypeOK'
  <2>1. counter'.bitMap \in [0..(size - 1) -> BOOLEAN]
    BY <1>4
  <2>2. counter'.lost \in Nat /\ counter'.lastMaxSeqNum \in Nat /\ counter'.size \in WindowSizes
    BY <1>2, <1>4
  <2>3. client' \in AppState /\ sent' \in Nat /\ sendEvent' \in BOOLEAN /\ ipv6' \in BOOLEAN
        /\ inFlight' \subseteq Nat /\ copies' \in Nat /\ server' \in AppState
        /\ received' \in Nat /\ resizes' \in Nat
    BY <1>1 DEF TypeOK, SetPacketWindowSize, clientVars, netVars
  <2>4. inTime' \subseteq Nat /\ orderly' \in BOOLEAN
    BY <1>2, <1>4
  <2>5. counter'.bitMap \in [0..(counter'.size - 1) -> BOOLEAN]
    BY <2>1, <1>4
  <2> QED BY <2>2, <2>3, <2>4, <2>5, <1>5 DEF TypeOK
<1>8. BitsInv'
  <2> SUFFICES ASSUME NEW m \in Window'
               PROVE  GetBit(counter, m)'
    BY <1>4 DEF BitsInv
  <2>1. m \in Int
    BY <1>2, <1>3, <1>4 DEF Window
  <2>2. m % size \in 0..(size - 1)
    BY <2>1, <1>3, SlotType
  <2> QED BY <2>2, <1>4 DEF GetBit
<1>9. Cardinality(Missed) <= Cardinality(Missed') /\ Cardinality(Missed') \in Nat
  <2>1. IsFiniteSet(1..judged')
    BY <1>5, FS_Interval
  <2>2. Missed' \in SUBSET (1..judged')
    BY DEF Missed, MissedFrom
  <2>3. IsFiniteSet(Missed')
    BY <2>1, <2>2, FS_Subset
  <2>4. Missed \in SUBSET Missed'
    BY <1>2, <1>4, <1>5 DEF Missed, MissedFrom
  <2> QED BY <2>3, <2>4, FS_Subset, FS_CardinalityType
<1>10. (LaterLossesExact /\ LostNeverOvercounts)'
  BY <1>1, <1>2, <1>4, <1>9, MissedFinite DEF LaterLossesExact, LostNeverOvercounts, Missed
<1> QED BY <1>6, <1>7, <1>8, <1>10 DEF IInv

LEMMA OthersInv ==
  ASSUME IInv, UNCHANGED <<counter, history>>, TypeOK'
  PROVE  IInv'
<1>1. counter' = counter /\ judged' = judged /\ inTime' = inTime /\ orderly' = orderly
  BY DEF history
<1> QED BY <1>1 DEF IInv, JudgedInv, InTimeInv, BitsInv, Window, GetBit,
                    LaterLossesExact, LostNeverOvercounts, MissedFrom

LEMMA NextInv == IInv /\ [Next]_vars => IInv'
<1> SUFFICES ASSUME IInv, [Next]_vars PROVE IInv'
  OBVIOUS
<1> USE DEF clientVars, netVars, serverVars, history
<1>0. TypeOK
  BY DEF IInv
<1>1. CASE StartClient
  BY <1>0, <1>1, OthersInv DEF StartClient, TypeOK, AppState
<1>2. CASE Send
  <2>1. inFlight' \subseteq Nat /\ sent' \in Nat
    <3>1. inFlight \subseteq Nat /\ sent \in Nat
      BY <1>0 DEF TypeOK
    <3>2. inFlight' \subseteq inFlight \cup {sent}
      BY <1>2 DEF Send
    <3>3. sent' = sent + 1 \/ sent' = sent
      BY <1>2 DEF Send
    <3>4. sent' \in Nat
      BY <3>1, <3>3
    <3> QED BY <3>1, <3>2, <3>4
  <2>2. sendEvent' \in BOOLEAN
    BY <1>2 DEF Send, Another
  <2>3. TypeOK'
    BY <2>1, <2>2, <1>0, <1>2 DEF Send, TypeOK
  <2> QED BY <2>3, <1>2, OthersInv DEF Send
<1>3. CASE StopClient
  BY <1>0, <1>3, OthersInv DEF StopClient, TypeOK, AppState
<1>4. CASE StartServer
  BY <1>0, <1>4, OthersInv DEF StartServer, TypeOK, AppState
<1>5. CASE StopServer
  BY <1>0, <1>5, OthersInv DEF StopServer, TypeOK, AppState
<1>6. ASSUME NEW n \in inFlight, HandleRead(n) PROVE IInv'
  BY <1>0, <1>6, HandleReadInv DEF TypeOK
<1>7. ASSUME NEW n \in inFlight, Drop(n) PROVE IInv'
  BY <1>0, <1>7, OthersInv DEF Drop, TypeOK
<1>8. ASSUME NEW size \in WindowSizes, SetPacketWindowSize(size) PROVE IInv'
  BY <1>8, ResizeInv
<1>9. CASE UNCHANGED vars
  BY <1>0, <1>9, OthersInv DEF vars, TypeOK
<1> QED BY <1>1, <1>2, <1>3, <1>4, <1>5, <1>6, <1>7, <1>8, <1>9 DEF Next

-------------------------------------------------------------------------------
\* The invariant of all behaviours, with or without fairness.
LEMMA Invariance == Spec => []IInv
<1>1. Init => IInv
  BY InitInv
<1>2. IInv /\ [Next]_vars => IInv'
  BY NextInv
<1> QED BY <1>1, <1>2, PTL DEF Spec

\* UdpFlow keeps its types: the ring always has as many bits as the window has
\* numbers, so GetBit and SetBit stay inside it.
THEOREM FlowTypeCorrect == Spec => []TypeOK
<1>1. IInv => TypeOK
  BY DEF IInv
<1> QED BY <1>1, Invariance, PTL

\* Behind the first packet, NotifyReceived counts exactly the packets that left the
\* window and never came, whatever the size of the window, as long as no packet is
\* later than the window.
THEOREM LossesExact == Spec => []LaterLossesExact
<1>1. IInv => LaterLossesExact
  BY DEF IInv
<1> QED BY <1>1, Invariance, PTL

\* With any delay and any change of the window, NotifyReceived and SetBitMapSize
\* never make the counter exceed the number of packets missed.
THEOREM LossesNeverOvercounted == Spec => []LostNeverOvercounts
<1>1. IInv => LostNeverOvercounts
  BY DEF IInv
<1> QED BY <1>1, Invariance, PTL
==============================================================================
