----------------------------- MODULE OnOffProofs -----------------------------
(***************************************************************************)
(* Proofs about OnOff, for every packet size, set of rates, limits and     *)
(* durations, and any number of changes of the rate and of the limit.      *)
(***************************************************************************)
EXTENDS OnOff, TLAPS

\* Nothing is counted while nothing is pending; events are pending only between
\* the start and the stop; no packet is sent before the start.
QuietInv ==
  /\ sendIn = Never => elapsed = 0
  /\ switchIn # Never => app = "running"
  /\ app = "idle" => totBytes = 0

\* With one change of the rate at most, CancelEvents counts the bits at the rate
\* that the packet was scheduled with, or not at all.
PaceInv ==
  /\ rates = 0 /\ app # "idle" => rateFailSafe = rate
  /\ rates <= 1 /\ sendIn # Never /\ rateFailSafe = rate => pace = rate

\* A pending packet has the time that its missing bits take, but for one tick.
TimeInv ==
  rates <= 1 /\ sendIn # Never =>
    /\ (sendIn + elapsed) * pace <= (PktBits - residualBits) * Second
    /\ (PktBits - residualBits) * Second <= (sendIn + elapsed) * pace + pace

\* What is kept and what the pending packet has got so far is earned, and
\* without a change of the rate each interruption loses a bit at most.
EarnedInv ==
  /\ earned <= Word * Second
  /\ rates <= 1 =>
        earned = Word * Second \/ earned >= residualBits * Second + elapsed * pace
  /\ rates = 0 =>
        cuts >= Word \/ earned <= (residualBits + cuts) * Second + elapsed * pace

IInv ==
  /\ TypeOK /\ SilentWhenOff /\ ResidualFits /\ DoneIsQuiet
  /\ QuietInv /\ PaceInv /\ TimeInv /\ EarnedInv

-------------------------------------------------------------------------------
(* Lemmas.                                                                 *)

LEMMA Products ==
  ASSUME NEW a \in Nat, NEW b \in Nat
  PROVE  a * b \in Nat /\ (a + 1) * b = a * b + b /\ 0 * b = 0
BY Z3

LEMMA ZeroAdded == \A n \in Nat : n + 0 = n
OBVIOUS

LEMMA MonotoneProduct ==
  ASSUME NEW a \in Nat, NEW b \in Nat, NEW c \in Nat, a <= b
  PROVE  a * c <= b * c
BY Z3

LEMMA SumProduct ==
  ASSUME NEW a \in Nat, NEW b \in Nat, NEW c \in Nat
  PROVE  (a + b) * c = a * c + b * c
BY Z3

\* A factor that is at least one can be cancelled.
LEMMA SmallerFactor ==
  ASSUME NEW a \in Nat, NEW b \in Nat, NEW c \in Nat, c >= 1, a * c <= b * c
  PROVE  a <= b
<1> SUFFICES ASSUME b + 1 <= a PROVE FALSE
  OBVIOUS
<1>1. (b + 1) * c <= a * c
  BY MonotoneProduct
<1>2. (b + 1) * c = b * c + c /\ b * c \in Nat /\ a * c \in Nat
  BY Products
<1> QED BY <1>1, <1>2

\* The quotient that Truncated is built from.
LEMMA Quotient ==
  ASSUME NEW a \in Nat, NEW b \in Nat, b >= 1
  PROVE  /\ a \div b \in Nat
         /\ (a \div b) * b <= a
         /\ a < (a \div b) * b + b
<1>1. b \in Nat \ {0}
  OBVIOUS
<1>2. a \div b \in Nat /\ a = b * (a \div b) + (a % b) /\ a % b \in 0..(b - 1)
  BY <1>1, Z3
<1> DEFINE q == a \div b
           m == a % b
<1>3. q \in Nat /\ a = b * q + m /\ m \in 0..(b - 1)
  BY <1>2
<1> HIDE DEF q, m
<1>4. q * b = b * q /\ b * q \in Nat
  BY <1>1, <1>3, Z3
<1>5. q \in Nat /\ q * b <= a /\ a < q * b + b
  BY <1>1, <1>3, <1>4
<1> QED BY <1>5 DEF q

\* What Truncated gives is the quotient, or one less if that is exact.
LEMMA TruncatedQuotient ==
  ASSUME NEW n \in Nat, NEW d \in Nat, d >= 1, NEW k \in Truncated(n, d)
  PROVE  k \in Nat /\ k * d <= n /\ n <= k * d + d
<1>1. CASE k = n \div d
  <2>1. /\ n \div d \in Nat /\ (n \div d) * d <= n
        /\ n < (n \div d) * d + d
    BY Quotient
  <2>2. k \in Nat /\ k * d <= n /\ n < k * d + d
    BY <1>1, <2>1
  <2>3. k * d \in Nat
    BY <2>2, Products
  <2> QED BY <2>2, <2>3
<1>2. ASSUME NEW m \in {n - 1} \cap Nat, k = m \div d
      PROVE  k \in Nat /\ k * d <= n /\ n <= k * d + d
  <2>1. m \in Nat /\ n = m + 1
    BY <1>2
  <2>2. /\ m \div d \in Nat /\ (m \div d) * d <= m
        /\ m < (m \div d) * d + d
    BY <2>1, Quotient
  <2>3. k \in Nat /\ k * d <= m /\ m < k * d + d
    BY <1>2, <2>2
  <2>4. k * d \in Nat
    BY <2>3, Products
  <2> QED BY <2>1, <2>3, <2>4
<1> QED BY <1>1, <1>2 DEF Truncated

\* The unsigned arithmetic: a value of the type, and the number itself if it fits.
LEMMA UnsignedFits ==
  ASSUME NEW n \in Int
  PROVE  /\ Unsigned(n) \in 0..(Word - 1)
         /\ 0 <= n /\ n < Word => Unsigned(n) = n
<1>1. Word \in Nat \ {0} /\ PktBits \in Nat
  BY OnOffAssumption DEF PktBits
<1>2. n % Word \in 0..(Word - 1)
  BY <1>1, Z3
<1>3. 0 <= n /\ n < Word => n % Word = n
  BY <1>1, Z3
<1> QED BY <1>2, <1>3 DEF Unsigned

LEMMA Numbers ==
  ASSUME TypeOK
  PROVE  /\ PktBits \in Nat /\ Word \in Nat /\ PktBits < Word
         /\ Second \in Nat /\ Second >= 1
         /\ rate \in Nat /\ rate >= 1 /\ pace \in Nat /\ pace >= 1
         /\ residualBits \in Nat /\ residualBits < Word
         /\ elapsed \in Nat /\ earned \in Nat /\ cuts \in Nat
         /\ rates \in Nat /\ limits \in Nat
         /\ totBytes \in Nat /\ maxBytes \in Nat /\ PktSize \in Nat
         /\ elapsed * pace \in Nat /\ elapsed * rate \in Nat
<1>1. PktBits \in Nat /\ Rates \subseteq Nat \ {0}
  BY OnOffAssumption DEF PktBits
<1>2. rate \in Nat \ {0} /\ pace \in Nat \ {0}
  BY <1>1 DEF TypeOK
<1>3. elapsed \in Nat /\ rate \in Nat /\ pace \in Nat
  BY <1>2 DEF TypeOK
<1>4. elapsed * pace \in Nat /\ elapsed * rate \in Nat
  BY <1>3, Products
<1> QED BY <1>1, <1>2, <1>3, <1>4, OnOffAssumption DEF TypeOK

LEMMA NeverNotNat == Never \notin Nat /\ Never # 0 /\ Never \in Int
BY DEF Never

\* A pending packet has used up no more than its missing bits.
LEMMA UsedFits ==
  ASSUME IInv, rates <= 1, sendIn # Never
  PROVE  elapsed * pace <= (PktBits - residualBits) * Second
<1>1. TypeOK /\ TimeInv /\ ResidualFits
  BY DEF IInv
<1>2. /\ sendIn \in Nat /\ elapsed \in Nat /\ pace \in Nat /\ Second \in Nat
      /\ PktBits - residualBits \in Nat
  BY <1>1, Numbers DEF TypeOK, ResidualFits
<1> DEFINE ticks == sendIn + elapsed
           missing == (PktBits - residualBits) * Second
<1>3. ticks \in Nat /\ elapsed <= ticks
  BY <1>2
<1>4. ticks * pace <= missing
  BY <1>1 DEF TimeInv
<1>5. missing \in Nat
  BY <1>2, Products
<1> HIDE DEF ticks, missing
<1>6. elapsed * pace <= ticks * pace
  BY <1>2, <1>3, MonotoneProduct
<1>7. elapsed * pace \in Nat /\ ticks * pace \in Nat
  BY <1>2, <1>3, Products
<1>8. elapsed * pace <= missing
  BY <1>4, <1>5, <1>6, <1>7
<1> QED BY <1>8 DEF missing

\* What CancelEvents keeps of a pending packet: never more than fits, and with the
\* rate unchanged all but a bit.
LEMMA KeptBits ==
  ASSUME IInv, NEW bits \in Kept
  PROVE  /\ bits \in Nat
         /\ rates <= 1 => bits * Second <= elapsed * pace
         /\ rates <= 1 => residualBits + bits <= PktBits
         /\ rates = 0 /\ sendIn # Never => elapsed * pace <= bits * Second + Second
<1>1. TypeOK /\ ResidualFits /\ SilentWhenOff /\ PaceInv
  BY DEF IInv
<1>2. /\ PktBits \in Nat /\ Second \in Nat /\ Second >= 1
      /\ residualBits \in Nat /\ rates \in Nat
      /\ elapsed * pace \in Nat /\ elapsed * rate \in Nat
  BY <1>1, Numbers
<1>3. CASE sendIn # Never /\ rateFailSafe = rate
  <2>1. bits \in Truncated(elapsed * rate, Second)
    BY <1>3 DEF Kept
  <2>2. bits \in Nat /\ bits * Second <= elapsed * rate /\ elapsed * rate <= bits * Second + Second
    BY <1>2, <2>1, TruncatedQuotient
  <2>3. rates <= 1 => pace = rate
    BY <1>1, <1>3 DEF PaceInv
  <2>4. bits * Second \in Nat
    BY <1>2, <2>2, Products
  <2>5. ASSUME rates <= 1 PROVE residualBits + bits <= PktBits
    <3>1. PktBits - residualBits \in Nat
      BY <1>1, <1>2, <2>5 DEF ResidualFits
    <3> DEFINE missing == PktBits - residualBits
    <3>2. missing \in Nat /\ missing * Second \in Nat
      BY <3>1, <1>2, Products
    <3>3. elapsed * pace <= missing * Second
      BY <2>5, <1>3, UsedFits
    <3>4. missing = PktBits - residualBits
      OBVIOUS
    <3> HIDE DEF missing
    <3>5. bits * Second <= missing * Second
      BY <1>2, <2>2, <2>3, <2>4, <2>5, <3>2, <3>3
    <3>6. bits <= missing
      BY <1>2, <2>2, <3>2, <3>5, SmallerFactor
    <3> QED BY <1>2, <2>2, <3>2, <3>4, <3>6
  <2>6. rates <= 1 => bits * Second <= elapsed * pace
    BY <2>2, <2>3
  <2>7. rates = 0 => elapsed * pace <= bits * Second + Second
    BY <2>2, <2>3, <1>2
  <2> QED BY <2>2, <2>5, <2>6, <2>7
<1>4. CASE ~(sendIn # Never /\ rateFailSafe = rate)
  <2>1. bits = 0
    BY <1>4 DEF Kept
  <2>2. bits \in Nat /\ bits * Second = 0
    BY <2>1, <1>2, Products
  <2>3. rates <= 1 => residualBits + bits <= PktBits
    BY <2>1, <1>1, <1>2 DEF ResidualFits
  <2>4. ~(rates = 0 /\ sendIn # Never)
    BY <1>4, <1>1 DEF SilentWhenOff, PaceInv
  <2> QED BY <1>2, <2>2, <2>3, <2>4
<1> QED BY <1>3, <1>4

\* What CancelEvents leaves behind.
LEMMA Cancelled ==
  ASSUME IInv, CancelEvents
  PROVE  /\ residualBits' \in 0..(Word - 1) /\ cuts' \in Nat
         /\ sendIn' = Never /\ elapsed' = 0 /\ rateFailSafe' = rate
         /\ rates <= 1 => residualBits' <= PktBits
         /\ rates <= 1 => earned = Word * Second \/ earned >= residualBits' * Second
         /\ rates = 0 => cuts' >= Word \/ earned <= (residualBits' + cuts') * Second
<1>1. TypeOK /\ QuietInv /\ EarnedInv
  BY DEF IInv
<1>2. /\ PktBits \in Nat /\ Word \in Nat /\ PktBits < Word /\ Second \in Nat
      /\ residualBits \in Nat /\ earned \in Nat /\ cuts \in Nat /\ rates \in Nat
      /\ elapsed * pace \in Nat /\ pace \in Nat
  BY <1>1, Numbers
<1>3. PICK bits \in Kept : residualBits' = Unsigned(residualBits + bits)
  BY DEF CancelEvents
<1>4. /\ sendIn' = Never /\ elapsed' = 0 /\ rateFailSafe' = rate
      /\ cuts' = IF sendIn # Never /\ cuts < Word THEN cuts + 1 ELSE cuts
  BY DEF CancelEvents
<1>5. /\ bits \in Nat
      /\ rates <= 1 => bits * Second <= elapsed * pace
      /\ rates <= 1 => residualBits + bits <= PktBits
      /\ rates = 0 /\ sendIn # Never => elapsed * pace <= bits * Second + Second
  BY <1>3, KeptBits
<1>6. residualBits + bits \in Int /\ residualBits + bits >= 0
  BY <1>2, <1>5
<1>7. residualBits' \in 0..(Word - 1)
  BY <1>3, <1>6, UnsignedFits
<1>8. rates <= 1 => residualBits' = residualBits + bits
  <2>1. rates <= 1 => residualBits + bits < Word
    BY <1>2, <1>5, <1>6
  <2> QED BY <2>1, <1>3, <1>6, UnsignedFits
<1>9. cuts' \in Nat
  BY <1>2, <1>4
<1>10. /\ (residualBits + bits) * Second = residualBits * Second + bits * Second
       /\ residualBits * Second \in Nat /\ bits * Second \in Nat
  BY <1>2, <1>5, Products, SumProduct
<1>11. ASSUME rates <= 1 PROVE earned = Word * Second \/ earned >= residualBits' * Second
  <2>1. earned = Word * Second \/ earned >= residualBits * Second + elapsed * pace
    BY <1>1, <1>11 DEF EarnedInv
  <2>2. residualBits' * Second = residualBits * Second + bits * Second
    BY <1>8, <1>10, <1>11
  <2>3. bits * Second <= elapsed * pace
    BY <1>5, <1>11
  <2> QED BY <1>2, <1>10, <2>1, <2>2, <2>3
<1>12. ASSUME rates = 0 PROVE cuts' >= Word \/ earned <= (residualBits' + cuts') * Second
  <2>1. CASE cuts >= Word
    BY <2>1, <1>2, <1>4
  <2>2. CASE ~(cuts >= Word)
    <3>1. earned <= (residualBits + cuts) * Second + elapsed * pace
      BY <2>2, <1>1, <1>12 DEF EarnedInv
    <3> DEFINE before == residualBits + cuts
    <3>2. before \in Nat /\ before * Second \in Nat /\ residualBits' + cuts' = before + bits + (cuts' - cuts)
      BY <1>2, <1>5, <1>8, <1>9, <1>12, Products
    <3>3. earned <= before * Second + elapsed * pace
      BY <3>1
    <3> HIDE DEF before
    <3>4. CASE sendIn = Never
      <4>1. cuts' = cuts /\ elapsed = 0
        BY <3>4, <1>1, <1>4 DEF QuietInv
      <4>2. elapsed * pace = 0
        BY <4>1, <1>2, Products
      <4>3. earned <= before * Second
        BY <3>2, <3>3, <4>2
      <4>4. residualBits' + cuts' = before + bits
        BY <3>2, <4>1, <1>2, <1>5
      <4>5. (before + bits) * Second = before * Second + bits * Second
        BY <3>2, <1>2, <1>5, SumProduct
      <4>6. earned <= (before + bits) * Second
        BY <4>3, <4>5, <3>2, <1>2, <1>10
      <4> QED BY <4>4, <4>6
    <3>5. CASE sendIn # Never
      <4>1. cuts' = cuts + 1
        BY <3>5, <2>2, <1>2, <1>4
      <4>2. elapsed * pace <= bits * Second + Second
        BY <3>5, <1>5, <1>12
      <4>3. residualBits' + cuts' = (before + bits) + 1
        BY <3>2, <4>1, <1>2, <1>5
      <4>4. (before + bits) * Second = before * Second + bits * Second
        BY <3>2, <1>2, <1>5, SumProduct
      <4>5. before + bits \in Nat
        BY <3>2, <1>5
      <4>6. ((before + bits) + 1) * Second = (before + bits) * Second + Second
        BY <4>5, <1>2, Products
      <4>7. earned <= before * Second + (bits * Second + Second)
        BY <3>2, <3>3, <4>2, <1>2, <1>10
      <4>8. ((before + bits) + 1) * Second = before * Second + (bits * Second + Second)
        BY <4>4, <4>6, <3>2, <1>2, <1>10
      <4>9. earned <= ((before + bits) + 1) * Second
        BY <4>7, <4>8
      <4> QED BY <4>3, <4>9
    <3> QED BY <3>4, <3>5
  <2> QED BY <2>1, <2>2
<1> QED BY <1>2, <1>4, <1>5, <1>7, <1>8, <1>9, <1>11, <1>12

\* What ScheduleNextTx makes of the bits that are left.
LEMMA Scheduled ==
  ASSUME TypeOK, NEW bits \in 0..(Word - 1), ScheduleSend(bits)
  PROVE  /\ sendIn' \in Nat /\ elapsed' = 0 /\ pace' = rate
         /\ bits <= PktBits =>
              /\ sendIn' * rate <= (PktBits - bits) * Second
              /\ (PktBits - bits) * Second <= sendIn' * rate + rate
<1>1. /\ PktBits \in Nat /\ Word \in Nat /\ PktBits < Word /\ Second \in Nat
      /\ rate \in Nat /\ rate >= 1
  BY Numbers
<1> DEFINE missing == Unsigned(PktBits - bits)
<1>2. missing \in Nat /\ (bits <= PktBits => missing = PktBits - bits)
  <2>1. PktBits - bits \in Int /\ Word \in Nat
    BY <1>1
  <2>2. missing \in 0..(Word - 1)
    BY <2>1, UnsignedFits
  <2>3. bits <= PktBits => missing = PktBits - bits
    BY <2>1, <1>1, UnsignedFits
  <2> QED BY <2>1, <2>2, <2>3
<1>3. sendIn' \in Truncated(missing * Second, rate) /\ elapsed' = 0 /\ pace' = rate
  BY DEF ScheduleSend, NextTime
<1> HIDE DEF missing
<1>4. missing * Second \in Nat
  BY <1>1, <1>2, Products
<1>5. /\ sendIn' \in Nat /\ sendIn' * rate <= missing * Second
      /\ missing * Second <= sendIn' * rate + rate
  BY <1>1, <1>3, <1>4, TruncatedQuotient
<1> QED BY <1>2, <1>3, <1>5

-------------------------------------------------------------------------------
(* The inductive invariant.                                                *)

LEMMA InitInv == Init => IInv
<1> SUFFICES ASSUME Init PROVE IInv
  OBVIOUS
<1>1. TypeOK
  <2>1. Word \in Nat /\ Word >= 1
    BY OnOffAssumption DEF PktBits
  <2>2. 0 \in 0..(Word - 1)
    BY <2>1
  <2> QED BY <2>2 DEF Init, TypeOK
<1>2. /\ PktBits \in Nat /\ Word \in Nat /\ PktBits < Word /\ maxBytes \in Nat
      /\ pace \in Nat /\ Second \in Nat
  BY <1>1, Numbers
<1>3. SilentWhenOff /\ QuietInv /\ PaceInv /\ TimeInv
  BY DEF Init, SilentWhenOff, QuietInv, PaceInv, TimeInv
<1>4. ResidualFits
  BY <1>2 DEF Init, ResidualFits
<1>5. DoneIsQuiet
  BY <1>2 DEF Init, DoneIsQuiet
<1>6. EarnedInv
  <2>1. earned = 0 /\ residualBits = 0 /\ cuts = 0 /\ elapsed = 0
    BY DEF Init
  <2>2. elapsed * pace = 0 /\ residualBits * Second = 0 /\ Word * Second \in Nat
    BY <2>1, <1>2, Products
  <2>3. residualBits + cuts = 0
    BY <2>1
  <2>4. (residualBits + cuts) * Second = 0
    BY <2>3, <1>2, Products
  <2> QED BY <2>1, <2>2, <2>4 DEF EarnedInv
<1> QED BY <1>1, <1>3, <1>4, <1>5, <1>6 DEF IInv

LEMMA SetDataRateInv ==
  ASSUME IInv, NEW r \in Rates, SetDataRate(r)
  PROVE  IInv'
<1>1. TypeOK /\ SilentWhenOff /\ ResidualFits /\ DoneIsQuiet /\ QuietInv /\ PaceInv
        /\ TimeInv /\ EarnedInv
  BY DEF IInv
<1>2. rates' = rates + 1 /\ rate' = r /\ r # rate
  BY DEF SetDataRate
<1>3. UNCHANGED <<app, flowVars, switchVars, maxBytes, limits, history>>
  BY DEF SetDataRate
<1>4. rates \in Nat
  BY <1>1, Numbers
<1>5. TypeOK'
  BY <1>1, <1>2, <1>3 DEF TypeOK, flowVars, switchVars, history
<1>6. SilentWhenOff' /\ QuietInv' /\ DoneIsQuiet'
  BY <1>1, <1>3 DEF SilentWhenOff, QuietInv, DoneIsQuiet, flowVars, switchVars, history
<1>7. ResidualFits'
  BY <1>1, <1>2, <1>3, <1>4 DEF ResidualFits, flowVars
<1>8. PaceInv'
  <2>1. ASSUME rates' <= 1, sendIn' # Never, rateFailSafe' = rate' PROVE FALSE
    <3>1. rates = 0 /\ rateFailSafe = r /\ sendIn # Never
      BY <2>1, <1>2, <1>3, <1>4 DEF flowVars
    <3>2. app # "idle"
      BY <3>1, <1>1 DEF SilentWhenOff
    <3> QED BY <3>1, <3>2, <1>1, <1>2 DEF PaceInv
  <2>2. rates' # 0
    BY <1>2, <1>4
  <2> QED BY <2>1, <2>2 DEF PaceInv
<1>9. TimeInv'
  <2>1. rates' <= 1 => rates <= 1
    BY <1>2, <1>4
  <2>2. UNCHANGED <<sendIn, elapsed, pace, residualBits>>
    BY <1>3 DEF flowVars, history
  <2> QED BY <2>1, <2>2, <1>1 DEF TimeInv, PktBits
<1>10. EarnedInv'
  <2>1. (rates' <= 1 => rates <= 1) /\ rates' # 0
    BY <1>2, <1>4
  <2>2. UNCHANGED <<earned, cuts, elapsed, pace, residualBits>>
    BY <1>3 DEF flowVars, history
  <2> QED BY <2>1, <2>2, <1>1 DEF EarnedInv
<1> QED BY <1>5, <1>6, <1>7, <1>8, <1>9, <1>10 DEF IInv

LEMMA SetMaxBytesInv ==
  ASSUME IInv, NEW limit \in Limits, SetMaxBytes(limit)
  PROVE  IInv'
<1>1. TypeOK /\ SilentWhenOff /\ ResidualFits /\ DoneIsQuiet /\ QuietInv /\ PaceInv
        /\ TimeInv /\ EarnedInv
  BY DEF IInv
<1>2. limits' = limits + 1 /\ maxBytes' = limit
  BY DEF SetMaxBytes
<1>3. UNCHANGED <<app, flowVars, switchVars, rate, rates, history>>
  BY DEF SetMaxBytes
<1>4. limits \in Nat
  BY <1>1, Numbers
<1>5. TypeOK'
  BY <1>1, <1>2, <1>3 DEF TypeOK, flowVars, switchVars, history
<1>6. SilentWhenOff' /\ QuietInv' /\ PaceInv' /\ ResidualFits'
  BY <1>1, <1>3
  DEF SilentWhenOff, QuietInv, PaceInv, ResidualFits, flowVars, switchVars, history
<1>7. DoneIsQuiet'
  <2>1. limits' # 0
    BY <1>2, <1>4
  <2> QED BY <2>1 DEF DoneIsQuiet
<1>8. UNCHANGED <<rates, sendIn, elapsed, pace, residualBits, earned, cuts>>
  BY <1>3 DEF flowVars, history
<1>9. TimeInv' /\ EarnedInv'
  BY <1>1, <1>8 DEF TimeInv, EarnedInv, PktBits
<1> QED BY <1>5, <1>6, <1>7, <1>9 DEF IInv

LEMMA StartApplicationInv == ASSUME IInv, StartApplication PROVE IInv'
<1>1. TypeOK /\ SilentWhenOff /\ ResidualFits /\ DoneIsQuiet /\ QuietInv /\ PaceInv
        /\ TimeInv /\ EarnedInv
  BY DEF IInv
<1>2. /\ app = "idle" /\ app' = "running" /\ rateFailSafe' = rate
      /\ switchTo' = "StartSending" /\ switchIn' \in OffTimes
  BY DEF StartApplication, Schedule
<1>3. UNCHANGED <<totBytes, residualBits, sendIn, elapsed, rate, maxBytes, rates, limits,
                  pace, earned, cuts>>
  BY DEF StartApplication, attributes, history
<1>4. sendIn = Never /\ totBytes = 0
  BY <1>1, <1>2 DEF SilentWhenOff, QuietInv
<1>5. TypeOK'
  BY <1>1, <1>2, <1>3, OnOffAssumption DEF TypeOK
<1>6. SilentWhenOff' /\ QuietInv' /\ PaceInv' /\ ResidualFits'
  BY <1>1, <1>2, <1>3, <1>4 DEF SilentWhenOff, QuietInv, PaceInv, ResidualFits, PktBits
<1>7. DoneIsQuiet'
  BY <1>1, <1>3, <1>4, Numbers DEF DoneIsQuiet
<1>8. TimeInv' /\ EarnedInv'
  BY <1>1, <1>3, <1>4 DEF TimeInv, EarnedInv, PktBits
<1> QED BY <1>5, <1>6, <1>7, <1>8 DEF IInv

\* After CancelEvents nothing is pending, unless the start of a period is.
LEMMA CancelInv ==
  ASSUME IInv, CancelEvents, UNCHANGED <<totBytes, attributes, pace, earned>>,
         TypeOK', app' = app \/ switchIn' = Never, app' # "idle", app # "idle",
         switchIn' # Never => app' = "running" /\ (DoneIsQuiet => DoneIsQuiet')
  PROVE  IInv'
<1>1. TypeOK /\ SilentWhenOff /\ ResidualFits /\ DoneIsQuiet /\ QuietInv /\ PaceInv
        /\ TimeInv /\ EarnedInv
  BY DEF IInv
<1>2. UNCHANGED <<totBytes, rate, maxBytes, rates, limits, pace, earned>>
  BY DEF attributes
<1>3. /\ residualBits' \in 0..(Word - 1) /\ cuts' \in Nat
      /\ sendIn' = Never /\ elapsed' = 0 /\ rateFailSafe' = rate
      /\ rates <= 1 => residualBits' <= PktBits
      /\ rates <= 1 => earned = Word * Second \/ earned >= residualBits' * Second
      /\ rates = 0 => cuts' >= Word \/ earned <= (residualBits' + cuts') * Second
  BY Cancelled
<1>4. SilentWhenOff' /\ QuietInv' /\ PaceInv' /\ TimeInv'
  BY <1>2, <1>3 DEF SilentWhenOff, QuietInv, PaceInv, TimeInv
<1>5. ResidualFits'
  BY <1>2, <1>3 DEF ResidualFits, PktBits
<1>6. EarnedInv'
  <2>1. elapsed' * pace' = 0
    BY <1>1, <1>2, <1>3, Numbers, Products
  <2>2. residualBits' \in Nat /\ Second \in Nat
    BY <1>3, <1>1, Numbers
  <2>3. residualBits' * Second + elapsed' * pace' = residualBits' * Second
    BY <2>1, <2>2, Products, ZeroAdded
  <2>4. (residualBits' + cuts') * Second + elapsed' * pace' = (residualBits' + cuts') * Second
    BY <2>1, <2>2, <1>3, Products, ZeroAdded
  <2>5. earned' <= Word * Second
    BY <1>1, <1>2 DEF EarnedInv
  <2> QED BY <2>3, <2>4, <2>5, <1>2, <1>3 DEF EarnedInv
<1>7. DoneIsQuiet'
  <2>1. CASE switchIn' = Never
    BY <2>1, <1>1, <1>2, <1>3 DEF DoneIsQuiet
  <2>2. CASE switchIn' # Never
    BY <2>2, <1>1
  <2> QED BY <2>1, <2>2
<1> QED BY <1>4, <1>5, <1>6, <1>7 DEF IInv

LEMMA StopApplicationInv == ASSUME IInv, StopApplication PROVE IInv'
<1>1. TypeOK /\ CancelEvents /\ app = "running" /\ app' = "stopped" /\ switchIn' = Never
        /\ UNCHANGED <<totBytes, switchTo, attributes, pace, earned>>
  BY DEF IInv, StopApplication
<1>2. /\ residualBits' \in 0..(Word - 1) /\ cuts' \in Nat
      /\ sendIn' = Never /\ elapsed' = 0 /\ rateFailSafe' = rate
  BY <1>1, Cancelled
<1>3. TypeOK'
  BY <1>1, <1>2 DEF TypeOK, attributes
<1> QED BY <1>1, <1>3, CancelInv

LEMMA StopSendingInv == ASSUME IInv, StopSending PROVE IInv'
<1>1. /\ TypeOK /\ QuietInv /\ DoneIsQuiet /\ CancelEvents /\ switchIn = 0
      /\ switchTo' = "StartSending" /\ switchIn' \in OffTimes
      /\ UNCHANGED <<app, totBytes, attributes, pace, earned>>
  BY DEF IInv, StopSending, Schedule
<1>2. /\ residualBits' \in 0..(Word - 1) /\ cuts' \in Nat
      /\ sendIn' = Never /\ elapsed' = 0 /\ rateFailSafe' = rate
  BY <1>1, Cancelled
<1>3. TypeOK'
  BY <1>1, <1>2, OnOffAssumption DEF TypeOK, attributes
<1>4. app = "running"
  BY <1>1, NeverNotNat DEF QuietInv
<1>5. DoneIsQuiet'
  BY <1>1, NeverNotNat DEF DoneIsQuiet, attributes
<1> QED BY <1>1, <1>3, <1>4, <1>5, CancelInv

LEMMA StartSendingInv == ASSUME IInv, StartSending PROVE IInv'
<1>1. TypeOK /\ SilentWhenOff /\ ResidualFits /\ DoneIsQuiet /\ QuietInv /\ PaceInv
        /\ TimeInv /\ EarnedInv
  BY DEF IInv
<1>2. /\ switchIn = 0 /\ switchTo = "StartSending"
      /\ switchTo' = "StopSending" /\ switchIn' \in OnTimes
      /\ UNCHANGED <<app, totBytes, attributes, earned>>
  BY DEF StartSending, Schedule
<1>3. /\ app = "running" /\ sendIn = Never /\ elapsed = 0
  BY <1>1, <1>2, NeverNotNat DEF QuietInv, SilentWhenOff
<1>4. DoneIsQuiet'
  BY <1>1, <1>2, NeverNotNat DEF DoneIsQuiet, attributes
<1>5. switchIn' \in Nat /\ switchIn' # Never
  BY <1>2, OnOffAssumption, NeverNotNat
<1>6. CASE MayGoOn(totBytes)
  <2>1. ScheduleSend(residualBits) /\ UNCHANGED <<residualBits, rateFailSafe, cuts>>
    BY <1>6 DEF StartSending
  <2>2. residualBits \in 0..(Word - 1)
    BY <1>1 DEF TypeOK
  <2>3. /\ sendIn' \in Nat /\ elapsed' = 0 /\ pace' = rate
        /\ residualBits <= PktBits =>
              /\ sendIn' * rate <= (PktBits - residualBits) * Second
              /\ (PktBits - residualBits) * Second <= sendIn' * rate + rate
    BY <1>1, <2>1, <2>2, Scheduled
  <2>4. UNCHANGED <<residualBits, rateFailSafe, app, totBytes, rate, maxBytes, rates, limits,
                    earned, cuts>>
    BY <1>2, <2>1 DEF attributes
  <2>5. TypeOK'
    BY <1>1, <1>2, <1>5, <2>3, <2>4 DEF TypeOK
  <2>6. SilentWhenOff' /\ QuietInv' /\ PaceInv' /\ ResidualFits'
    BY <1>1, <1>2, <1>3, <1>5, <2>3, <2>4, NeverNotNat
    DEF SilentWhenOff, QuietInv, PaceInv, ResidualFits, PktBits
  <2>7. TimeInv'
    <3>1. sendIn' + elapsed' = sendIn'
      <4>1. sendIn' \in Nat /\ elapsed' = 0
        BY <2>3
      <4> QED BY <4>1, ZeroAdded
    <3>2. rates <= 1 => residualBits <= PktBits
      BY <1>1 DEF ResidualFits
    <3> QED BY <3>1, <3>2, <2>3, <2>4 DEF TimeInv, PktBits
  <2>8. EarnedInv'
    <3>1. pace \in Nat /\ rate \in Nat
      BY <1>1, Numbers
    <3>2. elapsed * pace = 0 /\ elapsed' * pace' = 0
      BY <3>1, <1>3, <2>3, Products
    <3>3. /\ rates' = rates /\ earned' = earned /\ cuts' = cuts
          /\ residualBits' = residualBits /\ elapsed' * pace' = elapsed * pace
      BY <3>2, <2>4
    <3> QED BY <3>3, <1>1 DEF EarnedInv
  <2> QED BY <1>4, <2>5, <2>6, <2>7, <2>8 DEF IInv
<1>7. CASE ~MayGoOn(totBytes)
  <2>1. CancelEvents /\ UNCHANGED pace
    BY <1>7 DEF StartSending
  <2>2. /\ residualBits' \in 0..(Word - 1) /\ cuts' \in Nat
        /\ sendIn' = Never /\ elapsed' = 0 /\ rateFailSafe' = rate
    BY <2>1, Cancelled
  <2>3. TypeOK'
    BY <1>1, <1>2, <1>5, <2>1, <2>2 DEF TypeOK, attributes
  <2>4. UNCHANGED <<totBytes, attributes, pace, earned>>
    BY <1>2, <2>1
  <2> QED BY <1>2, <1>3, <1>4, <2>1, <2>3, <2>4, CancelInv
<1> QED BY <1>6, <1>7

LEMMA SendPacketInv == ASSUME IInv, SendPacket PROVE IInv'
<1>1. TypeOK /\ SilentWhenOff /\ ResidualFits /\ DoneIsQuiet /\ QuietInv /\ PaceInv
        /\ TimeInv /\ EarnedInv
  BY DEF IInv
<1>2. /\ sendIn = 0
      /\ totBytes' = totBytes + PktSize /\ residualBits' = 0 /\ earned' = 0 /\ cuts' = 0
      /\ UNCHANGED <<app, switchTo, rate, maxBytes, rates, limits>>
  BY DEF SendPacket, Left, attributes
<1>3. /\ app = "running" /\ switchTo = "StopSending" /\ switchIn # Never
  BY <1>1, <1>2, NeverNotNat DEF SilentWhenOff
<1>4. /\ PktBits \in Nat /\ Word \in Nat /\ PktBits < Word /\ PktSize \in Nat
      /\ totBytes \in Nat /\ maxBytes \in Nat /\ rate \in Nat /\ pace \in Nat
      /\ Second \in Nat
  BY <1>1, Numbers
<1>5. totBytes' \in Nat /\ 0 \in 0..(Word - 1)
  BY <1>2, <1>4
<1>6. ResidualFits'
  BY <1>2, <1>4 DEF ResidualFits, PktBits
<1>7. ASSUME elapsed' = 0, pace' \in Nat PROVE EarnedInv'
  <2>1. elapsed' * pace' = 0 /\ residualBits' * Second = 0 /\ Word * Second \in Nat
    BY <1>2, <1>4, <1>7, Products
  <2>2. residualBits' + cuts' = 0
    BY <1>2
  <2>3. (residualBits' + cuts') * Second = 0
    BY <2>2, <1>4, Products
  <2> QED BY <2>1, <2>3, <1>2 DEF EarnedInv
<1>8. limits = 0 /\ maxBytes > 0 => totBytes < maxBytes
  BY <1>1, <1>2, <1>4, NeverNotNat DEF DoneIsQuiet
<1>9. CASE MayGoOn(totBytes')
  <2>1. ScheduleSend(0) /\ UNCHANGED <<rateFailSafe, switchIn>>
    BY <1>9 DEF SendPacket, Left
  <2>2. /\ sendIn' \in Nat /\ elapsed' = 0 /\ pace' = rate
        /\ 0 <= PktBits =>
              /\ sendIn' * rate <= (PktBits - 0) * Second
              /\ (PktBits - 0) * Second <= sendIn' * rate + rate
    BY <1>1, <1>5, <2>1, Scheduled
  <2>3. sendIn' \in Nat /\ elapsed' = 0
    BY <2>2
  <2>4. TypeOK'
    BY <1>1, <1>2, <1>5, <2>1, <2>2 DEF TypeOK
  <2>5. SilentWhenOff' /\ QuietInv' /\ PaceInv'
    BY <1>1, <1>2, <1>3, <2>1, <2>2, NeverNotNat DEF SilentWhenOff, QuietInv, PaceInv
  <2>6. TimeInv'
    <3>1. sendIn' + elapsed' = sendIn'
      BY <2>3, ZeroAdded
    <3>2. PktBits' - residualBits' = PktBits - 0
      BY <1>2, <1>4 DEF PktBits
    <3>3. /\ sendIn' * rate <= (PktBits - 0) * Second
          /\ (PktBits - 0) * Second <= sendIn' * rate + rate
      <4>1. 0 <= PktBits
        BY <1>4
      <4> QED BY <4>1, <2>2, Zenon
    <3> QED BY <3>1, <3>2, <3>3, <2>2 DEF TimeInv
  <2>7. EarnedInv'
    BY <1>4, <1>7, <2>2
  <2>8. DoneIsQuiet'
    BY <1>2, <1>4, <1>5, <1>9 DEF DoneIsQuiet, MayGoOn
  <2> QED BY <1>6, <2>4, <2>5, <2>6, <2>7, <2>8 DEF IInv
<1>10. CASE ~MayGoOn(totBytes')
  <2>1. /\ rateFailSafe' = rate /\ sendIn' = Never /\ elapsed' = 0 /\ switchIn' = Never
        /\ pace' = pace
    BY <1>10 DEF SendPacket
  <2>2. TypeOK'
    BY <1>1, <1>2, <1>5, <2>1 DEF TypeOK
  <2>3. SilentWhenOff' /\ QuietInv' /\ PaceInv' /\ TimeInv'
    BY <1>1, <1>2, <1>3, <2>1 DEF SilentWhenOff, QuietInv, PaceInv, TimeInv
  <2>4. EarnedInv'
    BY <1>4, <1>7, <2>1
  <2>5. DoneIsQuiet'
    <3>1. limits = 0 /\ maxBytes > 0 => totBytes' < maxBytes + PktSize
      BY <1>2, <1>4, <1>8
    <3> QED BY <3>1, <1>2, <2>1 DEF DoneIsQuiet
  <2> QED BY <1>6, <2>2, <2>3, <2>4, <2>5 DEF IInv
<1> QED BY <1>9, <1>10

LEMMA TickInv == ASSUME IInv, Tick PROVE IInv'
<1>1. TypeOK /\ SilentWhenOff /\ ResidualFits /\ DoneIsQuiet /\ QuietInv /\ PaceInv
        /\ TimeInv /\ EarnedInv
  BY DEF IInv
<1>2. /\ sendIn # 0 /\ switchIn # 0 /\ (sendIn # Never \/ switchIn # Never)
      /\ switchIn' = IF switchIn = Never THEN Never ELSE switchIn - 1
      /\ UNCHANGED <<app, rateFailSafe, totBytes, residualBits, switchTo, rate, maxBytes,
                     rates, limits, pace, cuts>>
  BY DEF Tick, attributes
<1>3. /\ PktBits \in Nat /\ Word \in Nat /\ PktBits < Word
      /\ residualBits \in Nat /\ elapsed \in Nat /\ pace \in Nat /\ earned \in Nat
      /\ rates \in Nat /\ cuts \in Nat /\ Second \in Nat
  BY <1>1, Numbers
<1>4. switchIn' \in Nat \cup {Never} /\ (switchIn' # Never <=> switchIn # Never)
  <2>1. switchIn \in Nat \cup {Never}
    BY <1>1 DEF TypeOK
  <2>2. CASE switchIn = Never
    BY <2>2, <1>2
  <2>3. CASE switchIn # Never
    <3>1. switchIn \in Nat /\ switchIn # 0 /\ switchIn' = switchIn - 1
      BY <2>1, <2>3, <1>2
    <3>2. switchIn' \in Nat
      BY <3>1
    <3> QED BY <2>3, <3>2, NeverNotNat
  <2> QED BY <2>2, <2>3
<1>5. ResidualFits' /\ PaceInv'
  <2>1. sendIn' # Never => sendIn # Never
    BY DEF Tick
  <2> QED BY <2>1, <1>1, <1>2 DEF ResidualFits, PaceInv, PktBits
<1>6. DoneIsQuiet'
  <2>1. ~(limits = 0 /\ maxBytes > 0 /\ totBytes >= maxBytes)
    BY <1>1, <1>2 DEF DoneIsQuiet
  <2> QED BY <2>1, <1>2 DEF DoneIsQuiet
<1>7. CASE sendIn = Never
  <2>1. UNCHANGED <<sendIn, elapsed, earned>>
    BY <1>7 DEF Tick
  <2>2. TypeOK'
    BY <1>1, <1>2, <1>4, <2>1 DEF TypeOK
  <2>3. SilentWhenOff' /\ QuietInv' /\ TimeInv'
    BY <1>1, <1>2, <1>4, <1>7, <2>1 DEF SilentWhenOff, QuietInv, TimeInv
  <2>4. EarnedInv'
    BY <1>1, <1>2, <2>1 DEF EarnedInv
  <2> QED BY <1>5, <1>6, <2>2, <2>3, <2>4 DEF IInv
<1>8. CASE sendIn # Never
  <2>1. /\ sendIn' = sendIn - 1 /\ elapsed' = elapsed + 1
        /\ earned' = IF earned + pace < Word * Second THEN earned + pace ELSE Word * Second
    BY <1>8 DEF Tick
  <2>2. sendIn \in Nat /\ sendIn # 0
    BY <1>1, <1>2, <1>8 DEF TypeOK
  <2>3. /\ sendIn' \in Nat /\ elapsed' \in Nat /\ earned' \in Nat
        /\ sendIn' + elapsed' = sendIn + elapsed
        /\ earned' <= earned + pace /\ earned' <= Word * Second
        /\ earned' = earned + pace \/ earned' = Word * Second
    <3>1. Word * Second \in Nat
      BY <1>3, Products
    <3> QED BY <3>1, <2>1, <2>2, <1>3
  <2>4. TypeOK'
    BY <1>1, <1>2, <1>4, <2>3 DEF TypeOK
  <2>5. SilentWhenOff' /\ QuietInv'
    BY <1>1, <1>2, <1>4, <1>8, <2>3, NeverNotNat DEF SilentWhenOff, QuietInv
  <2>6. TimeInv'
    BY <1>1, <1>2, <1>8, <2>3 DEF TimeInv, PktBits
  <2>7. elapsed' * pace' = elapsed * pace + pace /\ elapsed * pace \in Nat
    BY <1>2, <1>3, <2>1, Products
  <2>8. ASSUME rates <= 1
        PROVE  earned' = Word * Second \/ earned' >= residualBits' * Second + elapsed' * pace'
    <3>1. earned = Word * Second \/ earned >= residualBits * Second + elapsed * pace
      BY <1>1, <2>8 DEF EarnedInv
    <3>2. residualBits * Second \in Nat /\ Word * Second \in Nat
      BY <1>3, Products
    <3>3. CASE earned = Word * Second
      <4>1. earned + pace >= Word * Second
        BY <3>2, <3>3, <1>3
      <4>2. earned' = Word * Second
        BY <4>1, <3>2, <2>1, <1>3
      <4> QED BY <4>2
    <3>4. CASE earned >= residualBits * Second + elapsed * pace
      <4>1. residualBits' * Second = residualBits * Second
        BY <1>2
      <4> QED BY <4>1, <3>2, <3>4, <2>3, <2>7, <1>3
    <3> QED BY <3>1, <3>3, <3>4
  <2>9. ASSUME rates = 0
        PROVE  cuts' >= Word \/ earned' <= (residualBits' + cuts') * Second + elapsed' * pace'
    <3>1. cuts >= Word \/ earned <= (residualBits + cuts) * Second + elapsed * pace
      BY <1>1, <2>9 DEF EarnedInv
    <3>2. (residualBits + cuts) * Second \in Nat
      BY <1>3, Products
    <3>3. residualBits' + cuts' = residualBits + cuts /\ cuts' = cuts
      BY <1>2
    <3>4. earned <= (residualBits + cuts) * Second + elapsed * pace =>
            earned' <= (residualBits + cuts) * Second + elapsed' * pace'
      BY <3>2, <2>3, <2>7, <1>3
    <3> QED BY <3>1, <3>3, <3>4
  <2>10. EarnedInv'
    BY <2>3, <2>8, <2>9, <1>2 DEF EarnedInv
  <2> QED BY <1>5, <1>6, <2>4, <2>5, <2>6, <2>10 DEF IInv
<1> QED BY <1>7, <1>8

LEMMA NextInv == IInv /\ [Next]_vars => IInv'
<1> SUFFICES ASSUME IInv, [Next]_vars PROVE IInv'
  OBVIOUS
<1>1. ASSUME NEW r \in Rates, SetDataRate(r) PROVE IInv'
  BY <1>1, SetDataRateInv
<1>2. ASSUME NEW limit \in Limits, SetMaxBytes(limit) PROVE IInv'
  BY <1>2, SetMaxBytesInv
<1>3. CASE UNCHANGED vars
  BY <1>3
  DEF vars, flowVars, switchVars, attributes, history, IInv, TypeOK, SilentWhenOff,
      ResidualFits, DoneIsQuiet, QuietInv, PaceInv, TimeInv, EarnedInv, PktBits
<1> QED
  BY <1>1, <1>2, <1>3, StartApplicationInv, StopApplicationInv, StartSendingInv,
     StopSendingInv, SendPacketInv, TickInv
  DEF Next

LEMMA Invariance == Spec => []IInv
BY InitInv, NextInv, PTL DEF Spec

-------------------------------------------------------------------------------
(* Theorems.                                                               *)

\* All values keep their types, whatever changes of the rate do to the residual
\* bits.
THEOREM OnOffTypeCorrect == Spec => []TypeOK
<1>1. IInv => TypeOK
  BY DEF IInv
<1> QED BY <1>1, Invariance, PTL

\* No packet is ever pending in an Off period.
THEOREM OffIsSilent == Spec => []SilentWhenOff
<1>1. IInv => SilentWhenOff
  BY DEF IInv
<1> QED BY <1>1, Invariance, PTL

\* With one change of the rate at most the residual bits never exceed a packet
\* (CancelEvents), so that the subtraction in ScheduleNextTx does not wrap.
THEOREM ResidualAlwaysFits == Spec => []ResidualFits
<1>1. IInv => ResidualFits
  BY DEF IInv
<1> QED BY <1>1, Invariance, PTL

\* Once MaxBytes are out everything is cancelled and stays so, less than a packet
\* beyond the limit (ScheduleNextTx, SendPacket).
THEOREM DoneStaysQuiet == Spec => []DoneIsQuiet
<1>1. IInv => DoneIsQuiet
  BY DEF IInv
<1> QED BY <1>1, Invariance, PTL

\* Every packet is sent when the On time since the last one makes up its bits: a tick
\* too soon at most, and without a change of the rate at most as many bits too late
\* as it was interrupted (CancelEvents, ScheduleNextTx).
THEOREM EachPacketEarned == Spec => PacketsAreEarned
<1> DEFINE A == totBytes' # totBytes =>
                  /\ rates <= 1 => earned + pace >= PktBits * Second
                  /\ rates = 0 => earned <= (PktBits + cuts) * Second
<1>1. IInv /\ [Next]_vars => A
  <2> SUFFICES ASSUME IInv, [Next]_vars, totBytes' # totBytes
               PROVE  /\ rates <= 1 => earned + pace >= PktBits * Second
                      /\ rates = 0 => earned <= (PktBits + cuts) * Second
    OBVIOUS
  <2>1. sendIn = 0
    BY DEF Next, vars, SetDataRate, SetMaxBytes, StartApplication, StopApplication,
           StartSending, StopSending, SendPacket, Tick, flowVars
  <2>2. TypeOK /\ TimeInv /\ EarnedInv /\ ResidualFits
    BY DEF IInv
  <2>3. /\ PktBits \in Nat /\ Word \in Nat /\ PktBits < Word /\ Second \in Nat
        /\ residualBits \in Nat /\ elapsed \in Nat /\ pace \in Nat /\ cuts \in Nat
        /\ earned \in Nat /\ rates \in Nat /\ elapsed * pace \in Nat
    BY <2>2, Numbers
  <2>4. sendIn # Never /\ sendIn + elapsed = elapsed
    BY <2>1, <2>3, NeverNotNat
  <2> DEFINE missing == PktBits - residualBits
  <2>5. rates <= 1 => /\ elapsed * pace <= missing * Second
                      /\ missing * Second <= elapsed * pace + pace
    BY <2>2, <2>4 DEF TimeInv
  <2>6. rates <= 1 => missing \in Nat /\ PktBits = residualBits + missing
    BY <2>2, <2>3 DEF ResidualFits
  <2> HIDE DEF missing
  <2>7. rates <= 1 => /\ PktBits * Second = residualBits * Second + missing * Second
                      /\ missing * Second \in Nat
    BY <2>3, <2>6, SumProduct, Products
  <2>8. /\ residualBits * Second \in Nat /\ PktBits * Second \in Nat /\ cuts * Second \in Nat
        /\ Word * Second \in Nat
        /\ (residualBits + cuts) * Second = residualBits * Second + cuts * Second
        /\ (PktBits + cuts) * Second = PktBits * Second + cuts * Second
    BY <2>3, Products, SumProduct
  <2>9. ASSUME rates <= 1 PROVE earned + pace >= PktBits * Second
    <3>1. CASE earned = Word * Second
      <4>1. PktBits * Second <= Word * Second
        BY <2>3, MonotoneProduct
      <4> QED BY <3>1, <4>1, <2>3, <2>8
    <3>2. CASE earned >= residualBits * Second + elapsed * pace
      BY <3>2, <2>3, <2>5, <2>7, <2>8, <2>9
    <3> QED BY <3>1, <3>2, <2>2, <2>9 DEF EarnedInv
  <2>10. ASSUME rates = 0 PROVE earned <= (PktBits + cuts) * Second
    <3>1. rates <= 1
      BY <2>10
    <3>2. CASE cuts >= Word
      <4>1. PktBits + cuts \in Nat /\ Word <= PktBits + cuts
        BY <3>2, <2>3
      <4>2. Word * Second <= (PktBits + cuts) * Second
        BY <4>1, <2>3, MonotoneProduct
      <4>3. earned <= Word * Second /\ (PktBits + cuts) * Second \in Nat
        BY <2>2, <2>3, <4>1, Products DEF EarnedInv
      <4> QED BY <4>2, <4>3, <2>3, <2>8
    <3>3. CASE earned <= (residualBits + cuts) * Second + elapsed * pace
      <4>1. elapsed * pace <= missing * Second /\ missing * Second \in Nat
              /\ PktBits * Second = residualBits * Second + missing * Second
        BY <3>1, <2>5, <2>7
      <4> QED BY <3>3, <4>1, <2>3, <2>8
    <3> QED BY <3>2, <3>3, <2>2, <2>10 DEF EarnedInv
  <2> QED BY <2>9, <2>10
<1>2. IInv /\ [Next]_vars => [A]_vars
  BY <1>1
<1> QED BY <1>2, Invariance, PTL DEF Spec, PacketsAreEarned
===============================================================================
