-------------------------------- MODULE OnOff --------------------------------
(***************************************************************************)
(* OnOffApplication sends packets at a constant bit rate while it is "On"  *)
(* and nothing while it is "Off" (onoff-application.cc).  A period that    *)
(* ends between two packets leaves residual bits, so that the first packet *)
(* of the next period needs only the rest of its time.  Times are whole     *)
(* ticks and bits are whole as well: what a quotient leaves over is lost.   *)
(*                                                                         *)
(* Each handler is one event of the simulator; Tick is the time that       *)
(* passes between events.  Two events due at the same time come in any     *)
(* order: which one was scheduled first depends on how the packets fall    *)
(* into the period.                                                        *)
(***************************************************************************)
EXTENDS Integers

CONSTANTS
  PktSize,      \* m_pktSize, in bytes
  Rates,        \* the values that DataRate is given, in bits per second
  Second,       \* the ticks of a second
  Limits,       \* the values that MaxBytes is given; 0 means no limit
  OnTimes,      \* what m_onTime may draw, in ticks
  OffTimes,     \* what m_offTime may draw, in ticks
  Word,         \* the number of values of a uint32_t
  MaxTotal,     \* bound: an unlimited flow is followed up to here
  MaxRates,     \* bound: changes of DataRate
  MaxLimits     \* bound: calls of SetMaxBytes after the start

PktBits == 8 * PktSize

\* The bits of a packet can be counted.
ASSUME OnOffAssumption ==
  /\ PktSize \in Nat \ {0}
  /\ Rates \subseteq Nat \ {0}
  /\ Second \in Nat \ {0}
  /\ Limits \subseteq Nat
  /\ OnTimes \subseteq Nat \ {0}
  /\ OffTimes \subseteq Nat
  /\ Word \in Nat
  /\ PktBits < Word
  /\ MaxTotal \in Nat
  /\ MaxRates \in Nat
  /\ MaxLimits \in Nat

VARIABLES
  app,           \* "idle", "running" or "stopped"
  rate,          \* m_cbrRate
  rateFailSafe,  \* m_cbrRateFailSafe; no constructor sets it
  maxBytes,      \* m_maxBytes
  totBytes,      \* m_totBytes
  residualBits,  \* m_residualBits
  sendIn,        \* m_sendEvent: ticks until SendPacket, or Never
  elapsed,       \* ticks since m_lastStartTime, while m_sendEvent is pending
  switchTo,      \* m_startStopEvent: "StartSending" or "StopSending" ...
  switchIn,      \* ... in so many ticks, or Never
  pace,          \* history: the rate that m_sendEvent was scheduled with
  earned,        \* history: On time since the last packet, in bits times Second
  cuts,          \* history: how often the pending packet has been interrupted
  rates,         \* how often DataRate has been changed
  limits         \* how often MaxBytes has been changed

flowVars   == <<rateFailSafe, totBytes, residualBits, sendIn, elapsed>>
switchVars == <<switchTo, switchIn>>
attributes == <<rate, maxBytes, rates, limits>>
history    == <<pace, earned, cuts>>
vars == <<app, flowVars, switchVars, attributes, history>>

Never == -1

Init ==
  /\ app = "idle"
  /\ rate \in Rates
  /\ rateFailSafe \in Rates
  /\ maxBytes \in Limits
  /\ totBytes = 0
  /\ residualBits = 0
  /\ sendIn = Never
  /\ elapsed = 0
  /\ switchTo = "StartSending"
  /\ switchIn = Never
  /\ pace = rate
  /\ earned = 0
  /\ cuts = 0
  /\ rates = 0
  /\ limits = 0

-------------------------------------------------------------------------------
(* Attributes, which may be set at any time.                               *)

SetDataRate(r) ==
  /\ rates < MaxRates
  /\ r # rate
  /\ rate' = r
  /\ rates' = rates + 1
  /\ UNCHANGED <<app, flowVars, switchVars, maxBytes, limits, history>>

SetMaxBytes(limit) ==
  /\ limits < MaxLimits
  /\ limit # maxBytes
  /\ maxBytes' = limit
  /\ limits' = limits + 1
  /\ UNCHANGED <<app, flowVars, switchVars, rate, rates, history>>

-------------------------------------------------------------------------------
(* The private helpers.                                                    *)

UnsignedBug(n) == n
Unsigned(n) == n % Word

\* What a fixed or floating point quotient gives as a whole number: the fraction is
\* cut off, and a quotient without one may come out just below its value.
Truncated(n, d) == {n \div d} \cup {m \div d : m \in {n - 1} \cap Nat}

\* The bits that CancelEvents may keep of the packet it interrupts; none if the
\* rate has been changed since the last time it looked.
KeptBug == Truncated(elapsed * rate, Second)
KeptNoneBug == {0}
Kept ==
  IF sendIn # Never /\ rateFailSafe = rate THEN Truncated(elapsed * rate, Second) ELSE {0}

\* The history counts the packets that it interrupts, up to Word.
CancelEvents ==
  /\ \E bits \in Kept : residualBits' = Unsigned(residualBits + bits)
  /\ rateFailSafe' = rate
  /\ sendIn' = Never
  /\ elapsed' = 0
  /\ cuts' = IF sendIn # Never /\ cuts < Word THEN cuts + 1 ELSE cuts

MayGoOnBug(tot) == maxBytes = 0 \/ tot <= maxBytes
MayGoOn(tot) == maxBytes = 0 \/ tot < maxBytes

\* The times that may be left until a packet of which some bits are there already.
NextTime(bits) == Truncated(Unsigned(PktBits - bits) * Second, rate)

\* ScheduleNextTx for the case that the limit is not reached.
ScheduleSend(bits) ==
  /\ sendIn' \in NextTime(bits)
  /\ elapsed' = 0
  /\ pace' = rate

Schedule(event, times) ==
  /\ switchTo' = event
  /\ switchIn' \in times

-------------------------------------------------------------------------------
(* The handlers.                                                           *)

\* The application starts with an Off period.
StartApplication ==
  /\ app = "idle"
  /\ app' = "running"
  /\ rateFailSafe' = rate
  /\ Schedule("StartSending", OffTimes)
  /\ UNCHANGED <<totBytes, residualBits, sendIn, elapsed, attributes, history>>

StopApplication ==
  /\ app = "running"
  /\ app' = "stopped"
  /\ CancelEvents
  /\ switchIn' = Never
  /\ UNCHANGED <<totBytes, switchTo, attributes, pace, earned>>

\* With the limit reached ScheduleNextTx cancels everything, but the StopSending
\* event is scheduled after it all the same.
StartSending ==
  /\ switchTo = "StartSending" /\ switchIn = 0
  /\ IF MayGoOn(totBytes)
     THEN ScheduleSend(residualBits) /\ UNCHANGED <<residualBits, rateFailSafe, cuts>>
     ELSE CancelEvents /\ UNCHANGED pace
  /\ Schedule("StopSending", OnTimes)
  /\ UNCHANGED <<app, totBytes, attributes, earned>>

StopSendingBug ==
  /\ switchTo = "StopSending" /\ switchIn = 0
  /\ Schedule("StartSending", OffTimes)
  /\ UNCHANGED <<app, flowVars, attributes, history>>
StopSending ==
  /\ switchTo = "StopSending" /\ switchIn = 0
  /\ CancelEvents
  /\ Schedule("StartSending", OffTimes)
  /\ UNCHANGED <<app, totBytes, attributes, pace, earned>>

\* The packet uses up the residual bits; behind the last one CancelEvents finds
\* m_sendEvent expired and keeps nothing.
LeftBug == residualBits
Left == 0
SendPacket ==
  /\ sendIn = 0
  /\ totBytes <= MaxTotal
  /\ totBytes' = totBytes + PktSize
  /\ residualBits' = Left
  /\ earned' = 0
  /\ cuts' = 0
  /\ IF MayGoOn(totBytes')
     THEN ScheduleSend(Left) /\ UNCHANGED <<rateFailSafe, switchIn>>
     ELSE /\ rateFailSafe' = rate
          /\ sendIn' = Never /\ elapsed' = 0 /\ switchIn' = Never
          /\ UNCHANGED pace
  /\ UNCHANGED <<app, switchTo, attributes>>

\* The time until the next event passes in steps; the history counts, up to Word,
\* the bits that the On time is worth.
Tick ==
  /\ sendIn # 0 /\ switchIn # 0
  /\ sendIn # Never \/ switchIn # Never
  /\ IF sendIn = Never
     THEN UNCHANGED <<sendIn, elapsed, earned>>
     ELSE /\ sendIn' = sendIn - 1
          /\ elapsed' = elapsed + 1
          /\ earned' = IF earned + pace < Word * Second THEN earned + pace ELSE Word * Second
  /\ switchIn' = IF switchIn = Never THEN Never ELSE switchIn - 1
  /\ UNCHANGED <<app, rateFailSafe, totBytes, residualBits, switchTo, attributes, pace, cuts>>

Next ==
  \/ \E r \in Rates : SetDataRate(r)
  \/ \E limit \in Limits : SetMaxBytes(limit)
  \/ StartApplication \/ StopApplication
  \/ StartSending \/ StopSending \/ SendPacket
  \/ Tick

Spec == Init /\ [][Next]_vars

\* The simulator runs every event that is due, and time goes on.
FairSpec ==
  /\ Spec
  /\ WF_vars(StartApplication)
  /\ WF_vars(StartSending)
  /\ WF_vars(StopSending)
  /\ WF_vars(SendPacket)
  /\ WF_vars(Tick)

-------------------------------------------------------------------------------
(* Properties.                                                             *)

TypeOK ==
  /\ app \in {"idle", "running", "stopped"}
  /\ rate \in Rates /\ rateFailSafe \in Rates /\ pace \in Rates
  /\ maxBytes \in Limits
  /\ totBytes \in Nat
  /\ residualBits \in 0..(Word - 1)
  /\ sendIn \in Nat \cup {Never}
  /\ elapsed \in Nat /\ earned \in Nat /\ cuts \in Nat
  /\ switchTo \in {"StartSending", "StopSending"}
  /\ switchIn \in Nat \cup {Never}
  /\ rates \in Nat /\ limits \in Nat

\* "During the Off state, no traffic is generated" (onoff-application.h:63): a
\* packet is scheduled only if the end of the On period is scheduled as well.
SilentWhenOff ==
  sendIn # Never => app = "running" /\ switchTo = "StopSending" /\ switchIn # Never

\* The residual bits never exceed a packet, else the unsigned subtraction in
\* ScheduleNextTx would wrap around and put the packet off for 2^32 bits.  This is
\* what m_cbrRateFailSafe is for, and it serves for one change of the rate only.
ResidualFits == rates <= 1 => residualBits <= PktBits

\* "The remaining time until when the next transmission would have occurred is
\* cached" (onoff-application.h:70): a packet is sent when the On time since the
\* last one, in however many periods, amounts to its bits; not before, but for the
\* cut-off part of a tick, and without a change of the rate no later than by the
\* one bit that each interruption may cost.
PacketsAreEarned ==
  [][totBytes' # totBytes =>
       /\ rates <= 1 => earned + pace >= PktBits * Second
       /\ rates = 0 => earned <= (PktBits + cuts) * Second]_vars

\* Once MaxBytes are out no packet is scheduled any more, and less than a packet
\* goes beyond them, unless somebody changes the limit.
DoneIsQuiet ==
  limits = 0 /\ maxBytes > 0 /\ totBytes >= maxBytes =>
    sendIn = Never /\ switchIn = Never /\ totBytes < maxBytes + PktSize

\* MaxBytes are out in the end, also if no On period lasts as long as a packet: more
\* than a bit is enough.
MoreThanABit == \A ticks \in OnTimes, r \in Rates : ticks * r > Second
LimitReached ==
  MoreThanABit =>
    <>(\/ app = "stopped" \/ limits > 0 \/ totBytes > MaxTotal
       \/ maxBytes > 0 /\ totBytes >= maxBytes)
===============================================================================
