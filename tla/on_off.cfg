\* On and off periods of lengths that fall between packets, rates that are no
\* whole number of bits per tick, a rate and a limit that change: no packet is
\* pending while Off, the residual bits never exceed a packet, each packet comes
\* when its bits are earned, and the limit is reached and then kept.
SPECIFICATION FairSpec
CONSTANTS
  PktSize = 2
  Rates = {5, 8, 11}
  Second = 2
  Limits = {0, 3, 4}
  OnTimes = {1, 5}
  OffTimes = {1}
  Word = 32
  MaxTotal = 3
  MaxRates = 2
  MaxLimits = 1
INVARIANTS
  TypeOK
  SilentWhenOff
  ResidualFits
  DoneIsQuiet
PROPERTIES
  PacketsAreEarned
  LimitReached
CHECK_DEADLOCK FALSE
