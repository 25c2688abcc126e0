\* Three joining nodes fill a ping table of three entries: the counter is back
\* at 0 although data of three hosts is stored, so their answers are ignored.
SPECIFICATION Spec
CONSTANTS
  r = r
  a = a
  b = b
  c = c
  d = d
  Node <- Overlay4
  Root = r
  NoAddress = NoAddress
  MAX_FANOUT = 1
  MAX_PINGS = 3
  RoundTrip <- UniformRoundTrip
  Elapsed = {0, 1, 2, 3}
  StartsAfter <- RootFirst
  StartsCalm = {}
  StalePadding = FALSE
  MaxLost = 0
  EarlyStop = {}
INVARIANTS
  NumPingsCountsHosts
CHECK_DEADLOCK FALSE
