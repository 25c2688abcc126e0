\* Nodes at different distances, fan-out 1: a node that was sent away and comes
\* back is adopted for an answer to a ping of another kind, and the overlay
\* comes to rest with a parent that does not have it as a child.
SPECIFICATION Spec
CONSTANTS
  r = r
  a = a
  b = b
  c = c
  d = d
  Node <- Overlay4
  Root = r
  NoAddress = NoAddress
  MAX_FANOUT = 1
  MAX_PINGS = 8
  RoundTrip <- StreetRoundTrip
  Elapsed = {0, 1, 2, 3}
  StartsAfter <- RootFirst
  StartsCalm = {}
  StalePadding = FALSE
  MaxLost = 0
  EarlyStop = {}
INVARIANTS
  ParentAdopted
CHECK_DEADLOCK FALSE
