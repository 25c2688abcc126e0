\* Four nodes join with fan-out 2, in any order: each started node has one
\* place or one request for a place, lists of two hosts are searched to the
\* end, tables of pings are counted right, the overlay is a tree, and every node
\* has its parent when it is at rest.
SPECIFICATION Spec
CONSTANTS
  r = r
  a = a
  b = b
  c = c
  d = d
  Node <- Overlay5
  Root = r
  NoAddress = NoAddress
  MAX_FANOUT = 2
  MAX_PINGS = 8
  RoundTrip <- UniformRoundTrip
  Elapsed = {0, 1, 2, 3}
  StartsAfter <- RootFirst
  StartsCalm = {}
  StalePadding = FALSE
  MaxLost = 0
  EarlyStop = {}
SYMMETRY Symmetry
INVARIANTS
  OneConversation
  CounterCountsAwaited
  OverlayIsTree
  ParentAdopted
  NumPingsCountsHosts
CHECK_DEADLOCK FALSE
