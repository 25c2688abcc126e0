\* A packet is lost and a node stops at any moment: no node ever gets two
\* places or two requests, the overlay still grows as a tree, a node that is left
\* out stays out, a lost packet costs at most one node its parent, the times of
\* pings are round trips, and if nothing was lost and nobody stopped every node is
\* adopted in the end and knows its parent.
SPECIFICATION FairSpec
CONSTANTS
  r = r
  a = a
  b = b
  c = c
  d = d
  Node <- Overlay4
  Root = r
  NoAddress = NoAddress
  MAX_FANOUT = 1
  MAX_PINGS = 8
  RoundTrip <- UniformRoundTrip
  Elapsed = {0, 1, 2, 3}
  StartsAfter <- RootFirst
  StartsCalm = {}
  StalePadding = FALSE
  MaxLost = 1
  EarlyStop = {a}
INVARIANTS
  TypeOK
  AtMostOneConversation
  LossesStayLocal
  TimesAreRoundTrips
PROPERTIES
  EveryoneAdopted
  GrowsAsATree
  LeftOutForGood
CHECK_DEADLOCK FALSE
