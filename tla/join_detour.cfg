\* A late newcomer is nearer to an inner node than its child, which is sent
\* away; a child pings its own parent again and the ping table wraps around:
\* the root is never adopted, a believed parent has the node as a child or has
\* a REATTACH on its way, and refusals list the children of now.
SPECIFICATION Spec
CONSTANTS
  r = r
  a = a
  b = b
  c = c
  d = d
  Node <- Overlay5
  Root = r
  NoAddress = NoAddress
  MAX_FANOUT = 1
  MAX_PINGS = 5
  RoundTrip <- DetourRoundTrip
  Elapsed = {0, 1, 2, 3}
  StartsAfter <- InTurn
  StartsCalm = {r, a, b}
  StalePadding = TRUE
  MaxLost = 0
  EarlyStop = {}
INVARIANTS
  RootIsNobodysChild
  ParentBacked
  SerializedIsFresh
CHECK_DEADLOCK FALSE
