\* Four applications that start up to 21 s apart send the data down a tree:
\* along each connection that is made nothing is lost, repeated or reordered, so
\* that every node takes over the data of its parent from the first packet on, and if the starts are close enough together no null socket is used and
\* everybody gets all data.
SPECIFICATION FairSpec
CONSTANTS
  r = r
  a = a
  b = b
  c = c
  Node = {r, a, b, c}
  Root = r
  Children <- Tree4
  StartTimes = {1, 11, 22}
  SENDTCPTIME = 300
  Packets = 2
INVARIANTS
  TypeOK
  Forwarded
  SocketsReady
PROPERTIES
  ForwardsInOrder
  EveryoneServed
CHECK_DEADLOCK FALSE
