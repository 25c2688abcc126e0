\* A bulk transfer through a send buffer that is smaller than the transfer,
\* with and without a limit that changes, with stops, restarts and resets: the
\* limit is kept, the connection closed exactly when all is out, and an
\* undisturbed transfer arrives.
SPECIFICATION FairSpec
CONSTANTS
  SendSizes = {3, 6}
  BufSize = 5
  Limits = {0, 4, 7, 10}
  MaxTotal = 10
  MaxChanges = 1
INVARIANTS
  TypeOK
  ConnectedIsOpen
PROPERTIES
  WithinLimit
  ClosedWhenAllOut
  EverythingArrives
CHECK_DEADLOCK FALSE
