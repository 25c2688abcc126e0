\* The first packet, number 0, is lost, and the loss counter never says so.
SPECIFICATION FairSpec
CONSTANTS
  MaxPackets = 4
  WindowSizes = {2}
  MaxCopies = 0
  MaxResizes = 0
INVARIANTS
  LostIsExact
CHECK_DEADLOCK FALSE
