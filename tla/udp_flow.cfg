\* Numbered packets are lost, repeated and reordered, and the loss window
\* changes while they arrive: behind the first packet the loss count is exact as
\* long as nothing comes later than the window, it is never too high, and the
\* client sends all its packets although its socket refuses some.
SPECIFICATION FairSpec
CONSTANTS
  MaxPackets = 6
  WindowSizes = {2, 3}
  MaxCopies = 1
  MaxResizes = 1
INVARIANTS
  TypeOK
  LaterLossesExact
  LostNeverOvercounts
PROPERTIES
  AllSent
CHECK_DEADLOCK FALSE
