\* The whole generation of the Python bindings, by the driver and by main:
\* every lookup finds its name, every pointed-to class is reference counted,
\* and no class of this module loses a method.
SPECIFICATION FairSpec
CHECK_DEADLOCK FALSE
INVARIANTS
  PointeesCounted
  OwnApiWhole
  OwnClassesConcrete
  CallbacksConverted
PROPERTIES
  Finishes
