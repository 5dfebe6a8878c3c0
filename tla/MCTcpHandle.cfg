SPECIFICATION Spec
CONSTANTS
  k1 = k1
  k2 = k2
  Key = {k1, k2}
  MaxStream = 2
  MaxNotify = 2
INVARIANTS
  TypeOK
  UncancelledIffInMap
  NoEntryOutlivesItsTask
PROPERTIES
  CancelReasons
  CancelledCopyEnds
  ClearReachesConnections
CHECK_DEADLOCK FALSE
