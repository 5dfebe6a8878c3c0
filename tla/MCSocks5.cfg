SPECIFICATION Spec
CONSTANTS
  Base = 6
  Target <- MCTarget
  MaxRelay = 2
INVARIANTS
  ServerSeesTarget
  RelayStartsAtPayload
CHECK_DEADLOCK FALSE
