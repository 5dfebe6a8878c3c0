SPECIFICATION Spec
CONSTANTS
  Total <- MCTotal
  Size = 2
  Room = 1
INVARIANTS
  TypeOK
  RelayExact
  ShutdownAfterAll
  TimeoutOnlyIfIdle
PROPERTIES
  BytesFlow
  EofPassedOn
  StreamsSpec
CHECK_DEADLOCK FALSE
