SPECIFICATION Spec
CONSTANTS
  MaxQuery = 3
  MaxClear = 1
  MaxStart = 2
  max_upstream = 2
  IdSpace = 2
  PortSpace = 3
  FirstPort = 1
  Protos = {"Udp", "Tcp"}
INVARIANTS
  TypeOK
  AtMostOneAnswer
  WrongAnswerOnlyAfterWrap
  PortInUseOnlyAfterWrap
PROPERTIES
  DiscardJustified
CHECK_DEADLOCK FALSE
