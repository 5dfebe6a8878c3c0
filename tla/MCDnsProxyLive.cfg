SPECIFICATION Spec
CONSTANTS
  MaxQuery = 2
  MaxClear = 1
  MaxStart = 2
  max_upstream = 2
  IdSpace = 2
  PortSpace = 3
  FirstPort = 2
  Protos = {"Udp", "Tcp"}
PROPERTIES
  SessionsDrain
  ClearReachesUpstreams
  DroppedUpstreamStops
CHECK_DEADLOCK FALSE
