SPECIFICATION Spec
CONSTANTS
  s1 = s1
  s2 = s2
  a = a
  b = b
  Src = {s1,s2}
  Dst = {a}
  MaxPacket = 2
  MaxNotify = 2
  UDP_RECV_CH_SIZE = 1
  DnsChannelSize = 1
INVARIANTS
  TypeOK
  WaitingEntryStays
PROPERTIES
  EntryLossReasons
  LoopGoesOn
  ClearReachesSessions
  TimedOutRemoved
  CancelledTasksEnd
CHECK_DEADLOCK FALSE
