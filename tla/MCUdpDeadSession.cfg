SPECIFICATION Spec
CONSTANTS
  s1 = s1
  s2 = s2
  a = a
  b = b
  Src = {s1}
  Dst = {a}
  MaxPacket = 2
  MaxNotify = 0
  UDP_RECV_CH_SIZE = 1
  DnsChannelSize = 1
PROPERTY DeadSessionsCleaned
CHECK_DEADLOCK FALSE
