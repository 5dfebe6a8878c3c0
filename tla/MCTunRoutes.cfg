SPECIFICATION Spec
CONSTANTS
  home = home
  phone = phone
  eth = eth
  wlan = wlan
  Tun = Tun
  None = None
  Net = {home, phone}
  IfaceOf <- MCIfaceOf
  Handler = {"udp"}
  Policies = {"replace", "lower"}
  MaxChange = 4
INVARIANTS
  TypeOK
  NoStaleWatch
  HostReachable
  LossReachesHandlers
PROPERTY RunReturns
CHECK_DEADLOCK FALSE
