SPECIFICATION Spec
CONSTANTS
  home = home
  phone = phone
  eth = eth
  wlan = wlan
  Tun = Tun
  None = None
  Net = {home}
  IfaceOf <- MCIfaceOf
  Handler = {"udp"}
  Policies = {"lower"}
  MaxChange = 5
INVARIANT LossNoticed
CHECK_DEADLOCK FALSE
