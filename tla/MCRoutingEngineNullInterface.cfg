SPECIFICATION Spec
CONSTANTS
  AddressBits = 3
  ens34 = ens34
  ens37 = ens37
  ens38 = ens38
  InterfaceName = {ens34, ens37, ens38}
  Interface = {ens34, ens37}
  NoRoute = NoRoute
  ipOf <- MCIpOf
  routing_table <- MCRoutes
  Packet = {p1, p2}
  Destination <- MCDestination
  m1 = m1
  m2 = m2
  m3 = m3
  Mac = {m1, m2, m3}
  Claim <- MCClaim
  ZeroMac = ZeroMac
  NoEntry = NoEntry
  NoPacket = NoPacket
  Free = Free
  PendingLimit = 1
  ArpLifetime = 0
  LossyLink = TRUE
CHECK_DEADLOCK FALSE
INVARIANT MissingInterfaceIsSkipped
