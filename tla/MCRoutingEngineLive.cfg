SPECIFICATION FairSpec
CONSTANTS
  AddressBits = 3
  ens34 = ens34
  ens37 = ens37
  ens38 = ens38
  m1 = m1
  m2 = m2
  m3 = m3
  InterfaceName = {ens34, ens37, ens38}
  Interface = {ens34, ens37}
  NoRoute = NoRoute
  ipOf <- MCIpOf
  routing_table <- MCRoutes
  Packet = {p1, p2, p3}
  Destination <- OneHop
  Mac = {m1, m2, m3}
  ZeroMac = ZeroMac
  Claim <- AnsweringHosts
  NoEntry = NoEntry
  NoPacket = NoPacket
  Free = Free
  PendingLimit = 2
  ArpLifetime = 0
  LossyLink = FALSE
PROPERTY EveryPacketLeaves
