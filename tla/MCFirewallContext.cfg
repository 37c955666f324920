SPECIFICATION Spec
CONSTANTS
  AddressBits = 2
  ByteBits = 1
  NoVerdict = NoVerdict
  ens37 = ens37
  ens34 = ens34
  lo = lo
  eth9 = eth9
  listed = listed
  unlisted = unlisted
  evil = evil
  me34 = me34
  me37 = me37
  you = you
  Thread = {ens34, ens37}
  Device = {ens34, ens37, lo}
  Loopback = {lo}
  Client <- MCClient
  Server <- MCServer
  External <- fw
  Port = {1, 2, 3, 4}
  PoolStart = 3
  PoolEnd = 4
  threadOf <- MCThreadOf
  None = None
  Frame <- MCTraffic
  Traffic <- MCTraffic
  mac <- MCMac
  Broadcast = Broadcast
  Http = 2
  Https = 1
  Profile <- MCProfile
  security_policies <- MCPolicies
  nat_policies <- MCNatPolicies
  Natted <- MCNatted
  Body = {evil}
  Garbled = Garbled
  Ctx = {x1}
  SeqModulus = 8
  interface_names <- MCNames
INVARIANT FoundSessionHasItsContext
CHECK_DEADLOCK FALSE
