SPECIFICATION Spec
CONSTANTS
  c1 = c1
  c2 = c2
  s1 = s1
  ens34 = ens34
  ens37 = ens37
  ens38 = ens38
  Thread = {ens34, ens37, ens38}
  Client = {c1, c2}
  Server = {s1}
  External = External
  Port = {1, 2, 3, 4}
  PoolStart = 3
  PoolEnd = 4
  Traffic <- TcpOnly
  threadOf <- TwoLans
  Natted <- MCNatted
  None = None
INVARIANT PublicFlowsDiffer
