CONSTANTS
  o1 = o1
  o2 = o2
  o3 = o3
  g1 = g1
  g2 = g2
  k1 = k1
  k2 = k2
  Nobody = Nobody
  NoKey = NoKey
  MaxErrors = 0
  MaxAborts = 1
  Ops <- TwoOps
  Keys <- OneKey
  Kinds <- AllKinds
  AdminMode = "serial"
  Gateways <- TwoGateways
  AdminGateways <- TwoGateways
  MaxLost = 1
  MaxRestarts = 1
SPECIFICATION FairSpec
INVARIANT FreshAtRest
PROPERTY EventuallyFresh
