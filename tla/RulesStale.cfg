CONSTANTS
  o1 = o1
  o2 = o2
  o3 = o3
  g1 = g1
  g2 = g2
  k1 = k1
  k2 = k2
  Nobody = Nobody
  NoKey = NoKey
  MaxErrors = 0
  MaxAborts = 0
  Ops <- ThreeOps
  Keys <- TwoKeys
  Kinds <- CreateDelete
  AdminMode = "perRule"
  Gateways <- OneGateway
  AdminGateways <- OneGateway
  MaxLost = 0
  MaxRestarts = 0
SYMMETRY CallSymmetry
SPECIFICATION Spec
INVARIANT ChangesTakeEffect
