CONSTANTS
  o1 = o1
  o2 = o2
  o3 = o3
  o4 = o4
  o5 = o5
  k1 = k1
  k2 = k2
  Nobody = Nobody
  NoKey = NoKey
  Ops <- FiveOps
  Keys <- TwoKeys
  Kinds <- AllKinds
  AdminMode = "perRule"
  MaxErrors = 1
  MaxAborts = 1
SYMMETRY CallSymmetry5
SPECIFICATION StoreSpec
INVARIANTS StoreTypeOK DamageIsLocal
