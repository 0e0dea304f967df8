---------------------------- MODULE MCExactRules ----------------------------
\* Up to three calls about two keys, in one or two gateways.
EXTENDS ExactRules, TLC

CONSTANTS o1, o2, o3, g1, g2, k1, k2

TwoOps == {o1, o2}
ThreeOps == {o1, o2, o3}
OneGateway == {g1}
TwoGateways == {g1, g2}
OneKey == {k1}
TwoKeys == {k1, k2}

AllKinds == {"create", "dat", "rekey", "delete"}
KeepKey == {"create", "dat", "delete"}
CreateDelete == {"create", "delete"}

CallSymmetry == Permutations(ThreeOps) \cup Permutations(TwoKeys)
=============================================================================
