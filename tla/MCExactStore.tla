---------------------------- MODULE MCExactStore ----------------------------
\* Up to five calls about two keys; which of them are made, and how, is set in
\* the configurations.
EXTENDS ExactStore, TLC

CONSTANTS o1, o2, o3, o4, o5, k1, k2

ThreeOps == {o1, o2, o3}
FiveOps == {o1, o2, o3, o4, o5}
TwoKeys == {k1, k2}

AllKinds == {"create", "dat", "rekey", "delete"}
CreateRekey == {"create", "rekey"}

CallSymmetry3 == Permutations(ThreeOps) \cup Permutations(TwoKeys)
CallSymmetry5 == Permutations(FiveOps) \cup Permutations(TwoKeys)
=============================================================================
