CONSTANTS
  g1 = g1
  g2 = g2
  s1 = s1
  q1 = q1
  q2 = q2
  t1 = t1
  t2 = t2
  Bad = Bad
  NoRule = NoRule
  Ops <- ThreeOps
  Scopes <- OneScope
  Queries <- TwoQueries
  Stamps <- TwoStamps
  Drafts <- MCDrafts
  Patches <- MCPatches
  Gateways <- OneGateway
  AdminGateways <- OtherGateway
  MaxAborts = 1
SPECIFICATION Spec
INVARIANTS StoreTypeOK ChangesStick RevivedOnlyByOverlap OnlyRevivedUnlisted PolicyAtRest
PROPERTY KeepsServing
