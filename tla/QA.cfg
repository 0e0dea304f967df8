CONSTANTS
  r1 = r1
  r2 = r2
  r3 = r3
  r4 = r4
  s1 = s1
  s2 = s2
  t1 = t1
  t2 = t2
  t3 = t3
  Blank = Blank
  Failed = Failed
  Nobody = Nobody
  Requests <- FourRequests
  Scope <- ScopeOf
  Text <- TextOf
  Similar <- Neighbours
  Deployments <- Wirings
  MaxFaults = 1
SPECIFICATION Spec
INVARIANTS TypeOK ListedApart ListedGroupsEnd OverlapNeedsStraggler AnswersFit StoredAnswersAreReused DisconnectHarmsNobody
PROPERTY MergesShareRuns
