CONSTANTS
  r1 = r1
  r2 = r2
  r3 = r3
  text = text
  dead = dead
  Nobody = Nobody
  Requests <- MCRequests
  Keys <- MCKeys
  TextKey = text
  Dead <- MCDead
  Near <- Chain
  MergeTimeout = 1
  Stall = 1
  LockTTL = 3
  ResultTTL = 3
  Grace = 0
  MaxFaults = 1
  MaxActive = 3
SYMMETRY RequestSymmetry
SPECIFICATION SemSpec
INVARIANTS SemTypeOK Exclusive LeaksNeedFaults
PROPERTIES UnlocksOwn SharesRuns TimeoutNeedsFault FoundsOnlyIfNone
