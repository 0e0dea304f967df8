CONSTANTS
  c1 = c1
  c2 = c2
  c3 = c3
  c4 = c4
  Nobody = Nobody
  Calls <- MCCalls
  Timeout = 2
  DialLimit = 3
  MaxFaults = 2
  Horizon = 14
SYMMETRY CallSymmetry
SPECIFICATION Spec
INVARIANTS NoStrayReply FailuresBounded EndsInTime
