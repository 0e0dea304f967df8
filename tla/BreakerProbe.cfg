CONSTANTS
  c1 = c1
  c2 = c2
  c3 = c3
  Calls <- MCCalls
  FailureThreshold = 2
  OpenSeconds = 3
  OpTimeout = 2
  Horizon = 9
SYMMETRY CallSymmetry
SPECIFICATION Spec
PROPERTY FailedProbeReopens
