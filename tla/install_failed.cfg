SPECIFICATION Spec
CONSTANTS
  DualVisibility = TRUE
  MaxInstalls = 1
  MaxTeardowns = 0
  MaxFaults = 1
INVARIANTS
  HelmFailureReported
CHECK_DEADLOCK FALSE
