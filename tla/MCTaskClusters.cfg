SPECIFICATION SuiteSpec
CONSTANTS
  s1 = s1
  s2 = s2
  c_m1 = c_m1
  c_m2 = c_m2
  c_r1 = c_r1
  c_r2 = c_r2
  c_s1 = c_s1
  Monitors = {"m1"}
  Reapers = {"r1"}
  Operators = {"o1"}
  Slots = {s1, s2}
  MaxAttempt = 3
  MaxExecutions = 1
  RetryLimit = 2
  MaxFaults = 1
  NodeTask = TRUE
  OwnerMayCancel = TRUE
  HookMayFail = TRUE
  Timely = TRUE
SYMMETRY Symmetry
CHECK_DEADLOCK FALSE
INVARIANT NoOverlap LossIsNamedRight
PROPERTY KeepsContract ClustersAreSound
