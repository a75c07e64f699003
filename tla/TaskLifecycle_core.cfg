SPECIFICATION Spec
CONSTANTS
  Monitors = {m1}
  Reapers = {r1}
  Operators = {o1}
  Slots = {s1, s2}
  MaxAttempt = 2
  MaxExecutions = 1
  RetryLimit = 2
  MaxFaults = 1
  NodeTask = FALSE
  OwnerMayCancel = FALSE
  HookMayFail = FALSE
  Timely = FALSE
SYMMETRY Symmetry
CHECK_DEADLOCK FALSE
INVARIANT TypeOK OneOpenAttempt StatusMatchesAttempts RoutedMeansDispatched HooksTellTheTruth AdmittedDeliveries
PROPERTY ResolvedOnce SucceededIsFinal
