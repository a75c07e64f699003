SPECIFICATION Spec
CONSTANTS
  Monitors = {m1}
  Reapers = {}
  Members = {a, b}
  MaxRuns = 2
  MaxFaults = 0
  Shared = FALSE
SYMMETRY Symmetry
CHECK_DEADLOCK FALSE
INVARIANT CompletesWhenAllFinish
