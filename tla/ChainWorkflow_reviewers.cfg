SPECIFICATION Spec
CONSTANTS
  Monitors = {m1}
  Reapers = {}
  Operators = {o1,o2}
  LastStep = 1
  Gated = {1}
  MaxTasks = 4
  MaxRuns = 1
  MaxResumes = 1
  MaxFaults = 0
  Shared = FALSE
  Unhurried = FALSE
SYMMETRY Symmetry
CHECK_DEADLOCK FALSE
INVARIANT SettledMeansOver
