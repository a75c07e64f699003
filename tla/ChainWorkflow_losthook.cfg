SPECIFICATION Spec
CONSTANTS
  Monitors = {m1}
  Reapers = {r1}
  Operators = {}
  LastStep = 0
  Gated = {}
  MaxTasks = 2
  MaxRuns = 1
  MaxResumes = 0
  MaxFaults = 1
  Shared = FALSE
  Unhurried = FALSE
CHECK_DEADLOCK FALSE
INVARIANT SettlementHookQueued
